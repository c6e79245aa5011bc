# A TLA+ model of otaclient

otaclient updates one ECU of a vehicle over the air. An ECU has two slots, A
and B; the slot that runs is left alone while the new image is written to the
other one, which is then booted and, when it has come up, made the default.
This directory holds a model of the parts of otaclient whose correctness rests
on the order of steps of several threads, processes or reboots, what TLC checks
about it on small instances, and what TLAPS proves about it for all of them.

    tlc -config OtaCore_safety.cfg MCOtaCore      # one run
    tlapm --threads 4 OtaCoreProofs.tla           # the proofs of one module

`PROJECT.json` maps every definition to the lines it models, names the runs,
the mutation of the code that each property detects, the findings, the hazards
and the theorems. Paths below are those of the package, `src/src/`.

## 1. The system

| part | state | operations | talks to |
|---|---|---|---|
| supervisor (`otaclient/main.py`) | child processes, client-update events, pid file | start-up, health loop, shutdown, launch of a downloaded client | all processes |
| ota_core (`ota_core/_main.py`) | live OTA status, hold time, report deadline | accept, reject, `update`, `client_update`, expire ABORTED | API server (queues), abort handler, boot controller, status collector |
| abort handler (`_abort_handler.py`) | abort state, session, two queues, a condition variable | `submit`, `_handle`, `_perform_abort`, critical zone, final phase | request loop, update thread, process signal |
| updaters (`_updater*.py`, `_client_updater.py`, `_partition_image.py`) | phase of the update, staged payload | metadata, delta, download, write, post-update, finalise | boot controller, downloader, abort handler |
| OTA status files (`_ota_status_control.py`) | `status`, `slot_in_use`, `version`, failure info of both slots | load at start, pre/post update, failure, abort | boot controllers |
| boot controllers (`boot_control/`): GRUB, Raspberry Pi, Jetson cboot and UEFI, partition image | boot loader configuration, boot directories, slots, firmware | start, pre/post update, finalise | boot loader, status files |
| standby slot creation (`create_standby/`) | delta, resources, files of the new slot | delta generation, in-place or rebuild update, writing | downloader |
| download and retry (`downloader.py`, `_download_resources.py`, `retry_task_map.py`) | tasks in flight, retries, partial files | dispatch, retry, resume, shutdown | otaproxy, image server |
| status collector (`_status_monitor.py`, `_shm.py`) | status record, session, shared memory | apply report, write, read | ota_core, API server |
| API server (`grpc/api_v2/`) | IPC queues, status of all ECUs | update, abort, client update, status; poll child ECUs | ota_core, child ECUs |
| otaproxy control (`_otaproxy_ctx.py`) | proxy subprocess | start, stop, clean the cache directory | ECU status flags |
| otaproxy (`ota_proxy/`) | cache files, index, database, trackers | look up, cache, stream, drop | downloaders, upstream |

What makes it hard: the request loop, the update thread and the abort handler
share the live status, the abort state and the status file; worker threads
retry while others give up; an abort may come at any time; the process is ended
by a signal, by the supervisor or by a crash, and restarted by systemd; power
may fail between any two writes to the boot partition; the boot loader decides
alone what runs next.

## 2. The modules

| module | models | used by |
|---|---|---|
| `OtaCore`, `MCOtaCore` | request loop, update and client-update threads, abort handler, life of the process | runs `core_*` |
| `GrubBootControl`, `MCGrubBootControl` | GRUB controller and the status files under power loss | run `grub` |
| `ABUpdate` | the promise of every boot controller | `BootControllers`, `RpiBootProofs` |
| `SlotBootControl` | what the Raspberry Pi and Jetson controllers share | `RpiBoot`, `JetsonBoot` |
| `RpiBoot`, `JetsonBoot`, `JetsonFirmware`, `PartitionImage` | the controllers of the other platforms | `BootControllers` |
| `BootControllers` | the choice of a controller and all of them but GRUB's | runs `boot_controllers`, `partition_failed_update` |
| `RetryTaskMap` | the thread pool with retries | `DownloadResources`, `MetaFiles`, `Update` |
| `DownloadResources`, `MetaFiles`, `Downloader` | resources with slices, metadata batches, one file | `Update` |
| `PartitionPayload` | staging and payload of a partition-image update | `Update` |
| `StandbySlot`, `UpdateSlot` | delta generation; writing of the files | `Update` |
| `Update` | the stages of an update | run `update_stages` |
| `CacheStreaming`, `OtaCache`, `CacheIndex` | caching of a file, requests for it, index and database | `Proxy` |
| `OtaProxyCtx` | the thread that starts and stops otaproxy | `Proxy` |
| `Proxy` | the otaproxy of an ECU | runs `otaproxy`, `proxy_db_order` |
| `StatusCollector`, `EcuStatus`, `Servicer` | status reports, the view of the ECUs, API requests | `Services` |
| `Supervisor`, `ClientUpdate`, `OtaConfigFiles` | main process, client package, `/boot/ota` | `Services` |
| `Services` | the processes around an update | runs `services`, `config_old_slot` |
| `*Proofs` | theorems about the module they are named after | section 5 |

Modules that interact through state are one module over the other with EXTENDS
(`OtaCache` over `CacheStreaming`, `DownloadResources` and `MetaFiles` over
`RetryTaskMap`, the controllers over `SlotBootControl`). `Update`, `Proxy`,
`Services` and `BootControllers` put modules side by side that do not share
state: `part` or `platform` says which one a behaviour is about, and the
variables of the others hold `NotUsed`. They give one instance of the constants
for each part, and state the properties that several parts have in common.
Where one part depends on another it takes the other's promise: `EcuStatus`
gives the flags `OtaProxyCtx` follows, `OtaCore` takes the wait that
`EcuStatus` models as finite, `StandbySlot` takes a download as `Downloader`
leaves it.

An action is a block of statements between two points where another thread, a
crash or a power loss can interfere. Writes that the code makes atomic (a
temporary file and a rename) are one step, and those that it does not can be
cut. History variables (`abort_accepted`, `trial`, `risked`, `missed`,
`unheard`, `disturbed`, `cut`, `rejected`, `written_by`, `succeeded`, `gave_up`,
`ended`, and `broken` of `StandbySlot`) change nothing else: no guard reads them.

### OtaCore

State: `live_ota_status`, `aborted_deadline` and `hold` (`_allow_request_after`)
of the request loop; `abort_state`, `session_id` and the two queues of the abort
handler; `upc[s]`, where the thread of session `s` is; `status_file`, the status
file of the running slot; `sigusr1`, `request_shutdown`, `data_ready`, `alive`,
`started` and `running_as`, the life of the process.

`SetSession`, `SetUpdating`, `Prepared`, `EnterCriticalZone`, ... are the steps
of `update()` and `execute()` in their order, `Handle`, `RunCheck`, `OnAbort`,
`SendAbortSignal` those of the handler thread. A check of the abort state and
the status write that follows it are two actions. `cond_held` keeps the others
out while `_run` holds the condition across `_perform_abort`. `Stop` is the end
of the process, `Start` and `StartFails` the next one.

Three assumptions on time are guards, each named where it is made: a started
thread sets the live status within the hold time (`HoldExpires`); the handler
answers within 3 s unless it waits, aborts or is dead (`GetResponseTimeout`); a
failure report under way ends within the 3 s an abort waits (`OnAbort`).

### Boot controllers

`GrubBootControl` has for each slot its root file system (`"empty"` after mkfs,
`"mixed"` while files are replaced, `"complete"`), its boot directory with
kernel, `status` and `slot_in_use`, and its menu entry; GRUB's `saved_entry` and
`next_entry`; who wrote `grub.cfg`; the slot that runs. Each atomic write of
`_grub_new.py`, `_base.py` and `_ota_status_control.py` is one action, in the
code's order, from the bootstrap of a newly installed system, which removes and
links the installer's kernel and initrd one after the other (`boot_root`),
through `pre_update`, the writing of the image, `post_update`, the reboot, the
first boot of the new slot and its finalisation. `rmtree` removes files in any
order. In all controllers an abort stores ABORTED at any point of an update, its
failure report included, until `enter_final_phase` (`final_phase`).
`PowerLoss` and `OtaclientRestarts` may come after any action, and an exception
(`UpdateFails`, `StartupFails`, `OnFailureRaises`) instead of one. GRUB itself
is external, modelled from how the code configures it: with `GRUB_DEFAULT=saved`
the one-shot entry comes first and is cleared before it is tried, and the first
entry of the menu stands in for a missing one.

`RpiBoot` and `JetsonBoot` add their files to `SlotBootControl`'s start-up,
update, failure and abort: `config.txt`, `tryboot.txt`, kernel, initrd and
`fstab` of a slot; `extlinux.conf`, the copy of `/boot` on the emmc, the active
slot of nvbootctrl and a triggered capsule. A flash-kernel that succeeds is taken
to have put kernel and initrd where `_rpi_boot.py` moves them from.
`JetsonFirmware` is the firmware part of `post_update`, which touches none of
those: the package, the launcher and the capsule on the ESP, `nv_update_engine`, and the firmware's own update at
the next boot. In `PartitionImage` the slots are verity images, the status files
lie beside them, and the DPI, the platform's installer (external), arms one
trial boot and decides after it; `staged-in-boot`, the failure info, the version
file and the version detail, which an update may leave as it was, are the state
that has to agree with it.

`ABUpdate` has four variables: which slots are whole, which one runs, which is
the default, and whether the default was written over. `RefinesABUpdate` maps
every controller of `BootControllers` onto it. UEFI is there twice, without and
with an external rootfs; in the second case the copy of `/boot` on the emmc
follows the switch, and `EmmcIsLeftBehindOnlyBySwitch` names the steps that may
leave it behind.

### The stages of an update

`RetryTaskMap` has the dispatcher, the worker threads with the callbacks of
their futures, the semaphore, the retry counters, the watchdog, the shutdown,
the generator of the caller and the end of its with-block, which joins the
workers. `DownloadResources` replaces the iterable by
`_iter_download_tasks`, which waits for the slices of a resource, and the
function by the download through `.part` files; `MetaFiles` by the metadata
generator that shares a condition with the one worker, and the batch threads
with their `DownloaderPool` instances. `Downloader` follows one file through
requests, ranges, chunks, the checks of size and digest, where the caller gives
them, and `retry_caching`, from whatever an earlier update left at its
destination: `hashed` is what went into the digest object, `received` what came
over the wire. `StandbySlot` is the delta: the resources an old client left in
`.ota-tmp`, the scan of the slot by worker threads, in place or into a rebuilt
slot, with or without a trusted file table, from whatever an interrupted update
left, and the four steps that keep the image's metadata for the next update;
`UpdateSlot` the writing of files by threads that share first-of-digest and
hard-link tables. `PartitionPayload` is the staging directory of each version,
the plan, whose blobs are fetched in its order, the room check and what the
installer is given.

### otaproxy

`CacheStreaming` has the trackers, the register that holds them weakly, the
provider, its writer thread and the subscribers; `OtaCache` the requests: whole
or from an offset, with or without `retry_caching`, answered from the device
cache, the local cache, the NFS cache, by caching or from the remote. A body that
is cut short ends as a whole one does; `gave_up` keeps why.
`CacheIndex` is the index in memory, the queue to the database thread and its
batches, a crash at any point and the preload after it. `OtaProxyCtx` is the
control thread, the handler of the global shutdown and the lock between them.

### Services

`StatusCollector` takes a report through the queue, the collector, the shared
memory (lock byte, digest and payload are copied one after the other) and
`sync_msg`. `EcuStatus` has the storage of reports and the overall report with
its flags, in ticks of time, the polling tasks, the pause after an accepted
request and the wait of the main ECU, after which it does not look at the flag
again; it is the case of an ECU with a local otaproxy
(`enable_local_ota_proxy`). `Servicer` is the handling of a request: child ECUs,
which answer for the ECUs below them too, the two shared queues, the time-out,
the answer. `Supervisor` is one run of the main process after another, with
signals and kills from its first line on, between the creation and the start of
a process as well; `ClientUpdate` the choice, patch, copy and preservation of
the client's squashfs, with a zstd that fails on another base than the patch was
made for; `OtaConfigFiles` the replacement of the files in `/boot/ota`, which
both slots share under GRUB.

## 3. The runs

| run | shows | states |
|---|---|---|
| `core_safety` | `TypeOK`; at most one OTA at a time; the live status of a running OTA is right; an aborted update never reaches the final phase; the ABORTED it stores survives | 736 000 |
| `core_liveness` | an accepted abort ends the process; UPDATING and CLIENT_UPDATING end | 98 000 |
| `core_reboot_fails` | **violated**: a failed reboot leaves UPDATING | |
| `core_client_raises` | **violated**: an early exception leaves CLIENT_UPDATING | |
| `grub` | only whole images run; SUCCESS means the default is switched and the old slot whole; the default can be booted, unless `risked` or the first bootstrap was cut short between removing and linking a file | 421 000, all there are |
| `boot_controllers` | every other controller implements `ABUpdate`; SUCCESS is stored in the default slot; a trial boot that is armed takes place and only a slot that runs becomes the default; records and failure reasons are of the right update; firmware versions and slots agree | 1 120 000 |
| `update_stages` | a stage that returns has done all its work; what is installed is the image; permits, progress and bytes add up; no file or downloader has two users; a checked room suffices; the delta is exact; no file is an alias of another; nothing rejected is built on and nothing verified is lost; every stage ends | 224 000 |
| `otaproxy` | a body is the file, unless something cut it short; one provider; threads find their files; what was dropped does not come back from the database; saved files are replaced only as they should be; no otaproxy is left behind; all requests end and otaproxy follows the flags | 232 000 |
| `services` | the status shown is whole and of its session; otaproxy is up while an ECU downloads; answers are true; one main process hands over cleanly to the next, and launches a whole client; each slot has its config files; the reboot waits for the child ECUs; everything settles | 1 042 000 |
| `partition_failed_update` | **violated**: the trial boot of an armed slot need not be a switching boot | |
| `config_old_slot` | **violated**: the current slot may be left with new config files | |
| `proxy_db_order` | **violated**: a delete and a write of a key are not applied in their order | |

Only `OtaCore`'s type invariant is among the properties of a run. The `TypeOK`
of `GrubBootControl`, `BootControllers`, `Proxy` and `Services` (which collects
those of their parts) documents the state; it holds when it is added to the cfg.

### The bounds

* `OtaCore`: two update and two client-update sessions, so that a new session
  can meet the remains of the last one and every pair of kinds occurs; two
  aborts, one under way and one more; one restart, after which what was loaded
  from the status file is used and an ABORTED status expires. In
  `core_liveness` one client update and one abort are enough for every leads-to.
* `GrubBootControl`, `RpiBoot`, `JetsonBoot`: none, their state space is finite.
  `PartitionImage`: two updates, so that the records of the first are still
  there in the second. `JetsonFirmware`: three versions, one below
  and one at the least that supports capsules, and one whose launcher is known.
* `Update`: two items and two workers with two failures and one total retry,
  beyond which the pool gives up; one resource of two slices, and two resources
  that share a slice; the batches of the five kinds of metadata with two
  instances and one worker (as in the code); a file of three chunks with two
  faults; two versions and a room of four chunks for a payload, less than both
  need; five paths and two digests, so that a digest is moved, shared, replaced
  and removed, with two workers and one fault; four entries of which two share
  an inode, one has the same contents and one is inlined.
* `Proxy`: two clients, files of 0, 1 and 3 chunks, one fault and two requests,
  or three requests without a fault (a retry of a retry); one client and all
  combinations of external copies; three files of which the index holds one,
  two writers, batches of two, one crash; two changes of the flags and one
  death of otaproxy.
* `Services`: two sessions, a queue of two, one late report and one failing
  push; one child ECU, two requests that are accepted and one outage, with
  intervals that keep the order of the configured ones (1 and 10 s of polling,
  60 s of pause, 20 min); two API requests, at a time or one after the other, for
  the ECU, a child and an ECU below it; three deaths, signals or failing mounts; two versions
  of the client, two sessions and one crash; two failing writes or power losses.

More of each repeats what these reach, by symmetry of sessions, workers and
files; for eight modules the proofs remove the bounds.

### The fairness

Weak fairness for each thread, coroutine and process that can run: the
operating system and the event loop schedule them, and what they wait for
either times out or is another step of the model. Nothing is promised of
requests, crashes, restarts by a user and faults, which are bounded.

* `OtaCore`: each thread, the supervisor's polling of its events, the delivery
  of a pending signal. One wait is for the outside and has no timeout:
  `_finalize_update_and_reboot` waits until no child ECU is in update. OtaCore
  takes that wait as finite; `ServicesSettle` shows it for `EcuStatus`.
* The boot controllers have safety properties only, and no fairness.
* `Update`: a function that does not hang ends. One that hangs need not: the
  watchdog and its limits end the caller's loop all the same, but the end of the
  with-block joins the workers, so `StagesEnd` has the stage left only when no
  call hangs for ever.
  In `Downloader` a chunk arrives or the read times out.
* `Proxy`: the remote answers or the read times out, a process that is told to
  terminate does, the clock advances.
* `Services`: the collector, its push interval and the reader (`Collector`,
  `PushIntervalOver`, `SyncMsg`); the polling, the overall report and time
  (`Watch`), the servicer's notice of accepted requests, the wait of the main ECU
  (`Leave`); each request (`Handle`); the main process, which systemd restarts
  (`MainProcess`; `Restart=always` in `samples/otaclient.service`); the
  client-update session and the launch after it; `PostUpdate` of the config
  files. Not assumed: that a silent ECU comes back (`ComesBack`), that an update
  of an ECU ends, that ota_core answers (`CoreAnswers`).

Deadlock is checked in all runs but those of OtaCore, where the requests run out
and a stopped process may have used its restarts. In the other modules the end
of a behaviour is a step of its own, with the states that count as an end as its
guard.

## 4. What the checks found

The violated properties state what a docstring, a test or a document says; each
is a finding with its line in `PROJECT.json`:

* `UpdateConcludes` with reboot faults: `cmdhelper.reboot` raises `SystemExit` in
  the update thread, which nothing turns into a status. Only a client that runs
  as an app image is shut down by its `finally` block.
* `ClientUpdateConcludes` with preparation faults: `client_update` contacts the
  upper proxy before its `try`.
* `ArmedIsSwitchingBoot`: `on_failure` stores FAILURE for the standby slot of a
  partition-image ECU, also when the DPI has armed it; its trial boot loads that
  FAILURE, and is reported as one even when the DPI commits it.
* `CurrentSlotNotLeftWithNew`: power is lost between the first new file in
  `/boot/ota` and `grub-reboot`. `OldSlotKeepsConfig` has all the cases in which
  the old slot is left with new files: that one and a file that cannot be
  restored (`cut`), and an end of the update after `grub-reboot` (`armed`).
* `ProcessedInOrder`: `_flush_to_db` deletes after it writes, so a file dropped
  and cached again within one batch has no row, and the next start removes it.

Other behaviours that the models have because the code does, and that the
properties allow for explicitly:

* Abort, three divergences from what is written. The docstring of `AbortState`
  (`otaclient/_types.py:82`) has no transition from ABORTING to NONE; `set_session`
  (`_abort_handler.py:102`) makes it when an update is accepted while the abort of
  the last one waits, and that abort then ends the new update. A test
  (`tests/integration/test_otaclient/test_ota_core/test_updater.py:610`) is to
  "Verify idempotent ACCEPT when abort already in progress"; the thread that
  would answer the second request may be waiting for the critical zone or
  performing the first one, and the request is then answered REJECT_ABORT,
  "abort handler did not respond in time" (`_main.py:684`). `docs/SERVICES.md:455`
  says "If the update is in a critical zone, the abort command will be ignored";
  it is accepted and performed when the zone is left.
* GRUB. A process that stops between arming the one-shot entry and the reboot
  leaves the entry armed. If that update fails there, or the next one before it
  removes the slot's directory, `on_failure` stores FAILURE in the armed slot. The slot
  boots once with that FAILURE, is not finalised, and GRUB's default stays the
  other one - which the next update erases. `risked` marks these behaviours, on
  the other platforms too: an update started while the default is the other
  slot.
* Raspberry Pi. `finalize_switching_boot` replaces `config.txt` first and
  `tryboot.txt` second (`_rpi_boot.py:396`), its docstring lists them the other way
  round. The code's order is the safe one: after a power loss in between,
  `config.txt` already names the slot that runs.
* Jetson UEFI. The active boot loader slot is read once per process
  (`_jetson_uefi.py:1036`), so a second update in the same process, after one that
  failed behind the switch, compares with a stale value. With an external rootfs
  the slot is switched before `/boot` is copied to the emmc (`:1071`): a failure
  in between leaves a default without its `/boot`. `RefinesABUpdate` judges the
  UEFI slots without that copy and says of it that no other step leaves it
  behind; for cboot, which copies first, the copy is a part of the slot.
* Jetson cboot. `NVUpdateEngine.firmware_update` returns False for a package that
  it skips, as its docstring says (`_jetson_cboot.py:214`), and its caller takes
  False for a failure (`:647`), so the update fails. After a power loss between
  the two calls of `switch_boot_to_standby` boot loader and rootfs slot differ;
  the next firmware update then goes to the boot loader slot that is not booted
  afterwards, against the log message at `:650`. The same update brings the
  slots together again, which `FirmwareIsSound` states.
* Partition image. When the boot id cannot be read, a boot that did not switch is
  concluded without knowing whether it is the one that staged.
* Delta generation pops a digest before the rename; when the rename fails the
  resource is neither collected nor in the list of what to download, and the
  update fails later. `broken` marks it.
* otaproxy. An exception at the first or second chunk of `stream_writing_cache`
  does not fail the tracker, whose subscribers then wait for their time-out; a
  subscriber cut off by a failed writer ends its body cleanly, so that only the
  client's length or digest check notices; the comment at `ota_cache.py:639` does
  not hold for a provider without `retry_caching`, nor the NOTE at `:810` for the
  fast path above it; an entry whose file could not be linked stays in the index
  without it; the index exceeds `MAX_INDEX_ENTRIES`, "upper bound on in-memory
  cache index entries" (`ota_proxy/README.md:59`), by up to one entry per other
  writer, as its length is checked before the entry is added
  (`cache_index.py:354`). `OTAPROXY_MIN_STARTUP_TIME` is 120 s where the comment says 60
  (`_otaproxy_ctx.py:64`).
* Servicer. After one request timed out its late response stays in the queue,
  and each later request finds the response of the one before: it is answered
  RECOVERABLE although ota_core accepted it. Two waits at the same time may swap
  responses, with the same effect. `disturbed` marks both.
* ECU status. When the first ECU starts an update the threshold for a
  disconnected ECU drops from 30 s to 3 s, and `export` may leave out healthy ECUs
  until their next report. A child that is unreachable for the whole pause with a
  SUCCESS from before clears `any_child_ecu_in_update`; `missed` marks it. A
  request that is accepted after the main ECU's last look at that flag does not
  keep it from rebooting; `unheard` marks it. During a client update the network
  flag is set only until the pause is over.
* Status collector. `_on_new_ota_session` leaves the `failure_traceback` of an
  earlier session, which is then shown beside the new one.
* Supervisor. The check for another otaclient reads the pid file before it
  writes it; a pid that was reused makes otaclient exit until it is free. A run
  that ends early, by a kill or by an exception of `terminate()` leaves shared
  memory and mounts to the next one.
* Client update. An app image keeps a squashfs that was cut short as the base of
  later patches; a patch of it fails, without a fallback to the whole package.

## 5. The proofs

Eight modules hold theorems. They are proved for every value of the constants
that the named assumptions allow (`ConstantsAssumption` of OtaCore;
`SlotsAssumption`: two different slots, and no slot is neither; finite sets of
items and workers in RetryTaskMap; nothing in the others), and so for any number
of sessions, requests, faults and power losses. None of the properties is
inductive; each proof has an invariant that is, a lemma for each group of
actions, and a theorem that combines them.

| theorem | says | inductive invariant |
|---|---|---|
| `TypeCorrect`, `NeverTwoUpdates`, `LiveStatusCorrect`, `AbortPrecludesReboot`, `AbortedIsKept` | `TypeOK`, `OneUpdateAtATime`, `RunningStatus`, `AcceptedAbortNeverReboots`, `AbortedStatusSurvives` of OtaCore | `IInv`: a stopped process has no threads (`StoppedInv`); a thread that has not set the live status is covered by the hold time (`StartingInv`); while ABORTED expires no OTA runs (`DeadlineInv`); the session of the abort handler is that of the thread under way (`SessionInv`); critical zone, final phase and thread agree (`ZoneInv`); an accepted abort leaves REQUESTED, ABORTING or ABORTED (`AcceptedInv`); for the last theorem also: behind `on_abort` no thread is left that writes the status (`SurvivesInv`) |
| `GrubRunsWhole`, `GrubDefaultBootable` (by `GrubInductive`) | `RunningImageComplete`; `DefaultBootable`, with its two exceptions | `GrubIInv`: before otaclient manages GRUB the installed slot runs, and a file is gone from the root of `/boot` only when it was copied (`FreshInv`); an entry with its kernel has no half written image behind it (`EntriesInv`); an update that runs leaves the default alone, unless `risked` (`UpdatingInv`), and the default is whole (`DefaultInv`) |
| `RpiAlwaysBootable`, `RpiRefinesABUpdate` | running slot and default are whole; every behaviour is one of `ABUpdate` | `RpiIInv`: an update begun from another slot than the default is at risk (`UpdatingInv`); what the steps so far have made of the standby slot (`StandbyInv`); what `tryboot.txt` names while a trial is asked for is whole (`TrybootInv`); default and running slot are whole, unless `risked` (`BootableInv`) |
| `NothingIsLeft`, `LaunchIsAlone` | no run leaves a process, one that ends cleanly no shared memory and no mount that can be unmounted; a dynamic client is launched when all of the run is gone | `SuperIInv`: what is not there yet at each step of the start-up (`StartupInv`), what each step of the shutdown has removed (`ShutdownInv`), and that a launch follows all of them (`LaunchInv`) |
| `NoProxyIsLeft`, `CacheIsKept` | no otaproxy after the shutdown; its directory is not removed under it | `CtxIInv`: who holds the lock is where it can be held (`LockInv`); what the control thread read is still true of the process (`SeenInv`) |
| `OldSlotKeeps`, `NewSlotHas` | which config files either slot is left with | `ConfigIInv`: what is installed, kept and still to do at each step (`StepsInv`), and when `grub-reboot` has been called (`ArmedInv`) |
| `NoFailureHolds` | NO_FAILURE means this request was accepted | `ServiceIInv`: an accepting response in the queue is of a request that was accepted (`QueueIsTrue`) |
| `PermitsAreAccounted` | permits and items in flight add up | `PoolIInv`: an item is in one place (`OnePlace`), and the places counted with cardinalities are the permits taken (`PermitsAccounted`) |

`RpiIInv` and `GrubIInv` were also checked with TLC, on all reachable states of
two slots. In the two boot controllers the actions are sorted into those
that change nothing a slot or the boot loader has (`QuietKept`), power loss and
boot (`PowerKept`), and those that write; the refinement reuses the sorting:
quiet actions stutter, writes are `Write` of `ABUpdate`, and replacing
`config.txt` is its choice of a default.

Only model-checked: liveness, which is beyond the prover; the other controllers'
refinement of `ABUpdate`; the remaining properties of the download, cache and
status modules. No module uses recursion: what a fold over a set or sequence
computes would need an induction the provers cannot do, so sums as in
`PartitionPayload` are checked on instances.

## 6. Not modelled

* The migration from the GRUB controller that is no longer in the repository,
  and the compatibility folder it leaves: it happens once per ECU and its input
  cannot be enumerated from this source.
* `process_persistents` and the copy of persistent files: one thread copies a
  tree.
* The formats: CSV and JWT parsing, certificate chains, the schema of the file
  tables, protobuf conversion, configuration files, HTTP headers, the text of
  `grub.cfg`. The models have what is decided from them (a file is valid, or
  of another ECU; an index is missing; a header asks for `retry_caching`).
* Metrics, logging, error reports and the thread pools' sizes in otaproxy,
  which nothing modelled depends on.
* Rollback: the operations on the status files have no caller.
* A joint state of two parts that section 2 puts side by side: their product is
  out of TLC's reach, and they meet in the few values named there.
