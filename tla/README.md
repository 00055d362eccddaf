# VibeOCR backend: formal models

TLA+ models of the VibeOCR backend (`packages/vibeocr-backend/src/vibeocr/backend`), the
TLC runs that check them on small instances, and theorems about them that TLAPS proves.
Paths below are relative to that package.

## 1. The system

A long-lived *supervisor* process serves a loopback HTTP API (`supervisor/app.py`) to the
desktop client. A client submits a *job* of several input files; the supervisor stages the
files, runs the job on a worker thread against one of several OCR adapters, and lets the
client observe, cancel, retry and delete it. All recognition work on the GPU goes through
one device lease. Around it stand the lifecycle of the heavy runtimes (install, repair,
update), of model residency, of the PDF tools child process and of the settings.

| Component | State it keeps | Operations | Talks to | What makes it correct |
|---|---|---|---|---|
| Job registry (`supervisor/jobs/registry.py`) | one record per job: state, items, outcomes, events, cancel request, purge flag | create, transition, commit outcome, observe, request_cancel, create_retry, purge | called by module and executors | terminal is final; one outcome per item; the verdict matches the items |
| Input staging, retention (`supervisor/jobs/staging.py`, `retention.py`) | staged files per job; terminal-since times | stage, clone, release; mark, purge_expired | module | a retry never works on inputs that are gone |
| Supervisor module (`supervisor/module.py`) | draining, shutdown, maintenance flags; preload count; settings | submit, retry, delete, request_cancel, drain, shutdown, preload, run_runtime_maintenance, update_settings | everything in the process | maintenance excludes work; nothing starts after a drain; settings take effect as a whole |
| Adapter executor (`supervisor/inference/paddle_executor.py`, `mineru_executor.py`, `composite_executor.py`) | one thread per job | execute, cancel_mode_for, configure_settings, adapter | registry, scheduler, recovery, budgets, adapters | every dispatched job ends, in the state its items justify |
| Device scheduler (`supervisor/inference/scheduler.py`) | waiting queue, lease per device | enqueue, cancel, drain, try_acquire, acquire, release | executors | one batch per device; arrival order within a class; no starvation |
| Recovery policy (`supervisor/inference/recovery.py`) | seconds slept so far | classify, next_action | executor | bounded; isolates the offender; loses nothing |
| Budgets (`supervisor/inference/budgets.py`) | none | plan_transport, plan_compute | executor | the batches partition the items and respect the limits |
| MinerU adapter and readiness (`supervisor/inference/mineru_adapter.py`, `services/mineru_readiness.py`, `services/mineru_service.py`) | owned API process, active leases, connection, observations | ensure_started, recognize_many, watcher, release_idle, configure, close | executor, settings | only the shutdown takes the process from a call; it is stopped after; a call keeps its connection |
| MinerU service and REST client (`services/mineru_service.py`, `services/mineru_api.py`) | service lock, local server, uploads, job and outputs on the server | parse, cancel, clean up, restart | MinerU adapter; an external server | a job that may run keeps its files; a call leaves nothing behind |
| Paddle process adapter (`supervisor/inference/paddle_process_adapter.py`, `paddle_worker.py`) | worker child process, queue of replies, settings to restore | start, exchange, stop | executor | replies belong to their requests; nothing runs twice; a restarted worker has the settings |
| Pipeline residency (`services/pipeline_cache_manager.py`, `services/ocr_service.py`) | loaded pipelines with leases, pins and last use | lease, prepare_load, evict_idle, release, configure | Paddle adapter | capacity holds; a model in use stays; an idle one goes |
| OCR engines (`supervisor/inference/ocr_engine_router.py`, `ocr_engines.py`) | leaves of the routing adapter, built when first needed; cached engine probes | route, build, configure, refresh | Paddle executor | one instance of each leaf; a leaf follows the settings |
| PDF tools (`supervisor/pdf/adapter.py`, `services/pdf_backend_client.py`, `services/pdf_backend_process.py`, `services/pdf_service.py`) | child process and its clients; per session a document and the model of its pages | start, restart, call, stop; load, edit, save | client, jobs | one child at a time; text stays with its page; saves are atomic |
| PDF OCR orchestrator (`application/pdf_ocr_orchestrator.py`) | page batches of a run, sidecar | run, cancel, record batch, resume | PDF tools | a resumed run redoes exactly what is not saved |
| Runtime operations (`runtime_control.py`, `runtime_maintenance.py`, `runtime_lock.py`) | journal of runtime operations on disk, file lock, probe cache | start, append, cancel, observe, compact, reconcile, status | HTTP routes, installer | the journal survives crashes; terminal is immutable; one writer; the status is true |
| Runtime install (`runtime_installer.py`, `runtime_install_plan.py`, `runtime_selection.py`) | runtime slots, download cache, previewed plan on disk | preview, ensure, repair, retry, activate, undo | runtime operations | a failed activation leaves the old runtime in place |
| Settings, migration (`supervisor/settings_store.py`, `migration/`) | settings file, migration receipts | replace, run_cutover | module | what is acknowledged is durable |

What is hard here: threads share job records with few common locks (`execute` reads state and
cancel request without one); operations span several critical sections (`update_settings`,
`recognize_many`, `delete`, `acquire`); failures in the middle of a batch or an update; time
(TTL watchers, aging, backoff); and crashes between two writes. `PROJECT.json` lists each
such hazard with the line where it bites and the properties that would catch it.

## 2. The modules

| Module | Models | Extends / uses |
|---|---|---|
| `JobTable` | job and item states, the contract's transition table as a constant | |
| `JobLifecycle` | registry, records, `SupervisorModule` operations on jobs, the worker thread of `execute`, cancelling threads | `JobTable` |
| `DeviceLease` | what the scheduler promises: a job enters a batch on a device only while nobody is inside one there | |
| `DeviceScheduler` | `scheduler.py`, with the threads around `acquire` and `release` | `DeviceLease` by INSTANCE |
| `BudgetPlan` | `budgets.py`: the cut of a job into transport and compute batches, as functions | |
| `BatchRecovery` | the batch loop of `execute`, `_execute_with_recovery` and `RecoveryPolicy` | |
| `BatchExecution` | a job cut by `BudgetPlan` and carried out by `BatchRecovery` | both |
| `MinerUSession` | the MinerU process, its leases, the connection, observed tiers, settings updates that change the connection | |
| `MineruJob` | one parse on a MinerU server: service lock, start and restart, upload, job, polling, download, cleanup | |
| `SettingsUpdate` | `update_settings` through the composite executor to the file, rollback, crash, adapters built meanwhile | |
| `EngineRouting` | the same with the routing adapter opened up: its leaves, the jobs and preloads that build them, the hand-over from leaf to leaf | `SettingsUpdate` |
| `PaddleProcess` | the Paddle worker process and the threads that share it: jobs, preloads, the event loop, the shutdown | |
| `PipelineCache` | `PipelineCacheManager` with the requests of the worker process and the TTL watcher | |
| `OperationLog` | what the journal of a runtime operation promises its readers | |
| `RuntimeJournal` | metadata and journal of one operation on disk, reporter, cancel, observe, compact, crashes | `OperationLog` by INSTANCE |
| `RuntimeInstall` | previews, ensure, repair, retry commands, the staged build, activation by renames, its undo, dying processes | |
| `RuntimeStatus` | the status of the runtime, its probe cache and the engine resolver, while operations change what they tell of | `RuntimeInstall` |
| `PdfOcr` | the PDF OCR run, its sidecar, the PDF child process with its append saves and recovery marker | |
| `PdfSession` | a session of the PDF child process: pages edited, text recognised, corrected, removed, saved; document and page model | |
| `PdfClient` | the PDF child process, its restarts, and the HTTP clients of the threads that call it | |
| `*Proofs` | theorems about the modules they extend (section 4) | `TLAPS` |
| `DataLemmas` | induction over numbers as facts about sets, and sequences as functions, for the proofs | `TLAPS` |
| `MC*` | finite values for the constants | |

How they fit together. In `JobLifecycle` the steps `ExecAcquire`, `ExecAcquireCancelled` and
`ExecRelease` stand for the scheduler's grant, refusal and give-back;
the steps `ExecCall`, `ExecCommit` and `ExecFailItems` stand for one batch of `BatchExecution`
(any cut of the job, any split of the batch, any outcome). The fairness `JobLifecycle` assumes
of a waiting thread is `DeviceScheduler`'s `NoStarvation`. An adapter call of `BatchRecovery` is
an exchange of `PaddleProcess` or a parse of `MineruJob`: their `EveryCallReturns` and
`EveryParseEnds` are the fairness `BatchRecovery` assumes of the adapter. What the worker of
`PaddleProcess` does with a request is `PipelineCache`. `SettingsUpdate` has the hand-over of
settings to all executors and the file; `MinerUSession` has the same update as the MinerU
executor sees it, `PaddleProcess` as its worker does; a leaf of `EngineRouting` is an adapter of
`PaddleProcess`. `RuntimeInstall` takes an operation's journal as `OperationLog` promises it, which
`RuntimeJournal` implements; `RuntimeStatus` adds readers to it. `PdfOcr` follows one run and what
is on disk, `PdfSession` one session and which text is on which page; the calls of both go through
`PdfClient`.

### Correspondence

Every definition that models code is listed in `PROJECT.json` under `map` with its lines. The
main lines of the correspondence:

- **`JobLifecycle`.** A record's fields are functions of the job (`state`, `item`, `outcomes`,
  `progress`, `cancelAt`, `source`, `purged`, `staged`). `epc` is the position of the worker
  thread; there is a step wherever `execute` reads or writes a record without a lock that the
  cancellers also hold. A canceller is a thread with three steps: it reads the state to
  choose the mode (`CancelBegin`), takes the registry lock and marks the request
  (`CancelMark`), then looks at the state and moves it (`CancelLook`, `CancelMove`).
  `submit` holds the module lock and its record is unknown to others until it returns, so it is
  one step; `retry` is three (check, create, clone), since its source may be deleted
  meanwhile; `delete` is two.
- **The contract table.** `assert_job_transition` and its table come from
  `vibeocr.runtime_contracts`, which is not in the repository. `JobTransitions` is therefore a
  constant; `TableAssumption` says what the code relies on and what its tests show (the pairs
  in `KnownTransitions` are allowed, those in `RefusedTransitions` refused, terminal states
  have no successor) and leaves every other pair open. The runs use `WideTable`, where
  a job with a requested cancel may still complete or fail; the theorems hold for every table
  that satisfies the assumption. Under a table that refuses these pairs the last transition of such
  a job raises and nobody ends it: `DispatchedJobEnds` is checked under `WideTable` only.
- **`DeviceScheduler`.** Every method holds the scheduler's lock, so a method is one step;
  `acquire` is an `Enqueue` and then one step per turn of its loop. The heap is a set with the
  relation *has a smaller sequence number* (`ahead`); priorities are in aging intervals.
  `DeviceLease` knows no lease table: `InsideBatch` reads off the positions of the threads who is
  inside a batch, and the table is what has to agree with it.
- **`BudgetPlan`, `BatchRecovery`, `BatchExecution`.** A batch is an interval of the job's items.
  `Filled[n]` is the plan of `plan_transport`'s loop after `n` items (a recursive function, one
  step of it an iteration), `PlanTransport` what its last flush leaves; `ComputeBatches` cuts
  that again. `Total` and `Fits` say what a batch may hold without the planner's bookkeeping;
  `PlanOf` gives the plan of a job for an adapter's capability. The recursion of
  `_execute_with_recovery` works from left to right, so its stack is a set of intervals and the
  next call is the leftmost. `Answers` says what an adapter may answer to which items; a
  cancel may arrive between any two steps. `calls` is history. In production the planner has no
  memory figure (`device_vram_mb` is 0), only Paddle's native pipelines take real batches, and
  `estimated_pages` is 1 for every file.
- **`MinerUSession`.** One step per critical section of the process lock, the readiness lock and
  the service lock, as none is held across two of these. `Close` is `close()` of the adapter, which
  the shutdown calls after its grace period and which does not look at the leases. `served`,
  `raced`, `cut` (the calls from which `Close` took the subprocess) and `gap` (a stop or a change of
  the connection met a worker that relied on the subprocess) are history.
- **`MineruJob`.** The service lock is held for a whole call, so the locals of the call that holds
  it are one record `run`; `run.pc` follows `parse`. The server is external: what is on it
  (`uploads`, `files`, `jobs`) is changed by the requests and by the server's own work. A lost
  reply leaves the effect of the request behind. `orphaned` and `excused` are history: the
  calls that could not know of something they left, or could not remove it.
- **`SettingsUpdate`.** One step per child executor and per half of its `configure_settings`
  (the executor's own field, then the adapter), one each for the file and for the answer.
  `mishaps` is history: an adapter was built during an update, or an executor raised.
- **`EngineRouting`.** A leaf is made under its own double-checked lock (`Use` looks without it,
  `Lock` with it, `Make` is the factory). The hand-over of a snapshot is one step per leaf, as
  the adapter has no lock of its own; a leaf that is not there is passed over. `made` is history.
- **`PaddleProcess`.** A thread's `pc` follows `_start`, `_exchange`, `_stop` of the adapter
  between taking and giving back its lock; the reader thread's end-of-file is a line in the
  queue; a worker takes a request from its inbox and serves it. Handlers that are synchronous
  on the event loop are calls of the one thread `Loop`, which holds the module lock through
  `PUT /v2/settings`. A deadline is the step `Expire`; the write to the pipe has none: one that is
  larger than the pipe (`Large`) stays `blocked` at a worker that hangs, with the lock held, until
  that worker dies. A worker that hangs, dies or answers late
  is a fault, bounded by `MaxFaults`. `ran` is history.
- **`PipelineCache`.** The worker serves one request at a time; the watcher runs between any two
  critical sections of it. `order` holds the keys of `_last_used`, oldest first; `stale` those
  whose TTL has run out.
- **`RuntimeJournal`.** One write of a file is one step, and a crash may fall between any two.
  A call that has only to reconcile is the reconciling write; the calls proper need a
  reconciled directory. `torn` is a partial last line; `hold` keeps the call that has the ledger
  lock between two writes.
- **`RuntimeInstall`.** The three slots `active`, `rollback`, `partial` hold the runtime they
  contain (who built it, for which scope, in which shape). `w[p].pc` follows `ensure` and
  `repair` of the process that executes a request; each rename and each published phase is a
  step, and so are, after the work, the success in the journal (`Succeed`), the release of the
  store lock (`Unlock`), the look at the runtime that builds the receipt (`Receipt`,
  `AnswerFails`) and the outcome of a retry command (`Record`). A retry is as its operation was
  asked for, with a selection of its own or with a previewed plan; of a plan it repeats whatever
  state the operation it created is in. Process death is possible everywhere. `PlanHolds`, the
  check of a previewed plan against what is installed now, is one step, since it happens under the
  installation lock. The renames of the undo are taken to succeed
  (`runtime_installer.py:2116-2119`; a failing one is one more of the crashes there, but without
  the end of the process). `lost` is history: the receipt of a success could not be built.
- **`RuntimeStatus`.** A status request is a sequence of reads without a lock: the marker, its time
  stamp (the key of the probe cache), the cache or a probe, the versions, the journals. A
  marker is written once, by the operation that built the runtime, so the operation stands for
  its stamp. A runtime has drifted when its imports fail. A service that drains tells *degraded*,
  whatever its runtime is (`serves` is what the request read of it as it began). `tainted`,
  `quiet` and `missed` are history: which cached verdicts are of another runtime, which requests
  nothing disturbed, and whether the resolver's verdict is older than a failure, a lost receipt
  or a harm.
- **`PdfOcr`.** A document is the number of text layers on each page. An open gives every page a
  placeholder without text; the load is a stream beside the run that examines one page under the
  document's lock (`Examine`) and tells the model without it (`TellModel`), in any order and as
  far as it gets. A batch is written page by page (`WritePage`), a page may break off after some
  of its blocks (`WriteBreaks`), and one of whose blocks none has a place (`Placeless`) enters the
  results without a text, as `has_text_layer` is `written > 0`. A save is an append of the open
  document; its marker is created, then written, and removed after (`CreateMarker`, `Mark`,
  `Unmark`), and what a crash leaves is cut off by the next `Open`, which raises for a marker that
  is empty or longer than the file (`Openable`). A failed append is rolled back, and the roll-back
  may fail (`AppendFails`). The orchestrator's requests to the child process are single steps,
  since the child serves one at a time; cancels, loads and crashes fall in between. History
  (`faults`, `ses.blind`): `lacking` are the pages that were counted as done without a text,
  `doubled` those that were written while their text was unknown to the model (`blind`), `stale`
  tells that a marker which stayed behind may cut a file it was not written for.
- **`PdfSession`.** A page is its picture (an id) with the texts in its layer, and a text is the
  page it was read from and its version. A request is one step, since the child holds the
  document's lock through it, except for the two streams: `load` examines a page under the lock
  and writes the model without it (`LoadRead`, `LoadWrite`), `delete_text_layers` takes the lock
  page by page. `pages[i].index` is the `page_index` the code saves by, which the edits do not
  renumber; `AfterRewrite` follows `save_with_rewrite` over the pages. The model keeps the blocks of a
  page whether they have a place on it or not, the document only those that do (`Placed`,
  `Boxless`). `given` and `kept` are
  history: what the client was last told of each page, and the same at the last save; `excused`
  marks the known confusions below.
- **`PdfClient`.** `_ensure_started` in its unlocked looks and its locked start; building and
  keeping an HTTP client are two steps without the lock. `raced` is history: the threads that
  built a client around a restart.

## 3. The runs

| Run | Question | Bounds and why they are enough |
|---|---|---|
| `jobs_cancel` | one job against two cancellers, a drain, a delete, preloads and maintenance: verdicts, outcomes, finality, and that a dispatched job ends | one job (jobs share only the device and the flags), two items (a verdict needs one that succeeds and one that fails), two cancellers (the race needs one that saw the job queued and one that moved it), one preload |
| `jobs_retry` | two jobs, the second possibly a retry of the first | two jobs of one item: source and retry; a canceller, delete, drain and maintenance at any point. Preloads are in `jobs_cancel` alone (with them this run takes twice as long); maintenance beside them is in the theorem `MaintenanceIsExclusive` |
| `sched_lease` | one batch on a device at a time, the table that says so, order of the grants, no starvation | two interactive jobs that overtake one background job for ever if aging fails, one device (devices share only the queue), two aging intervals |
| `recovery_batch` | nothing lost or done twice, only offenders fail, calls fit the budget and are bounded, the recursion ends | five items: an odd length, a short last chunk and three levels of halving; five plans (uncut, cut by memory, one by one, by bytes, by pixels with one image that fits nowhere); an adapter that may answer anything, and an honest one with two corrupt items and room for two; two transient retries (three in production: only the constants of the delays change) |
| `mineru_session` | who may take the process from a call (the shutdown alone), that it is owned, calls keep their connection, ready tiers were served | a job and a preload, two connections, one tier; builds, watcher, releases, updates and the close interleave freely |
| `mineru_parse` | a running job keeps its files, a call leaves nothing behind, every call ends | two calls in different modes (a change of mode restarts the server), one with two files (one uploaded while the other is not), two mishaps (one in the call, one in its cleanup) |
| `settings_updates` | what is in the file and what is in effect at every point of an update, in the executors and in the leaves | the two executors of the composition, three snapshots (old, new, one more), the two leaves of the routing adapter, two jobs that build them |
| `paddle_worker` | replies match requests, one worker, the settings of a run, every call and the shutdown end | a job, a preload of two pipelines, two calls on the loop, one fault, three workers: a fault in any call, the restart after it, and a thread that waits for the lock meanwhile; three snapshots, of which the worker refuses one |
| `cache_worker` | capacity, models in use, idle models go | three pipelines, two of them heavy, room for one: every load of a heavy model has to evict |
| `runtime_journal` | the directory can always be repaired and its pages have no gaps (`JournalIsReadable`), `OperationLog` is implemented; the status and the resolver's verdict are those of the runtime | three scenes. The journal: five events (start, a phase, cancel, end, one more), pages of two, compaction to two: every mixture of read, written and dropped. The status: one process, one operation over an earlier installation or none, and either one status request and one mishap, or two requests (they share the cache) and none; retries have a run of their own |
| `runtime_install` | nothing installed is lost, nothing rejected stays and cancels are honoured (`RejectedIsNotActive`), answers are true, success is in place | two processes, an earlier installation or none, one scope. Either two mishaps (a crash and one in the recovery from it) and an operation, alone or with another or a retry of the same request; or one mishap and a retry with a selection or a plan of its own (`MCNext` says which histories are left out) |
| `pdf_resume` | what is skipped or reported done is on disk, no page is written twice; text stays with its page and a save is current; clients reach the child | four scenes. The run: three pages in batches of two, one with a text layer of its own, one whose text has no place; two runs, one failed write, save or roll-back, one crash: interrupted, resumed, interrupted again. The load: the same runs over one batch of two pages beside a load that examines one page. The editing: two pages and an inserted one, one with text of its own, three changes (recognise, rearrange, save, in any order). The clients: two threads of two calls, three children: a start, a restart, one after the shutdown |

Deadlock is checked in `runtime_install` and `runtime_journal`. It is off in the other runs, where
the system may stop: jobs end, a recovered batch is done, bounded counters run out.

Three properties have two parts, each with a name of its own in the module: `OutcomesAreTrue`
(`OneOutcomePerItem`, `VerdictMatchesItems`), `UpdatesComeBetweenCalls`
(`CallsKeepTheConnection`, `ReadyTiersWereServed`) and `OneWorkerAnswers` (`OneWorkerLives`,
`RepliesMatchRequests`); `CallsAreBounded` is part of `CallsFitTheBudget`, `CancelIsHonoured` of
`RejectedIsNotActive`, `PagesAreGapless` of `JournalIsReadable`.

### Where the code departs from its text

Modelling brought up the following; they are kept out of the properties by the conditions and
history variables named here.

- `module.py:225` and its cancel path: a canceller that read the job as queued arrives late and
  turns `cancel_requested` into `cancelled` while the adapter call holds the device; *cancelled*
  does not mean stopped. A job that is terminal while its thread still runs does not block
  maintenance.
- `recovery.py:119`: there is one attempt counter for all failure classes. Transient failures use
  up the attempts, and the first out-of-memory failure fails a batch that was never shrunk.
- `mineru_adapter.py:241`: a release between `ensure_started` and the lease stops the subprocess;
  the call starts another one that the adapter does not know of, and nothing stops it any more.
  History variable `gap`, by which `ProcessIsOwned` excepts it.
- `mineru_adapter.py:435-441`: `close()` stops the subprocess without a look at the leases, and
  the shutdown calls it after its grace period (`module.py:233-236`), so that it takes the subprocess
  from the calls that still run. `Close` of `MinerUSession`; history variable `cut`.
- `mineru_executor.py:61` sets the connection itself when it saw no adapter; if a job builds the
  adapter meanwhile, its call has its connection changed. History variable `raced`.
- `module.py:590`: MinerU refuses a snapshot that the Paddle executor has already taken; nothing
  takes it back. `module.py:599`: the rollback after a failed store may be refused too, and the
  refusal is swallowed. `paddle_executor.py:90`: a thread that builds an adapter may apply settings
  older than those of an update that has just ended. History variable `mishaps`.
- A leaf of the routing adapter is built with its defaults and gets the settings only with the next
  update (`ocr_engine_router.py`; `LeavesFollow` allows `Unset`). The fallback and the handle of the
  PaddleOCR engine are two adapters, with a worker process each; the residency status shows the
  fallback alone, although `composite_executor.py:10-11` says that the endpoints reflect every
  loaded pipeline.
- Settings that name a pipeline which the worker's cache manager does not know are recorded by the
  adapter before the worker refuses them (`pipeline_cache_manager.py:340`); a worker started later
  refuses them again and runs on its defaults, one that lives on under what it had.
  `RunsUnderTheSettings` allows this, and nothing else.
- `paddle_process_adapter.py:145-146`: the write to the worker's pipe has no deadline; the timeout
  is on the reply alone (line 151). A worker that hangs without reading, and a request larger than the
  pipe, keep the caller there with the adapter's lock, and with it every other caller and the
  shutdown, until the worker dies. `EveryCallReturns` names this as its one exception.
- `module.py:178-181` says that the runtime status stays available while a preload holds the
  executor's locks; the loop of the service can still be stopped for as long as an exchange
  lasts (up to 3600 s) by `PUT /v2/settings` (`app.py:893-928`), which waits for the Paddle
  adapter's lock on the event loop. The shutdown, too, waits for that lock although
  `module.py:225` says that it releases after its grace period regardless; behind a blocked write
  it never does.
- `paddle_process_adapter.py:220`: a preload records its status after it has given back the lock;
  a stop in between leaves the models of a dead worker in the status.
- `pipeline_cache_manager.py:388` says that `release` waits for active tasks; it does not look
  at them (in the worker no request runs beside it). `pipeline_cache_manager.py:518`, `:416`: the
  oneDNN fallback drops the lease together with the model, so that the watcher may evict
  the model of the second attempt; and a pinned model survives the fallback.
- `scheduler.py:118`: a waiter whose job is dropped by the scheduler's own `cancel` or `drain`
  polls on without an entry. No caller in the repository does this.
- `mineru_api.py:259` says that inputs are kept while the worker runs; when the reply to the job's
  creation is lost, they are deleted under the running job. History variable `orphaned`. A poll
  that fails once, a cancel that meets the completion, and an error between two downloads leave
  outputs on the server. History variable `excused`.
- Runtime operations: an operation whose process died stays `running` for ever
  (`runtime_maintenance.py:400-448`), and one that was reserved without an event makes the status
  projection raise. After a crash between the renames and the publication of a success the next
  installation archives the old runtime for good (`runtime_installer.py:2011-2017`). A truncation
  that fails after a failed append leaves the line visible. A command whose receipt cannot be built
  after the work was done is recorded as failed beside a succeeded operation (history `lost`), and a
  retry by plan answers *ok* whatever has become of the operation it repeats, also with one that
  was interrupted and stays `running` (`CommandTellsTheOperation` states both). The lines of a journal
  are read with `str.splitlines` and written with `ensure_ascii=False`
  (`runtime_maintenance.py:346`, `:721`, `:763`): a message with a U+2028 or U+0085 in it would be
  split. Lines are whole in `RuntimeJournal`, which cannot show this.
- Runtime status: an operation that fails refreshes nothing, so that a verdict the resolver took
  on its way stays until the next success, and so does one whose success gets no receipt;
  operations of another process are never noticed (hypothesis of `JobsMeetTheirRuntime`). History
  variable `missed`. A probe that runs across a
  rename is cached under the old marker's stamp, for the TTL. History variable `tainted`. A status
  read across the end of an operation may tell *degraded* beside a succeeded operation. History
  variable `quiet`.
- PDF run: `pdf_backend_process.py:666-704` saves outside the document lock of line 3-4, and its log
  message says that the text layers are still in memory, although the document was closed
  and reopened from the file. The page model keeps `has_text_layer` for pages whose layers went with
  that document, so a later run skips them and counts them as done. A page none of whose blocks has
  a place enters the results without a text (`pdf_service.py:810-812`, `:982`, `:1000`), and one
  whose write raises half way (`:1130`, caught at `pdf_backend_process.py:661`) has some of its text
  and no flag. History `lacking` (what is done without its text).
- PDF load: `has_text_layer` is false until the load has come to the page, and the load may be
  cancelled, skip a page that fails, or still run when the recognition starts
  (`pdf_backend_process.py:402`, `:415`). A page with text that the model does not know of is
  recognised and gets a second layer; so does a page that was written in part. History `doubled`.
- PDF save: a marker is created before it is written (`pdf_service.py:349-356`). A crash or a failed
  write in between leaves an empty one, and `recover_if_needed` (`:386-402`) raises at every open
  from then on, although the docstring (`:332-345`) promises that the next open restores the file.
  `DoneTextIsOnDisk` and `DiskTextNeverShrinks` hold of such a file, which nobody can open. A roll-back
  that fails (`:359-371`) leaves the marker; when the session goes on and packs the file, the next
  open may cut the new file at the old one's length. History `stale`.
- An overwriting run that is cancelled in a batch whose two saves fail leaves a layer in the reopened
  document that the model has dropped, and a later run adds a second one (`Overwrites` = {FALSE},
  `Careful` in the theorems). The restoration of the `.bak` after a failed compression is taken to
  work. The sidecar knows pages by their index. `is_modified` is left out.
- PDF editing, all marked by `excused`: a deletion, move or reordering leaves `page_index` as it
  was, and `save_with_rewrite` writes to the page at that position or raises; an insertion
  rebuilds the model (`build_page_infos`) without the recognised blocks and unsaved corrections;
  `fitz`'s `move_page` and the model's pop and insert disagree for moves to the back; a `load`
  that overlaps an edit writes to a list that is gone, and one that overlaps a recognition
  wipes its blocks; recognition renders from the file, so that after unsaved edits it reads
  another page. A full save that fails leaves the session without a document; a save-as clears the
  change flags although the session's own file was not written. A recognised block that has no place
  on its page stays in the model and never reaches the document (`Boxless`).
- PDF client: `pdf_backend_client.py:297-312` keeps a client that was built around a restart, and
  its calls fail until the next one. History variable `raced`. `_post` and `_get` hand on
  `timeout=None`, which disables the client's timeout (`:371-403`). A stream that begins
  after the shutdown starts a child that nothing stops.

### Bounds

`Jobs`, `Items`, `Cancellers` and `MaxPreloads` bound `JobLifecycle`; job ids are never reused,
as in the code. `CallCap` bounds the history counter of adapter calls, above the bound that
`CallsAreBounded` (a conjunct of `CallsFitTheBudget`) states. `AgeSteps` is the number of aging
intervals after which the code clips the priority at 0.0, two instead of the configured number.
Delays are in units of the smallest delay. TTLs and idle times are a single bit (*at least the
TTL ago*). `MaxEvents`,
`MaxMishaps`, `MaxRuns`, `MaxLoads`, `MaxCrashes`, `MaxJobCalls`, `MaxLoopCalls`,
`MaxFaults` (of a worker, or of the writes and saves of a PDF), `MaxWorkers`,
`MaxOps` (changes of a PDF), `MaxChildren` (starts of the PDF process)
and `MaxCalls` (calls of a thread to it) bound how often something happens from outside, or is
asked for.

### Fairness

- `JobLifecycle.FairSpec`: strong fairness of each worker thread's next step. The operating
  system schedules threads; adapter calls carry deadlines and return; the one step that can be
  enabled and disabled again is the grant of the device, and there strong fairness is what
  `DeviceScheduler` provides (`NoStarvation`). Cancellers and clients have none.
- `DeviceScheduler.FairScheduler`: weak fairness of polling (`acquire` polls at least every 50 ms),
  of `Enqueue`, of `Release` (a batch returns) and of time. Nobody has to ask for the device.
- `BatchRecovery.FairSpec`: weak fairness of the worker thread.
- `PipelineCache.FairSpec`: weak fairness of the watcher, which waits at most until the next
  deadline, of a request's own steps, and of time.
- `PaddleProcess.Spec`: weak fairness of every thread's steps in the adapter (among them
  `Expire`: deadlines are real time), of the worker's reading and serving, and of the closing
  steps. A worker that hangs does so for ever; only the deadline ends the call, and a write that is
  blocked has none: `Asking` has no step for it. The adapter's
  lock needs no strong fairness here, because the calls are bounded.
- `MineruJob.JobSpec`: weak fairness of the call that holds the lock (each of its requests has a
  timeout) and of the deadline. The server owes nothing.

The other specifications state safety only and need none.

## 4. What is proved

TLAPS checks the theorems below for every value of the constants that satisfies the named
assumptions of the modules. Each rests on an inductive invariant (`IInv`, `JobIInv`, ...), defined
at the end of the component's module behind the properties, and on the usual three facts:
`Init => IInv`, `IInv /\ [Next]_vars => IInv'`, `IInv => Inv`. TLC has checked each of these
invariants on the instances above. Between them the theorems state every safety property of
the runs, invariants and action properties alike; what stays with TLC is liveness.

- **`JobLifecycleProofs`** (`TableAssumption`, `IdsAssumption`, `ThreadsAssumption`):
  `TypeCorrect`, `OutcomesAreUnique`, `VerdictsAreTrue`, `OutcomesHold` (both), `FinalityHolds`,
  `MaintenanceIsExclusive`, `RetriesAreSound`. What is added: an id in state *absent* has left no
  trace (else a submit could meet an old outcome); what a thread has yet to do is queued and in
  one of its work lists only (else a commit could hit an item twice); a retry in progress keeps
  its checks true, because it holds the module lock (else maintenance could begin under it); an
  item that is settled is either in the list the verdict is computed from or already counted
  (`SettledOrListed`), and nothing is left when the verdict is taken (`NothingIsLeft`).
  Finality follows from the table having no pairs out of terminal states.
- **`InferenceProofs`**, the device and what happens on it.
  - `DeviceScheduler` (`SchedulerAssumption`, invariant `SchedulerIInv`): `QueueStaysConsistent`,
    `LeasesAreExclusive`, `GrantsAreOrdered`, `SchedulerImplementsLease`. Added: entries are
    totally ordered, and who came first has waited at least as long; the order of the grants
    follows because priority and sequence number then agree. `DeviceLease` speaks of the threads
    inside their batch (`InsideBatch`), not of the scheduler's table: that a grant finds nobody inside
    needs that the table tells who is (`OneBatchPerDevice`), through drops, drains and late
    releases.
  - `BatchRecovery` (`RecoveryAssumption`): `WorkIsPartitioned`. Added: the pending batches lie
    apart, those to come behind those begun; that halves and chunks cover what they came from
    and lie apart again is arithmetic of `range(0, n, size)`.
  - `OffendersAlone`, of adapters that isolate (`Isolates`: an item that would answer well alone
    is not refused for itself, a batch runs out of memory only above a certain size, and a
    corrupt item is reported) and of retries that shrink every batch to that size
    (`ShrinksTo`). Added (`OffendersApart`): a batch shrunk `k` times is no larger than the `k`-th
    limit, so what fails for good has no such item left. `MCBatchRecovery` assumes both of
    its adapters, so TLC checks that the hypotheses can be met.
  - `CallsStayInBudget`, of plans that come from any staged files under any caps
    (`ArePlanned`). Added (`BudgetInv`): what is pending fits the budget, and a batch that has been
    halved `h` times has earned its attempts and `h` calls for each of its items; since a
    batch can be halved `Halvings` times at most, that is the bound.
  - `PlansAreComplete`: such plans take every file once, in order, in compute batches of which
    each fits. The planner's loop is an induction over the files: the plan after `n` of them is
    one of `1 .. n`, and what its bookkeeping has summed up is the total of the open batch. It
    discharges, for these plans, the part of `RecoveryAssumption` that is about plans.
- **`MineruProofs`**.
  - `MinerUSession` (`SessionAssumption`): `ProcessOutlives`, `ConnectionKept`, `ReadyIsServed`,
    `UpdatesAreClean` (the last two). Added: a worker past the adapter has found it built,
    one at its call has a client (so no failed start can take the process away); without a `gap`, who
    relies on the subprocess finds it owned and calls the connection in force (`ReliedIsOwned`), and
    `Close` is the one step that stops what is relied on; and a connection
    noted before a call differs from that of the call only after the one blind update there can
    be. That last part is why no tier can show as ready through a change and a change back.
  - `MineruJob` (`JobAssumption`): `RunningJobsKeepTheirFiles`, `CallsCleanUp`. For the first
    (`JobIInv`): what a call has uploaded stands until it cleans up (`UploadsStand`), it cleans up
    only when its job cannot run or it does not know of one (`CleanupIsSafe`), one call is on the
    server at a time (`HolderAlone`), and the local server runs in the mode of the call it serves
    (`ModeServed`). For the second (`TidyInv`): a call to come has nothing there, and the call on
    the server knows of all that it has made, step by step of its protocol, unless `orphaned` or
    `excused` says otherwise (`HolderKnows`).
- **`SettingsUpdateProofs`** (`SettingsAssumption`, `RoutingAssumption`): `Durability`,
  `InEffectBetweenUpdates`, and `RoutedUpdates`, which says both of the module with the routing
  adapter; `LeavesAreInEffect`. Added: the executors an update has passed run on its target; an
  update and the construction of an adapter do not overlap unless `mishaps` says so; a
  rollback's target is the snapshot `settings()` answers. With the leaves (`RoutedInv`): a leaf
  that is being made is not there, and one call makes it (`MadeOnce`); leaves need the router
  (`RouterFirst`); they are handed the snapshot in turn, and those passed run on it
  (`LeavesOnTheirWay`).
- **`WorkerProofs`**.
  - `PaddleProcess` (`PaddleAssumption`): `Typed`,
    `RepliesAreOwn`, `OneWorker`, `AnswersArePaired` (both), `NoRecognitionTwice`,
    `SettingsOfTheRun`. Added: the lock's owner is the one thread in an exchange; only the
    adapter's process lives and only it writes to the queue that is read; a line in that queue or
    a request at the worker is the owner's; the worker's settings lag behind the adapter's only
    while they are being sent, or while the adapter holds settings a worker refuses
    (`SettingsAreSent`).
  - `PipelineCache` (`CacheAssumption`, invariant `CacheInv`): `Capacity`, `InUseStays`,
    `LeasesCounted`, `PinnedStay`. Added: between `prepare_load` and the load there is room for
    the model, whatever the watcher does; only the request in progress has a lease. The proof
    leaves out the types of `order` and `stale` and needs nothing about them: the invariants hold
    for any choice of victims among the evictable models.
- **`RuntimeProofs`**.
  - `RuntimeInstall` (`InstallAssumption`): `NeverLost`, `RejectedStaysOut`, `CommandTells`,
    `SuccessMeansInPlace`. `IInv` says where everything lies at each step of an installation
    (`Places`): whose runtime is in which of the three directories and in which shape. Beside it:
    the installer holds the lock (`OneInstaller`) and works on an operation that is open
    (`UnderWay`), only accepted work comes into place (`OnlyAccepted`), and a crash leaves one of the
    positions the next installation can go on from. Where an earlier runtime was, it still is
    somewhere (`InstalledStays`). The lock is given back before the receipt is built and the command
    recorded (`Unlocked`), while another installer may be at work: what the command will tell is
    already true of its operation and stays so (`RetryIsTold`).
  - `RuntimeStatus` (`StatusAssumption`): `StatusTellsTheTruth`; `JobsMeetTheirRuntime`, with the
    hypothesis `Procs = {Supervisor}`, since the service never hears of another process's
    operations. `StatusInv`: a stamp leads to one runtime (`StampsAreUnique`) and is known only
    once that runtime was in its place (`StampsArePlaced`, else a verdict on the runtime before
    could be stored under it), a cached verdict is true unless tainted (`CacheIsTrue`), and
    what an undisturbed request has read still holds (`RequestsAreCurrent`).
  - `RuntimeJournal` (`JournalAssumption`: its bounds are positive): `DirectoryStaysReadable`,
    `LogIsImplemented`. `JournalInv`: the lines are numbered without gaps (`Numbered`), the
    metadata tells a prefix of them (`MetaLags`), an announced compaction is of an ended operation
    and its journal is found (`Announced`), the holder of the lock and the reporter respect
    an accepted cancel (`Held`, `Reported`). The refinement maps the lines after reconciliation
    to the log: each write tells one event, accepts a cancel, forgets, or changes nothing that a
    reader could see. The lines beyond the metadata are written as a suffix of the journal,
    because of `SelectSeq` nothing can be proved.
- **`PdfProofs`**.
  - `PdfOcr` (`PdfAssumption`, and `Careful`: no run overwrites, see the departures):
    `DoneStaysOnDisk`, `SavedTextIsNotLost`, `LayeredAtMostOnce`. Added: outside a save the file is
    what the next open will make of it (`MarkerStands`); wherever the document is kept, a page has one
    layer unless `doubled` (`EachPageOnce`); the page model knows of all text in the document but
    that of the pages it is `blind` for (`ModelKnows`), so that only those are written again; what
    is about to replace the file has the text of the file (`TextIsKept`); the text of a batch is in
    what is being saved, but for what is `lacking` (`BatchIsSaved`), and on disk before its pages are
    told or noted (`ToldIsOnDisk`, which says it of everything in the sidecar and not only of what a
    run would skip). All but the first say nothing once a marker is `stale`.
  - `PdfSession` (`SessionAssumption`): `TextStays`, `SavedIsCurrent`. `EditInv`: the model has the
    pages of the document, none twice (`PagesAreApart`); what the client was told of a page is in
    the model, and if the model has nothing, what of it has a place is in the document; the
    file has what was told at the last save (`TextsAgree`). `save_with_rewrite` is an induction over the pages.
  - `PdfClient` (`ClientAssumption`): `ClientsAreLed`. `ClientInv`: what lives is the child the
    client knows, and that is the one started last.
- **`DataLemmas`** has the induction these proofs use. The library's induction theorems have an
  operator as a parameter, which the provers cannot instantiate. That finite sets are
  well-founded under strict inclusion has none, and from it follow `LeastNumber` and `UpTo`
  (induction for the set of numbers a claim is true of) and `Iteration` (a function that is defined
  recursively on the numbers satisfies its equation). This is how `Filled`, `Total`, `Flatten`,
  `Halved`, `Halvings` and the rewriting of pages are proved about.

Some invariants are proved and not run as properties of their own, since a run says less than the
theorem: the `TypeOK`s, `QueueIsConsistent`, `LeasesAreCounted`, `PinnedModelsStay`,
`NothingRunsTwice`; and that the scheduler implements `DeviceLease`.

Only model-checked: liveness (`DispatchedJobEnds`, `NoStarvation`, `RecoveryEnds`,
`IdleModelsGo`, `EveryCallReturns`, `EveryParseEnds`), which is beyond the provers. That
`JobLifecycle`'s fairness is what `DeviceScheduler` and `PaddleProcess` provide is an argument of
this text, not a theorem.

## 5. What is not modelled

- `env_manager.py` (3273 lines): its installing half has no caller in the package any more
  (`runtime_installer.py` took its place), the rest reads the host.
- `core/batch_budget.py`: only tests call it.
- Recognition pipelines, results, tables, export formats, markdown and HTML conversion, OCR
  engine wrappers: transformations of data without control state.
- PDF rendering and thumbnails, rotation, deskewing, merge, split, watermark and redaction, and
  where on a page a text is placed.
- The availability of an engine beyond its cached verdict, and the choice of a child executor by
  the kind of a job: pure functions of configuration.
- Parsing and validation of manifests, locks, settings and HTTP requests; what `pip` and the
  downloads do inside a step; redaction of messages; authentication.
- Migrations: straight sequences that stop at the first failure; unit tests reach all of it.
- The event log of a job and its observers, time-based retention, the health report.

## 6. Plan

Done: the core (jobs, device, recovery, budgets), the processes around it (MinerU, Paddle, PDF),
settings and the routing adapter, the runtime's installation, journal and status; theorems for
all their safety properties. What is left, in this order:

1. `JobEvents`: the event log and `observe`; retention in `JobLifecycle`.
2. The transactional save of the PDF adapter, beside `PdfSession`.
3. `JobLifecycle`'s use of the device as an implementation of `DeviceLease`, so that the composition
   of the two rests on a theorem as well.
