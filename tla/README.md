# Verification of the batch title-matching pipelines

TLA+ models, model-checking runs and machine-checked proofs for the backend
under `src/backend/app`: a FastAPI service with Celery workers that matches
movie titles against a master database with a language model, row by row, for
spreadsheets and for an external API, next to a number of smaller pipelines.

Paths below are relative to `src/backend/app/` unless they begin with `src/`.

## 1. Inventory

| Component | State it keeps | Operations | Interacts through |
|---|---|---|---|
| Domestic batch (`tasks/agentic_match_task.py`, `title_matching/dispatch_window.py`) | `MovieTitleBatchJob` row (status, total, dispatched, processed, matched, no_match, failed, finalize_claimed_at); Redis hashes `results` and `rowargs`; uploaded and output file | `dispatch_batch`, `enqueue_next_window`, `agentic_batch_row`, `_after_row_terminal`, `finalize_batch` | the shared `agentic` queue, Redis, S3 |
| International batch (`tasks/agentic_intl_match_task.py`) | the same over `MovieTitleIntlBatchJob` | the same | the same |
| External API (`tasks/external_match_task.py`, `routers/external_title_match.py`) | `ApiTitleMatchJob` (phase, counters, claim), `ApiTitleMatchRow` (status, attempts) | submit, `external_dispatch_job` (with an optional master-data sync), `external_match_row`, `external_finalize_job`, `/retry` and its task | the queue, the database |
| Beat scheduler (`tasks/agentic_scheduler_task.py`) | tick lock, rotation counter, the published job window (Redis) | `topup_agentic_queue`: gather states, window, sweeps, round-robin top-up | all three pipelines |
| Sandbox semaphore and limits (`title_matching/sandbox_semaphore.py`, `title_matching/agentic/limits.py`) | one Redis key with a TTL per holder | `acquire`, `release`; soft and hard task limits | every row task, the claude sandbox |
| Submission (`routers/movie_title_match*.py`, `title_matching/batch_io.py`, `batch_storage.py`) | the initial job row and upload | upload, poll, download | dispatch |
| Matcher (`title_matching/agentic/runner*.py`, `*_guardrail*.py`, `post_lookup*.py`, `rerank_intl_v2.py`) | none between rows | one or two sandbox calls, throttle retry, guardrail, verification, second look-up | semaphore, sandbox |
| Deleted showtimes (`tasks/deleted_showtime_task.py`, `deleted_showtimes/*`) | job counters, abort flag, results hash, per-job semaphore | chord of theater batches, callback | Celery chord, Redis, key rotation |
| Key rotation (`deleted_showtimes/*_key_rotation.py`) | one row per key slot: the refused key and when | select candidates, try, mark exhausted | database, providers |
| Lobby check (`tasks/lobby_check_task.py`, `lobby_check/*`) | job and row status, claim | dispatch, row, refill, finalize; one image through the model | a queue of its own, Bedrock |
| Master sync and semantic index (`tasks/prod_db_sync_task.py`, `tasks/semantic_tasks.py`, `title_matching/semantic_index.py`) | sync jobs, the master table, the index | ask for a sync, sync chunk by chunk, build the index | database, broker, Vespa |
| Calendar extraction (`tasks/calendar_extract_task.py`, `calendar_extract/*`) | job row, sheet | classify, extract chunk by chunk, repair, store | Bedrock, S3 |
| Detection batches (`workers/*.py`) | job row, review items, suggestion cache | upload, keyword layer, model calls, finish, tidy up | the engine of their process, Bedrock |
| Review desks and dictionaries (`routers/review.py`, `amenities.py`, `movie_formats.py`, `intl_amenities.py`, `detection/loader.py`) | mappings, review items, one engine per process | approve, reject, create, edit, delete, reload | the database, `app.state.engine` |
| Detection engines (`detection/`, `movie_detection/`, `intl_detection/`) | an index built from the mappings | look up one string | batches, desks |
| Usage ledger (`observability/llm_logging.py`, `tasks/usage_rollup_task.py`) | one row per model call, hourly sums, watermark | log, roll up, prune | the database |
| Data-quality scan (`src/dqscan/`, `tasks/dqscan_task.py`) | a report per run | gate, compile, run rules in batches, report, notify, prune | the warehouse |
| Evidence cache, API keys and limits, sandbox service, frontend, deployment | see section 6 | | |

What is hard in them:

* **Concurrency without locks.** Row tasks, nested refills, the initial window
  and a beat tick claim rows of the same job at the same time. The code relies
  on a compare-and-swap cursor (`claim_row_window`), guarded updates per row
  (external), `HSETNX` for results and a conditional `finalize_claimed_at`.
* **Partial failure.** Each task is a sequence of separate database, Redis, S3
  and broker calls, any of which can fail, with handlers that swallow, record
  or re-raise. A worker can die anywhere; messages are acknowledged when taken.
* **Redelivery and retries** at three levels: the broker, Celery's
  `self.retry`, and the `/retry` endpoint that reopens a finished job.
* **Time.** Slot wait, call timeout, soft limit, hard limit and the TTL of the
  holder key are derived from one constant and have to nest.

What makes them correct: every row gets one outcome, counted once; a job is
finalized once, after its last row, and never early; it always finishes;
inputs go only after the output is safe; a row is never published twice; the
queue is not flooded and no job is starved; phases, counters and reports tell
the truth about rows; a slot is held as long as its row runs and comes back
when the row dies; what a reviewer or editor approves is what the engine
matches; a row a guardrail refused does not come back; what is summed, indexed
or reported is complete and counted once.

## 2. Modules

| Module | What it is |
|---|---|
| `RowLedger` | abstract: each row gets one outcome, then one delivery with all of them |
| `TitleBatch` | one spreadsheet job with its workers and beat tick; implements `RowLedger` |
| `TitleBatchMC` | instances and fault sets for TLC |
| `TitleBatchProofs` | `TypeCorrect`; `CountingCorrect`, `NeverOvercountedHolds`, `FinalizeCoversAllRowsHolds`, `InputsOutliveTheOutputHolds`, `OutputHasNoGapHolds`, `AtMostOneCopyHolds`, and the refinement of `RowLedger`, `KeepsTheLedgerHolds` |
| `IntlBatch` | the international batch: its handlers, each the steps of `TitleBatch` it repeats |
| `ExternalMatch`, `ExternalMatchMC` | one job of the external API with `/retry` and beat tick |
| `ExternalMatchProofs` | `TypeCorrect`; `FinishedMeansDoneHolds`, `AtMostOneCopyHolds`, `CompletedIsFinalHolds`, `CountersMatchRowsHolds` |
| `SandboxSemaphore`, `SandboxSemaphoreMC` | holder keys, row life cycle and time limits, with a clock |
| `SandboxSemaphoreProofs` | `TypeCorrect`, `HolderOutlivesItsRowHolds`, `CallsWithinCapHolds` |
| `FairShare`, `FairShareMC` | several jobs on the shared queue: windows, tick lock, rotation, top-up |
| `FairShareProofs` | `TypeCorrect`, `RotationIsFairHolds`, `NobodyFloodsTheQueueHolds` |
| `KeyRotation` | searches over a pool of provider keys |
| `ShowtimeJob` | a deleted-showtimes job; EXTENDS `KeyRotation`, its batches are the callers |
| `LobbyCheck`, `LobbyReading` | the lobby-check job; one image of it through the model |
| `MasterSync` | sync requests, sync tasks, the master table and the index build |
| `CalendarJob` | one calendar extraction |
| `SideQueues`, `SideQueuesMC` | composes `ShowtimeJob`, `LobbyCheck`, `MasterSync`, `CalendarJob` and a `TitleBatch` without rows |
| `SideQueuesProofs` | `TypeCorrect`; `TotalsAddUpHolds`, `ReportAgreesWithCountersHolds` |
| `DetectionBatch` | an upload of amenity strings with its thread, cache and review items |
| `AmenityDesk` | EXTENDS `DetectionBatch` with the review desk, the dictionary and the engine of each process |
| `MovieDesk`, `IntlDesk` | EXTEND `AmenityDesk`: the same desk with the differences of the other two services |
| `DetectionCascade` | one look-up in each of the three engines |
| `MatchDecision` | one title through the three matchers, from model answer to decision |
| `UsageLedger` | usage rows, rollup, prune |
| `RuleScan` | one run of the data-quality scan |
| `Enumeration` | a finite set of integers in order, for the two above |
| `AmenityDeskProofs` | the inductive invariant of a desk and its batches, for every constant |
| `EngineProofs` | those of one run of the scan and of one look-up |
| `BackOffice`, `BackOfficeMC` | composes the three desks, `KeyRotation`, `UsageLedger`, `DetectionCascade`, `MatchDecision`, `LobbyReading` and `RuleScan` |
| `BackOfficeProofs` | `TypeCorrect`; `EveryMissIsReviewedHolds`, `ApprovalIsInTheEngineHolds`, `EveryRuleIsReportedHolds`, `CascadeKeepsTheBestHolds`, `CircuitRulesHoldHolds`, `LedgerIsExactHolds`, `KeysAreHeldFairlyHolds`, `ConflictsAreReviewedHolds`, `RefusedRowsStayOutHolds`, `AcceptedRowsAreEndorsedHolds` |

`SideQueues` and `BackOffice` each compose services that share no state in the
code either (tables, queues and keys of their own). A behaviour is one of one service, chosen
in `Init`; the variables of the others are `Off`. `Services` names those `BackOffice` may
choose, in the run all of them. Where services do share state they are modelled together: batches and desks over one engine, showtimes
batches over one key pool, jobs of several pipelines over one queue.

### TitleBatch

`job` is the database row (`claimed` is `finalize_claimed_at IS NOT NULL`),
`results` the Redis hash, `rowargs` and `upload` whether the cached arguments
and the uploaded file exist, `output` the files written, `queue` a bag of
messages. Each worker (and each tick of beat) has a label `pc` that stands just
before its next external call, so actions interleave at the granularity of the
code's transactions and calls:

* `agentic_batch_row`: `MatchSucceeds`, `MatchRetries`, `MatchExhausted`,
  `MatchBreaks`, then `StoreRowResult` (HSETNX) and `BumpCounters`;
* `_after_row_terminal`: `ClaimFinalize`, `PublishFinalize`, else the refill;
* `enqueue_next_window`: `ReadCursor`, `SwapCursor` (the compare-and-swap),
  `FetchRowArgs`, `PublishRow`, `FailUnrecoverable`, `WindowDone`. A row whose
  arguments are gone is recorded in the middle of the loop, which calls
  `_after_row_terminal` again: `stack` holds the windows nested that way;
* `dispatch_batch`: `DispatchLoad` ... `DispatchFailed`;
* `finalize_batch`: `FinalizeStart` ... `CleanRowArgs`;
* the tick: `TickStart`, `SweepSelect`, `SweepClaim`, `SweepPublish`, `TopUp`.

Faults (`Raise...`, `Crash`, `Redeliver`, `ArgsMiss`) are actions guarded by
`FaultPoints`, the set of places where the environment may fail in a run, and
`MaxFaults`. Where an exception ends is taken from the handlers of the code.
`counted` and `purged` are history variables.

The parsed title, the spreadsheet cells, the progress texts and the `variant`
(v1 or v2 matcher) are left out: nothing here depends on them. Row outcomes are
chosen freely.

### ExternalMatch

Rows are database rows with a status (`pending`, `dispatched`, `completed`,
`failed`) and an attempt count. A row's status (`CommitRow`) and the job's
counters (`BumpCounters`) are two transactions, as in the code. `/retry` is an
actor of its own: `RetryFlip` is the conditional phase update, `RetryQueued`
and `RetryNothing` what follows, `RetrySelect` and `RetryReopen` the task.
A tick reads dispatched and pending counts in two queries (`TickStart`,
`TickRemaining`). The master-data sync is one step that succeeds or fails.

### SandboxSemaphore

Each worker runs one row after the other: acquire, prepare, call, (backoff,)
record, release. `SoftLimitHits` is raised once in a row and leads to `Record`: of a
failed row, or, since broad handlers swallow it (`runner.py:247`, `runner_intl_v2.py:123`),
of the first answer's fallback. In a look-up before the call it may be swallowed
(`runner.py:671`, `781`) and the row goes on; `cut` remembers it. A `Tick` lets time pass for all of them and for the keys'
TTLs, and is only enabled when nothing is overdue (`MayPass`). Limits are the
formulas of `limits.py` over `Attempt`. A sandbox process lives until it answers or until
the server's own timer kills it, also when the caller has gone.

### FairShare

A job is two counters, dispatched and processed; what matters is the order of
the messages in the list. `Submit` publishes the initial window, `Work` ends a
row and refills its job from the window it reads (a stale one when the tick's
key has expired or a gather failed). A tick takes the lock, gathers, publishes
the shared window, sweeps (`SweepSelect` reads the stuck jobs, `SweepClaim`
claims them one by one, so a row may end in between) and tops up round robin
from a rotating start, one chunk per turn (`Turn`); a job leaves the round when
its deficit is met or its cursor does not move. `SweepBreaks` and `TopUpBreaks`
are the errors each step swallows. `LockExpires` and `WindowExpires` are the two TTLs.

### SideQueues: jobs beside the title matching

* `KeyRotation`: `Select` reads the slots once and keeps the keys that are
  not cooling down, `Try` asks the first of them, `Mark` records a refusal, `Return`
  answers. `Surroundings` lets time pass, puts another key into a slot's setting
  (a former one may come back) and creates the
  table. Searches overlap, so a slow one marks a key others already marked.
* `ShowtimeJob`: `Dispatch` publishes the chord, `ProcessBatch` takes a
  batch through abort check, semaphore, query ladder, site check, store, bump and
  release, `Finalize` is the callback. A row has the verdict it is reported with and that of its
  site; `tally` is what the task counts of the latter. `SiteBreaks` is an error half-way
  through the site check, `Rescued` the broad handler, which overwrites the first verdict
  alone. `Faulty` raises at any step, with the handler the code has there, or kills the worker; `Lapse` is the TTL of the semaphore.
* `LobbyCheck`: one label per transaction or broker call of a row task, the
  refill and the claim included. `DispatchFails` and `MarkFailed` are a dispatch that
  breaks off, with some of its rows published. No beat repairs the job.
* `MasterSync`: `Ask` with its check for a job in flight and its stale rule,
  `SyncTask` chunk by chunk, `Build` feeding what the index does not list.
  Tasks acknowledge late: a message in hand comes back after a crash.
* `CalendarJob`: two-stage classification, then a call, an optional repair
  and a skip or rows per chunk, then the sheet.

### BackOffice: desks, engines, matcher, ledgers

* `DetectionBatch`: `Upload`, keyword layer, cache prefill, one model call per
  distinct string, `Collect` in any order, `Finish` with the review items in the
  same commit; saves and calls fail, the process restarts.
* `AmenityDesk`: a request reads, commits, builds an engine and assigns it to
  its process, in that order, interleaved with another request and the batch. A commit
  writes a status only if it is not the one read (`Writes`), as the ORM does; an edit
  reads the row once more (`Refresh`) to decide whether it builds.
* `DetectionCascade`: forms of phrases (normalised, without stopwords, as
  tokens, written together), the index, the tracks, the hit that displaces
  another, and the rules of circuits. `MovieDesk` and `IntlDesk` have no circuits.
* `MatchDecision`: fetch, sandbox answer and parse retry, guardrail, verification
  and second look-up, for `runner.py`, its v2 and the international v2. What a search
  or the model lists is a set, of which any row may be the first; `blind` are the rows the
  guardrail failed to read.
* `LobbyReading`: image, call with its fall-backs, checks, repair, salvage,
  stored row.
* `UsageLedger`: ids are handed out at `Insert` and become visible at
  `Commit`, in any order; a rollup reads the watermark, reads the rows and commits in
  three steps, a prune in two, and any number of rollups may overlap.
* `RuleScan`: gate, compile, batches that fall back to single rules, `Interrupt` at
  any point, report, channels, pruning.

## 3. Runs

The faults of each run are in the `...MC` modules, or in the composition. All
runs finish in at most about four minutes on two TLC workers.

| Run | Instance | Shows |
|---|---|---|
| `batch_race` | 3 rows, 2 workers, 1 beat, window 1, two faults in dispatch, sweep, finalize and in the recording of unrecoverable rows | `TypeOK`; `AtMostOneCopy`: no row is queued, claimed or running twice; `InputsOutliveTheOutput` |
| `batch_faults` | 2 rows, 2 workers, 1 beat, one fault in the row path | `NeverOvercounted`, `FinalizeCoversAllRows`, the inductive `CountingInv`, `OutputHasNoGap`, and refinement of `RowLedger` (`KeepsTheLedger`) |
| `batch_repair` | international, 2 rows, fair, one repairable fault | `Completes` |
| `bump_error_wedges` | violation | a database error in the bump leaves the job processing (`NeverWedged`) |
| `ext_race` | 2 rows, 2 workers, beat, one retry, sync, one failing dispatch | `TypeOK`, `CountersMatchRows`, `AtMostOneCopy`, `CompletedIsFinal` |
| `ext_retry` | 2 rows, 1 worker, beat, two retries, one repairable fault, fair | `FinishedMeansDone`, `EveryRunEnds` |
| `ext_phase_race` | violation, 2 workers | a job with a failed row is finalized as `completed` |
| `sandbox_slots` | 2 workers, cap 1, attempt 2 ticks, at most 4 ticks before the call, one fault, fair | `TypeOK`, `HolderOutlivesItsRow`, `CallsWithinCap`, `LeakedSlotsReturn` |
| `row_budget` | violation, attempt 4 ticks | a row whose calls all keep to their timeout is cut by the soft limit |
| `fair_share` | jobs of 5 and 1 rows, 1 worker, 1 tick at a time, one fault, fair | `TypeOK`; `RotationIsFair`: no job with a deficit and rows left falls more than a chunk behind in a tick; `NobodyFloodsTheQueue`: at most two shares and a message per worker are queued for a job; `NoJobStarves` |
| `side_queues` | one job of each service, one fault (two in a lobby check and an empty batch), fair | `TypeOK`; `ReportAgreesWithCounters` (showtimes); `TotalsAddUp` (lobby and calendar); `EveryJobEnds`; `FilmsReachTheIndex`, `SyncsGoOn` (sync) |
| `back_office` | one instance of each service | `TypeOK`; desks and batches: `EveryMissIsReviewed`, `ApprovalIsInTheEngine`; rotation: `KeysAreHeldFairly`; `LedgerIsExact`; scan: `EveryRuleIsReported`; engines: `CascadeKeepsTheBest`, `CircuitRulesHold`; matcher: `RefusedRowsStayOut`, `AcceptedRowsAreEndorsed`; reader: `ConflictsAreReviewed` |

**Bounds of the title matching.** Two workers and a tick are enough for every race between two
claimers and a sweep; two rows for a row that ends while another is between its
status and its counter; three rows with a window of one let the cursor move while
the initial window, a self-refill and a top-up each hold a stale view of it.
One compare-and-swap attempt (`MaxAttempts = 1`) makes contention drop a
refill, the worst case of the code's five (`max_attempts=5`). One fault distinguishes every
single failure; the phases around finalize are given two, from which calls that fail alike are left out. `ext_retry` has one worker, because
faults, two reopenings and fairness multiply; `ext_race` has the two. In `sandbox_slots` two holder names suffice for two
workers with a cap of one: whenever there is room an unused name exists.
Cap 1 makes the rows wait; ticks of half an attempt are fine enough to
separate fast failures from slow ones, and four ticks before the call let a row that
waited reach its soft limit there; in `row_budget` that time is zero, which makes its
violation the calls' alone. In `fair_share` the big job alone
overfills the queue and the low one has a single row, so its share rounds down.

**Bounds of the side queues.** Showtimes: two batches of one row, a row
without a theater, one semaphore slot and one key for both, one rung of the
query ladder: the batches wait for each other, and either may abort. Google says
deleted, a site says published or nothing, so a site that overrules is told from one that does not. Lobby: three images, two
takers, window two, refill one, so refills race and rows end together; two errors, so that
a row or a dispatch can fail and its handler too. Sync: two
films in chunks of one, two jobs, so that a sync that is slow overlaps the one that took it for dead.
Calendar: up to three chunks, any of which is skipped, repaired or good.

**Bounds of the back office.** Desks: two strings, one row of the domestic desk, two of
the international and three of the movie desk (two of them equal), one mapping that may be created, edited and deleted, two
requests at a time, interchangeable (one in the movie desk): one approves what the other rejects. Rotation: two searches, two
slots of two keys in turn, a cooldown of two ticks, so that a refusal can be
reported while another is already cooling. Ledger: three calls, two per rollup, two
rollups, one failure: each order of two commits around a read, a rollup that goes on after
one that began later, and a watermark that is set back. Engines: one or
two segments in every form the tracks tell apart, two mappings in every order
of tiers. Matcher: two rows of the master and an id that does not exist,
confidences below and above the threshold. Reader: confidences below the cap, below and above the
threshold. Scan: three rules, two per batch, two channels.

**Deadlock.** `ext_phase_race`, `fair_share`, `side_queues` and `back_office` do not check it: the system
stops when its jobs are over. Elsewhere a beat or the clock goes on for ever.

**Fairness.** A live worker takes queued messages and carries on with what it
took (Celery's prefetch loop), beat keeps ticking (its schedule), an accepted
request is answered. It is weak fairness on each worker's whole behaviour, so
no particular message is promised to be next, and none is assumed for faults,
clients or the outcome of a match. `sandbox_slots` assumes that time passes and
that rows act on their deadlines. In `batch_repair` and `ext_retry` liveness
depends on beat for the faults between the bump and the refill; `fair_share`
assumes that the worker, the tick and the expiry of the tick lock go on. In
`side_queues` each service's tasks run; for the sync also that time
passes and that people go on asking for one, which is what the stale rule is for.

## 4. Proofs

### TitleBatch

The theorems hold for every number of rows, workers and ticks, every window,
chunk and retry bound and every number of faults, from `SizeAssumption`
(naturals; at least one compare-and-swap attempt) and `ActorAssumption` (beat is
not one of the agentic workers). The first three make no assumption about the
fault set either.

* `TypeCorrect`: `Spec => []TypeOK`. Types alone are not inductive: a bump
  could be of a row that is not one, a swap could follow the last attempt. The
  conjunct `InHand` says what an actor holds at each label that needs it. One
  lemma per action, collected in `StepTypes`.
* `CountingCorrect`: `Spec => []CountingInv`. That `processed` never exceeds
  the stored results is not inductive. The invariant names the rows whose bump
  has committed (`counted`), says they are stored, that `processed` is their
  number, that a worker about to bump holds a stored and uncounted row and no
  two hold the same one (this is where HSETNX is used), and that a claim, a
  finalize message, a running finalize or a deleted hash all imply that every
  row is counted. The last part is needed because deleting the hash would
  otherwise allow a second first writer. Most actions are quiet: `QuietStep`
  says once what they leave alone. `NeverOvercountedHolds` and
  `FinalizeCoversAllRowsHolds` follow with the cardinality lemmas of
  `FiniteSetTheorems`.

The other four rest on tokens: things that exist once because each
step that makes one ends another. They are not true under every fault, so each
theorem names what it asks of the environment:

| Condition | What it says | Why it is needed |
|---|---|---|
| `DispatchedOnce` | the broker does not redeliver the dispatch message | a second `dispatch_batch` sets `dispatched = 0` and publishes the rows again, by design |
| `FailsEarly` | `dispatch_batch` raises nothing after it has marked the job processing | its except branch marks the job failed whatever has become of it (`tasks/agentic_match_task.py:710`), a completed one included |
| `FinalizeOnce` | the broker does not redeliver the finalize message | a second `finalize_batch` may read the hash after the first deleted it |
| `RowOnce` | the broker does not redeliver row messages | two copies of a row then run (and are counted once, see above) |

* `InputsOutliveTheOutputHolds` (`DispatchedOnce`, `FailsEarly`): the dispatch
  token is the message or the task that has not marked the job processing. While
  it exists nothing of the job has been handed out (`DispatchInv`), so nobody
  can take the completed status back that `DeliverInv` relates to the clean-up.
* `OutputHasNoGapHolds` (`FinalizeOnce`): the finalize token comes with the
  claim and is then its publisher, the message or the task. `FinalInv`: there is
  one, and the hash is whole until it passes the clean-up.
* `KeepsTheLedgerHolds` (those three): the refinement of `RowLedger`, one lemma
  per action that changes results or output, every other step a stutter.
* `AtMostOneCopyHolds` (`DispatchedOnce`, `RowOnce`): a row below the cursor has
  one token, its message, the task working on it, or its place in a window that
  was claimed and is not published yet, also in the `stack` of nested
  refills; a row at or above the cursor has none (`CopyInv`). This is where the
  compare-and-swap is used: the claimer moves the cursor from the very value its
  window begins at.

`batch_race` meets the conditions of the first and the last, `batch_faults` those
of the second and the third: what the runs check is what the theorems say.

### ExternalMatch

For every set of rows, workers, beats and clients, every window, chunk and
number of attempts, retries and faults, from `ExternalAssumption`.

* `TypeCorrect`, with the invariant `TypeInv`: what each actor holds.
* `FinishedMeansDoneHolds` (`DispatchHolds`, or no retry): a job is finished
  only when no row is pending or dispatched. The tokens are the dispatch of
  a fresh job and the finalization or retry of a claimed one: `/retry` opens a
  finished job only, and only its task gives up the claim.
* `AtMostOneCopyHolds` and `CompletedIsFinalHolds` (`DispatchHolds` or at most one
  retry; no error in the bump): the copy of a dispatched row is a token, and only a
  failed row is reopened.
* `CountersMatchRowsHolds` (`DispatchHolds` or at most one retry; `BumpHolds`): the
  sum over the rows is kept by each bump, and what is between a row's commit and
  its bump is counted separately.

`DispatchHolds` says that the dispatch does not break off half-way. When it
does, its except block marks the job failed while rows of it are out
(`tasks/external_match_task.py`), `/retry` opens it, and two retries overlap. That
an error in the bump breaks `AtMostOneCopy` was not known before the proof: the
bump is a transaction of its own after the row's commit, and the rescue branch
commits the row once more, perhaps after somebody reopened it. `ext_race` and
`ext_retry` meet the conditions of the theorems about what they check.

### SandboxSemaphore

For every number of workers and holder names, every cap, attempt, headroom, backoff
and preparation time and every number of faults, from `SemaphoreAssumption`
(finite sets; cap, attempt and headrooms positive).

* `TypeCorrect`: types are inductive together with `RetryLeft` (a row that backs
  off has an attempt left). That ages stay below the hard limit and processes
  below `Attempt` is part of the type, and comes from the guard of `Tick`.
* `HolderOutlivesItsRowHolds`: the key is not refreshed, so the invariant
  `HeldInv` relates it to the age of the row: at least `HolderTtl - age`. Rows hold
  keys of their own, and none before they acquire. With the nesting of the limits
  (`LimitsNest`) the key of a row that may still run is positive.
* `CallsWithinCapHolds`, under the condition `HardHeadroom + TtlHeadroom >=
  Attempt`. A row may post its last call just before the soft limit and be
  killed, so its key has only the two headrooms left while the process has a
  whole attempt. The calls of rows the soft limit has hit are excepted, those a row makes after a
  swallowed one included: nothing bounds them but the hard limit. `AgeInv` bounds the age of any
  other row that may still post; `ProcInv`
  says that the key of a process that counts outlives it; `CapInv` that at most
  `Cap` keys are live. By default the condition is 90 s against 60 s + 60 s; an
  `AGENTIC_TIMEOUT_SECONDS` above 120 s is outside it.

### FairShare

For every number of jobs, pipelines, rows and workers, every concurrency, multiplier and
number of faults, from `ShareAssumption`.

* `TypeCorrect`, with `CountInv`: the rows a job has out are the
  messages in the queue and the workers at them. It is about sequences: publishing
  appends one message per row, a worker removes the head.
* `RotationIsFairHolds`: in the order in which their turns come, the needy jobs
  with rows left were given more and more (`TurnInv`), hence the job whose turn it
  is was given least. The attempt to prove the property as first stated showed
  that it was false with a chunk above one and a job whose rows run out in the middle
  of a turn: it is now about jobs with rows left.
* `NobodyFloodsTheQueueHolds`, for `Chunk = 1`, the default. The bound used to be
  two shares; with two workers that is false, since each may publish for a row it
  ended and has not settled. It is now two shares and the workers. `FloodInv`
  bounds a job's load (its rows out, ended rows not settled, the first window)
  and what a tick may still add to it: the tick has read the load some time ago, a
  share and a worker each above what it reads. With a larger chunk each ended row
  publishes more than it takes, and no such bound holds.

### BackOffice

For every value of the constants of the services, from `OfficeAssumption`. The
services share nothing, so each invariant has the form `service = ... => ...`, and a
step of another service leaves it. What is proved of a component by itself is
instantiated: `AmenityDeskProofs` once per desk, `EngineProofs` for the scan and the
engines. An instance brings copies of the library's operators; the lemmas named
`...Agree` say that the copies are the same.

* `TypeCorrect` puts the types of all services together. The ledger's are proved
  together with its exactness (`LedgerInv`).
* `EveryMissIsReviewedHolds`, `ApprovalIsInTheEngineHolds`: `DeskInv` of
  `AmenityDeskProofs`, whose steps the handlers of the other two desks repeat with
  differences. Nothing of a batch is on the desk before its last commit, then all of it
  (`ReviewInv`), and the rows counted and awaited are never more than the upload
  (`CountInv`). What a request promised and nobody took back is approved in the table until
  it builds its engine, and in that engine until it assigns it (`RequestOK`), an approval that
  wrote nothing and left the mapping unapproved (`void`) excepted.
* `EveryRuleIsReportedHolds`: the waiting batches are lists that share no rule
  (`WellCut`); the rules not processed are those in hand and those that wait
  (`QueueOK`), and a rule has one outcome as soon as its batch is collected, none
  before (`CountOK`). An interrupt between the two statements that record a batch is the
  exception the property names. That chunks are a partition of a list is integer
  division (`ChunkBounds`).
* `CascadeKeepsTheBestHolds`, `CircuitRulesHoldHolds`: the best hit so far is one of the
  segments passed, and as good as that of each of them (`BestSoFar`); a scan ends at the
  last segment, and asks the model only without a hit (`LooksAtAll`).
* `LedgerIsExactHolds`, for any number of rollups, since beat starts one every 30 seconds on two
  processes without a lock: whoever starts one has summed what lies below its watermark, and the
  next watermark is the last of the rows it read, so what lies below that is summed when it
  commits, whatever other rollups do (`MarksCover`). The prune reads a watermark, below which the
  same holds. That sums are exact is an invariant of the behaviours in which
  no two rollups have been open at once (`InTurn`); the others may double a row (section 5).
* `KeysAreHeldFairlyHolds`: the age of a slot's row agrees with the history of the
  key in it (`AgesAgree`); a late mark of a former key is not written over a row about
  the present one.
* `ConflictsAreReviewedHolds`: what is on its way to the row does not contradict
  itself, and has a confidence below the threshold if it was salvaged.
* `RefusedRowsStayOutHolds`, `AcceptedRowsAreEndorsedHolds`: from the guardrail on
  the result is no refused row (`CleanResult`), and at every step an accepted one
  is endorsed (`EndorsedResult`).

### SideQueues

For every value of the constants of the services, from `SideAssumption`; the lobby
check also says that row 0, which stands for no row, is no image. Each
invariant is about one service, as in `BackOffice`.

* `TypeCorrect` adds to the invariants below what the types need beyond them. Lobby
  check: the counters never pass the number of images, also after the second error, of
  which `CountInv` says nothing; a row that ended and is in nobody's hands stays so, and
  only the bump makes one more (`Behind`). Showtimes: the queries asked stay
  within the ladder, the failures in a row at their limit (`AskedOK`, `LimitsOK`), and the
  rotation keeps its types under searches an error cuts off (`KeysTyped`). Calendar:
  the attempts at a chunk and the chunks counted stay within their bounds
  (`CalendarTyped`). Sync: the index lists only what the master has (`SyncTyped`). The
  batch without rows reaches few of the labels (`EmptyTyped`).
* `TotalsAddUpHolds`, lobby check: the totals of a finished job say nothing about
  a running one, so the invariant says what the counters know at any time: the rows
  that have ended and are in nobody's hands (`CountInv`, while there was at most one
  database error). For a bump to add one such row and no other, a row must be in one
  pair of hands: a dispatched row has one token, its message or its worker (`RowToken`),
  and nothing is out before the dispatch marks the job (`DispatchInv`). That the
  end is claimed by one who saw no row outstanding is `EndInv`. The property's
  condition is needed: a second error can lose the bump of a row that is recorded again.
  A dispatch that failed may end the job with rows out or left behind: their tokens are as before,
  and the totals are claimed of the rows that have ended. That every row has is claimed of the other
  ends alone.
* `TotalsAddUpHolds`, calendar: chunks are left until the sheet and none then
  (`CalendarBody`).
* `ReportAgreesWithCountersHolds`: a row tells the job its mark when its batch has
  counted it. The counters are the numbers of such rows per verdict (`CountersRight`),
  the hash has the same marks until `finalize_job` drops it (`StoredRight`), and the
  report repeats them (`WrittenRight`), as long as no count was skewed and no part of the chord
  was lost (`Sound`). The site counters, which the task bumps from a tally of its own, are those
  of the marks while no error lost them (`astray = {}`): till then the tally of
  a batch is that of the site verdicts its rows have (`TalliesFit`). The report is written when every batch is done and none
  aborted (`PhaseInv`), which the normal, skipped and rescue paths reach alike (`PathOK`).

### Only model-checked

Every invariant of a passing run is also proved. What remains with TLC:

* Liveness under fairness, which the prover does not reach: `Completes`, `EveryRunEnds`,
  `LeakedSlotsReturn`, `NoJobStarves`, and `EveryJobEnds`, `FilmsReachTheIndex`, `SyncsGoOn`.

No module uses a RECURSIVE operator.

## 5. Where code and documentation disagree

Three runs end in a violation and are explained under "findings" in
`PROJECT.json`: `bump_error_wedges`, `ext_phase_race`, `row_budget`. While
modelling, more states were met that a comment or docstring excludes, or that
a reader would not expect. Each is left out of the property that would fail,
by a fault set or by a named exception in the property.

Title batches and external API:

* a broker error right after `claim_finalize` leaves a claimed job without a
  finalize message, which the sweep skips;
* a worker that dies with a row in hand, or rows claimed and not published,
  are never counted, so the placeholder rows of `finalize_batch` are not reached;
* a `dispatch_batch` that fails after its rows were published marks a job as failed
  that may have completed meanwhile;
* in the external pipeline, a database error between a row's commit and its
  bump lets the rescue branch commit the row again as failed and count the attempt twice
  (`ext_retry` includes this fault: the job still ends);
* a database error in the first session of `external_match_row`, or a broker error
  in `/retry` after its phase flip, leaves the job processing;
* `/retry` with nothing to retry computes a new phase instead of restoring the
  old one, so a job whose sync failed becomes `completed` with pending rows.

Matcher:

* the verification's `NO_DB_MATCH` clears the id and leaves the decision
  `AUTO_ACCEPT` (`rerank_intl_v2.py:226-238`);
* a `best_match_index` that is no number raises a `ValueError` past the
  handlers for parse errors (`result_parser.py:167`).

Deleted showtimes and lobby check:

* the handlers of the key errors in `process_batch` write to Redis and the
  database themselves; when that raises, the chord's callback never runs, which the
  docstring excludes (`deleted_showtime_task.py:194-201`); `finalize_job` has no handler (line 401);
* an error after the counters committed reaches the except branch, which
  counts the rows again (line 344), and one after the site check stores what the site said without
  counting it (line 384): `ReportAgreesWithCounters` excepts the counters concerned (`skewed`, `astray`), while
  `models.py:337-341` describes the site counters as those of the rows;
* a site check that breaks off leaves the rows it had come to with the verdict of the site, under a
  cleared site verdict, and keeps their tally, while the comment at 312-318 says that every row is
  degraded to "its already-computed Google-only verdict";
* the holder TTL of the per-job semaphore is 120 s, less than the searches
  of a large batch may take (`job_semaphore.py:46`);
* a lobby check whose dispatch fails is marked failed although some of its rows are still worked on
  and counted, and `error` then stands next to totals that go on rising (`lobby_check_task.py:238-250`);
* a lobby record without confidences is logged as "REVIEW" but not flagged for
  review (`lobby_check/config.py:257-259`, `extractor.py:284`, `lobby_check_task.py:65`); a
  confidence that is no number fails the commit of the row;
* the first session of a lobby row is outside its `try` (line 288), and a lost refill is never made up for.

Calendar extraction, sync and scan:

* a refused temperature parameter uses up the one repair of a calendar call
  (`calendar_extract/bedrock.py:150`, against its docstring 123-126), and an answer that is a JSON list
  fails the whole job instead of the chunk (`extractor.py:106`);
* films whose feed fails are skipped and not fed again
  (`semantic_index.py:391-396`), nor are films that only changed;
* an interrupt between the two statements that store a batch's outcomes makes the scan report
  its rules twice (`src/dqscan/engine.py:111-124`); `check_dqscan_cron` commits the firing before it
  publishes it (`dqscan_task.py:94-104`).

Desks, engines, ledger:

* approving an approved mapping while another request rejects it writes nothing, since the ORM
  leaves out columns that keep the value it loaded, and is answered with ok (`amenities.py:153-168`,
  `movie_formats.py:169-184`, `intl_amenities.py:131-146`), against "keyword is detectable within
  seconds" (`src/README.md:302`); `ApprovalIsInTheEngine` excepts it (`void`);
* rejecting a domestic mapping, or an edit that leaves it pending, does not rebuild the engine
  (`routers/amenities.py:97-144` and `171-192`), which goes on matching it; and a rebuild reaches only
  the process that served the request, while the image starts two (`Dockerfile.prod:12`);
* of two mappings with equal forms the domestic and the movie index keep the one with
  the lowest priority (`detection/engine.py:63-65`; the international one was fixed), and
  a scoped mapping hides an unscoped one;
* a rollup that reads while an earlier id is not yet committed skips that row for good
  (`usage_rollup_task.py:86`): `LedgerIsExact` is about the other rows; and two rollups that
  overlap add the same rows twice, against the docstring (lines 6-11), so that sums are exact is stated of rollups that never did
  (`overlapped`);
* the jobs in flight of an API key are counted without a lock (`api_auth.py:120-131`).

## 6. Not modelled

* Evidence cache and fetchers: a read-through cache and I/O; a stale entry only changes the prompt.
* API keys and limits: permission checks and two counters without a protocol.
* The claude sandbox service: a stateless wrapper around one process per
  call; `SandboxSemaphore` has its timer.
* Frontend, deployment, migrations, wording of prompts, logs and sheets.
* Of modelled components: prompts, scoring and title normalisation of the matcher; the texts of
  the queries and the global scrape.do cap of the showtimes jobs (a copy of the per-job semaphore
  without the job); the ready and dirty keys of the index; the SQL, the settings and the
  cron of the data-quality scan; review items of type "mapping", for which `review.py:50-63`, `157-169` and
  `movie_review.py:46`, `145` have branches but which no code, seed or migration creates (every
  `ReviewItem` and `MovieFormatReviewItem` is an "ai_suggestion"); prices and the credit poll of the usage ledger.

Each component's status is in `PROJECT.json`. Eager mode (Celery's
`task_always_eager`) is test-only and left out. A redelivered dispatch
message is outside the fault sets: it rewinds the cursor by design of
`dispatched=0` and publishes the rows again.

## 7. Plan

Done, most important behaviour first: the title batches and their ledger, the
external API, the semaphore, the fair share, the side queues, the desks, engines
and single decisions, each checked; then the proofs of section 4. Next:

1. `SandboxSemaphore`: the abstract slot pool it implements.
2. As models: the scrape.do cap with the jobs that share it, the ready keys
   between a sync and an external dispatch, the cron of the scan, a dispatch that
   breaks off after its rows were published.

An abstract specification still worth stating is an external ledger in which a failed row may be tried
again and a delivered one never changes.
