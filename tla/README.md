# A verification project for the data forecasting agent

TLA+ models of what in this program keeps state, interleaves or decides, the
TLC configurations that check them on small instances, and TLAPS proofs of the
properties for every value of the constants. Paths below are relative to
`src/data_forecaster/`, `docs/` to `src/`.

## 1. The system

A user uploads a time series, asks for a forecast and polls for the result. A
Flask **frontend** (gunicorn, two workers) talks over HTTP to one FastAPI
**backend** process (uvicorn), which keeps SQLite tables and parquet files on a
volume and everything else in memory. Synchronous endpoints run in threadpool
threads, `job_worker` coroutines run on the event loop and give their pipeline
to threads, and `docker-compose` restarts the process when it stops
(`restart: unless-stopped`).

| Component | State | Operations | Talks to | What must be right |
|---|---|---|---|---|
| Job scheduler (`backend/services/job_service.py`, `main.py`) | `forecast_jobs`, `forecast_snapshots`, settings rows; `JOB_QUEUE`, `_job_store`, worker tasks | submit, claim, run, complete, fail, retain, clear, restart | upload store, pipeline, monitoring, RAG index | no job lost, run twice or resurrected; per-user cap; every accepted job ends |
| Upload store (`services/file_service.py`) | `_file_index`, parquet files, `uploaded_files` rows, reservation counters | store (evicting), get, reserve, release, restart | scheduler | the input of a waiting or running job is never evicted, whatever fails in between |
| Data parsing, preflight, cleaning (`main.py`, `utils/data_parser.py`, `utils/preflight.py`, `utils/data_cleaning.py`, `forecasting/preprocessing.py`) | the upload's temporary file, the series on its calendar, a training window | stream, parse, store, preflight, prepare, train | upload store, backtesting | nothing is made up; a training window does not see what comes after it |
| Known context (`forecasting/known_context.py`) | declared predictors, revisions, events | declare, restrict to a cutoff | backtesting, adapters | a fit uses what was published by its cutoff |
| Model registry (`forecasting/registry.py`) | `model_config` | enable, disable | engine, agents, administrators | at least one model enabled |
| Selection policy (`forecasting/selection_policy.py`) | none (pure) | rank, tie-break, baseline retention | forecasting agent, review | the winner is eligible and close to the best; complexity is earned |
| Forecasting agent (`agents/forecasting_agent.py`, `forecasting/engine.py`) | the call's locals | backtest, resolve loss, select, fit, retry, audit | registry, policy, backtesting, LLM | forced models are never replaced; gives up last |
| Validation design, backtesting, fit cache (`forecasting/backtesting.py`, `engine.py`, `calibration.py`) | folds, `_fit_cache`, fold results | design, fit, score, select, audit, calibrate | adapters | the final test is untouched; scores belong to their origin; the cache stays bounded |
| Selection agent (`agents/model_selection_agent.py`) | the call's locals | prefer, explain, ask, parse, give reasons, synchronise | registry, LLM, forecasting agent | it advises a model that was enabled; who lost is told why |
| Diagnostics, review and report rules (`forecasting/diagnostics.py`, `agents/statistical_*_agent.py`, `report/builder.py`, `rules.py`, `dashboard.py`) | none (pure), switches for the tests | test, flatten, flag, score, advise, summarise | LLM, pipeline | worse evidence never raises confidence; the review keeps its contract; a missing figure stays missing |
| Pipeline (`services/pipeline_service.py`) | stage results, token usage, fallback flags | validate, analyse, select, forecast, review, retry once, report | all agents, LLM, administrators' AI switch | the report is about the forecast that was made; Traditional mode never calls the LLM |
| Forecast monitoring (`services/forecast_monitoring.py`) | issued snapshots, actuals | issue, record, correct, score, compare, purge | scheduler's rows | neither the order of arrival nor of the question decides; an alert rests on data |
| Secret store and LLM configuration (`core/secret_store.py`, `core/llm_config_store.py`) | key file, `llm_config` row, two process caches | generate key, put, get | setup, LLM factory | stored API keys can be decrypted; no outdated configuration |
| First-run setup (`services/setup_service.py`, `frontend/blueprints/setup/`) | users, completion flag, authentication flag, frontend credentials, wizard sessions | wizard pages, bootstrap, restart | secret store, frontend database | one first user; credentials that work |
| API users (`auth/api_key_db.py`, `auth/dependency.py`) and their pages in the frontend | users, keys, owners of files and jobs; the frontend's stored credentials | create, rotate, demote, disable, delete, store the new key | frontend database | the frontend keeps access; nothing is owned by nobody |
| User sessions (`frontend/app.py`, `blueprints/auth/`, user pages, `scripts/user_managment.py`) | account, its `session_version`, browsers' cookies | sign in, change, reset, edit, disable | administrators | what a reset or a new password revokes stays out |
| Forecast and report pages (`frontend/blueprints/main/`, `services/report_service.py`, `report_editing.py`, `static/js/polling.js`) | whole-session copies, saved reports, editors | upload, analyse, poll, fetch, save, edit, delete | backend jobs | the shown report is of the shown result; no edit lost; polling ends |
| Chat, prompts, RAG, LLM clients, renderers, charts, numerical adapters | see section 8 | | | not modelled |

What is hard: request threads, worker coroutines, the retention task and
administrators interleave on the same rows; the process may stop between a file
operation and the row that describes it; a settings row, or the registry, is
read several times in the life of one job; calls to the LLM, fits and file
operations fail one at a time; answers between frontend and backend are lost;
browser tabs overwrite each other's session; evidence passes through many
stages, each of which may drop or misread a missing value. `PROJECT.json` lists
these hazards at the lines where they bite, with the properties that watch them.

## 2. Modules

| Module | Models | Composed with |
|---|---|---|
| `FileReservations` | what the upload store promises the scheduler: stored, evictable, reserved files | interface |
| `FileStore` | `store_file`, `get_file`, `reserve_file`, `release_file`, `init_storage` call by call | implements `FileReservations` through the mapping `Abstract` |
| `JobService` | the scheduler | extends `FileReservations` |
| `DataPreparation` | one table from the upload to a training window | |
| `KnownContext` | what a fit may know of predictors and events | |
| `ForecastMonitoring` | issued forecasts, actuals, the comparison | |
| `ModelRegistry` | the registry; disabling is a check and a write on two connections | |
| `SelectionPolicy` | the deterministic policy and the review's check of it, as operators | |
| `ForecastingAgent` | one call of the forecasting agent | extends `SelectionPolicy` and `ModelRegistry` |
| `ForecastPipeline` | a job's pipeline with its agents, review, retry and report | extends `ForecastingAgent` |
| `ModelAdvice` | one call of the selection agent, step by step | |
| `Diagnostics` | what the diagnostics decide from their statistics, as operators | |
| `ReportEvidence` | review, confidence, recommendations, dashboard, summary, appendix | extends `Diagnostics` |
| `Backtesting` | validation design, rolling origins, shared fit cache, production loop, audit, calibration windows | |
| `SecretConfig` | key file, encrypted configuration row, process caches | |
| `FirstRunSetup` | wizard sessions and the bootstrap | extends `SecretConfig` |
| `ApiUsers` | the backend's API users and the frontend's credentials | |
| `UserSessions` | one account and the browsers signed in to it | |
| `ReportSession` | one user's forecasts and reports in several tabs | |
| `MC*` | the instances TLC checks | |
| `*Proofs`, `FiniteSums` | theorems and proofs, and what they share about sums, least and largest elements | see section 4 |

`MCBackend` (scheduler, setup), `MCData`, `MCFrontend` and `MCForecastingAgent`
(agent, selection agent, evidence and report, backtest) run several modules that
share no state. Each behaviour picks a `part` and moves that one: the interleavings
of two parts would show nothing that one part does not. `PROJECT.json` maps
each definition to the lines it stands for.

### How state and actions correspond to the code

*Scheduler.* A job's row is `status`/`req`/`rowid`; `submit[j]` is where its
`create_job` thread is; `queue`, `cache` and `results` are `JOB_QUEUE`, the keys
of `_job_store` and those whose entry holds a result; `wpc`/`wjob` are the
worker's place in `_run_job` and its job. One action is one SQLite transaction,
one critical section of a lock, or one step of the event loop between two
awaits. `get` from the queue and the claim that follows are one action since
there is no await between them that another worker could observe. Time is
abstracted: retention may delete any set of terminal rows. The startup code runs
before the first request and is idempotent, so a crash in the middle of it is
the crash before it; a graceful shutdown leaves the same durable state as a
crash. `uuid4` freshness is the state `"unused"`.

*Upload store.* Under the store's lock, `store_file` unlinks, deletes the row of
the victim, writes the parquet file and upserts the row in separate actions; a
call may fail (`Fault`) and the process may stop between any two. `get_file`
(lookup, load, return) runs on the event loop without the lock. Reserving and
releasing are one action each: the counter in memory and the one in the row are
reset together at a restart. To the scheduler an upload is `StoreFile` or
`EvictFile`, and a restart finds some of the files that were there (`Found`).

*Data preparation.* A timestamp is a day or `Missing`; weeks and months are a
length and an anchor, periods of weeks end and those of months start on a
multiple. `Stream`, `Receive`, `Preflight` and `Prepare` are the requests and
the job's own preparation, with the order of their refusals and the removal of
the temporary file. `Resolved` leaves a table without repeated stamps alone, as
`resolve_duplicates` does, and otherwise resolves all of its stamps. Values are
numbers scaled so that means and interpolations stay whole. A window is cleaned
by `Training(frame, cutoff)`: outliers (`Fence`, `Treated`), gaps (`Imputed`),
smoothing (`Smoothed`: `Averaged` is `ewm`, `Fitted` the parabola of
`savgol_filter`). Rounding is that of whole numbers in units of 1/`Scale`, and the
Box-Cox or Yeo-Johnson transform of the cleaned window is left out.

*Known context.* A declaration gives each predictor, per stamp, nothing, a value
or a set of revisions; `AsOf(declared, cutoff)` is what `known_context.py` hands
to a fit, a refusal included. One declaration serves every fold.

*Forecasting.* Losses are naturals with `Missing` last, thresholds (1.05, 1.10,
1.5) are cross-multiplied. The outcome of the backtests is a member of the
constant `Evidences` in `ForecastingAgent`; how it comes about is `Backtesting`.
An exception of the audit after the winner is frozen is not modelled.

*Pipeline.* Each agent is the action of its stage: whether it may call the LLM,
whether the call is answered, and what is handed on. The call is atomic with
`get_llm`, except in the report writer, which builds one client for all
sections. The retry may see other evidence than the first attempt (in the code
the backtests are deterministic): the model has more behaviours than the code.
Charts and rendering are best effort and have no outcome.

*Selection agent.* One action per read of the registry, with `ChangeLineup` of
an administrator between any two. An answer of the LLM is the set of models its
first line names exactly and the set it mentions; the code takes the first match
in its own order. A reason is the name of the rule that gives it.

*Diagnostics and report.* The statistics (p-values, spectra, thresholds of the
permutation test) are inputs; the decisions taken from them, the flattening to
`StatisticalResult`, the flags of the review, its merge with the answer of the
LLM, and every deterministic rule of the report are operators. A sentence is the
name of its rule. Percentages and ratios are cross-multiplied.

*Backtesting.* A fit is known by its method, horizon and training window;
numbers are left out, and with them the hash of the values in the cache key (a
constant series makes all hashes equal: the worst case is modelled). The gap is
0 and `max_train_size` is unset since no caller sets them. `np.linspace(...,
dtype=int)` may floor an exact interior point one too low, which the model
leaves open (`low`).

*Monitoring.* Time is counted in periods and a forecast is flat; a comparison
reads its jobs one by one, so the rows may change between two reads. `Sorted` is
the list of the records by (origin, issue time, id); from `Vintages` on, where
each origin has one record, a list ordered by origin is the set of its records,
an ending of it is `Since(S, origin)`, and a window is such an ending.

*Setup.* A key is named after the thread that generated it. A session of the
wizard has at most one backend request at a time; pages may be visited in any
order the wizard allows. `Legacy` are users of deployments older than the
wizard. Crash and startup are one step.

*Frontend.* Flask-Session loads the whole session at the start of a request and
stores it whole at the end: a request is a copy of it (`request[t].copy`) that
moves through `handle`, `fetch`, `save`, `insert`, `write` and `answer` and is
written back by `End`; a worker killed by gunicorn loses it (`Killed`). Saving
and editing take SQLite's write lock (`BEGIN IMMEDIATE`) between the read that
decides and the write. An account's `session_version` is counted up by whoever
changes the password, the active flag or forces a reset; `change_password`
updates the row (`UpdatePassword`), reads the version back (`SelectVersion`) and
stores the session (`StoreSession`) in three steps that other browsers and
administrators interleave with. `revoked` and `proved` are history. On the
API-user pages, listing, acting and storing the answer are separate calls, each
of which may be lost (`PageLost`); `api_key_delete` asks for the stored
credentials again once its guard has passed (`Reread`).

## 3. Runs

| Run | Instance | What it shows |
|---|---|---|
| `scheduler_safety` | 2 jobs, 2 workers, 2 files in a store of 1, cache of 1, cap 1..2, LLM switch, 1 crash; apart from it, 2 wizard sessions which also store LLM configurations, lost answers, restarts, legacy users; 2,418,757 states up to symmetry | the scheduler's safety and action properties; decryptable keys, coherent cache, one first user, credentials that stay |
| `scheduler_liveness` | 2 jobs of one user under a cap of 1, eviction, 1 crash; 222,705 states | every accepted job ends |
| `indexing_demotes_done_job` | violation | an unexpected exception while indexing turns a done job into a failed one |
| `data` | a store of 1 with 3 uploads, 2 readers, 2 holders, 2 failing calls, 2 process stops; tables of every irregularity under six sets of options; a predictor with revisions at every cutoff; up to four issued forecasts; 736,533 states | failure and crash safety of the store and its refinement of `FileReservations`; nothing is made up and nothing is known too early; comparisons do not depend on the order |
| `model_registry_race` | violation | two threads disable the last two models |
| `forecasting_agent` | the agent over 5 procedures, losses on both sides of the thresholds, failing folds and fits, an administrator; the selection agent with a moving registry; evidence, review and report over regular, short, constant and broken series; the backtest of every series up to 24 observations with fitting and unfitting horizons, seasons, cadences, maxima, of 4 procedures sharing a cache of 10 numbers, with 2 failures; 3,293,208 states | what the policy chooses and the review accepts, what is advised and why, that reports do not reward worse evidence; the design of the folds, disjoint calibration windows, scores of their own origin |
| `pipeline` | Auto, forced, Traditional and refused jobs, an administrator, the AI switch; 1.2 million states | the result agrees with what was done, every job ends |
| `false_zero_demand` | violation; the tables of `data` | missing values become demand of zero when repeated dates are summed |
| `late_llm_call` | violation | the report writer calls the LLM after AI was switched off |
| `undefined_mape` | violation | a job whose MAPE is undefined fails when its report is built |
| `frontend` | four scenarios of two tabs; one account in two browsers, two passwords; two API users and two pages; 930,609 states | reports are of their results, revoked sessions stay out, the frontend keeps its access, polling ends |
| `reset_overtaken` | violation; the sessions of `frontend` | a change of password under way keeps its session signed in across a reset |

### Bounds, and why they suffice

*Scheduler.* Two jobs, two workers and one crash meet in every pair of places,
the store of one file makes every upload evict, the cache of one entry makes
every second job evict, and the two values of the cap let it fall below the
number of running jobs. Ids and rows are never reused, so a third job adds no
new kind of pair.

*Store.* Two crashes let a restart find what another restart left behind; the
second crash may hit any place. Two failing calls may fall into one eviction,
after which the store holds more than its capacity (section 7). Three uploads
into a room for one are needed to evict after that.

*Data preparation.* Weeks have 3 days and months 6, so that seven tables of up
to four rows cover a regular calendar, an off-anchor start, repeated stamps, a
gap, an inferable step, an unreadable date and no date; with values of 12, 60
and missing. The six option sets use every resolution of repeated stamps (sum,
mean, latest, keep-first), every aggregation, every treatment of gaps (forward
fill; interpolation, also under the name drop), outliers (none, IQR clipping,
removal, z-score clipping) and noise (none, `ewma`, `savgol`), and the
frequencies inferred, daily and weekly; months occur where they are inferred,
and quarters and years, which are longer periods of the same kind, not at all.
The sets do not combine every value with every other: the theorems do.

*Known context.* Three published days, cutoffs before and after each, and
entries with no, one, several and malformed revisions.

*Monitoring.* The thresholds (5 vintages, 20 observations, 20 dates in the code)
are 1, 2 and 2, which four forecasts of one or two periods reach. The five plans
hold a reissue of one origin, two lengths, overlapping dates, differing terms
and a purge.

*Forecasting.* The five losses lie on both sides of both thresholds and include
zero; two losses may rank models in any two orders. The four line-ups an
administrator leaves contain nearly all models, one of the heuristics, and one
outside them. In the pipeline one narrative section stands for all: each is
written like the next, and `late_llm_call` uses two.

*Backtesting.* The length 24 is beyond every clamp of the design for the
horizons used, and makes the sampled origins round. The scaled-down budget of
the cache (2 paths, 10 numbers, 4 entries for 2000, 1,000,000 and 64) makes the
capacity smaller than the number of fits, which the original would need a
horizon of hundreds for.

*Setup.* Two threads and two versions contend for every step of key generation
and caching; a restart may come at any of them.

*Frontend.* A scenario (`Use`) says which operations a tab may start, since all
at once would be too many: a second job beside a slow page, a second upload
while both tabs poll, two jobs polled by both, both editing. One job more than
the files, a limit of 1 or 2, and one report in the editors of both tabs make
saves and edits collide. `MaxVersion = 4` allows two changes and a reset in any
order; two keys beyond the first let two rotations overlap.

`CHECK_DEADLOCK FALSE` is used where the system really stops: all job ids are
used up, the call, evaluation or part has ended. (The wizard never stops, a
restart being possible at any time.) The proofs remove the bounds
for everything they cover.

### Fairness

`scheduler_liveness`: weak fairness of each request thread, each worker's step
and the restart: threads and coroutines are run until they end, a pipeline run
is a finite computation (`pipeline`'s `RunEnds`), and the container is
restarted. Nothing is assumed of administrators, uploads or retention.

`pipeline`: weak fairness of the job's own next step only; the LLM client has a
timeout.

`frontend`: weak fairness of the timer of the progress page, of a request that
has begun, and of the backend's jobs, whose end is what `scheduler_liveness`
shows. Nobody has to submit, leave a page, or be killed, and a worker may be
killed at any time.

The other specifications state safety only: nobody has to finish the wizard or
send actuals.

## 4. Proofs

All are checked by TLAPS for arbitrary constants under the named assumptions of
the modules (`JobAssumption`, `AgentAssumption`, ...), which TLC evaluates on
the instances of section 3. Every safety invariant, action property and
refinement that a passing run checks is proved; liveness is model-checked only.

* `JobServiceProofs`: type correctness, `QueueSound`, `NoPendingJobLost`,
  `RunningHasOneWorker`, `OneWayLife`. None of them is inductive alone: the
  invariant relates each place of a worker and of a request thread to the row of
  its job (a worker between claim and terminal update has a running row that is
  not queued and no other worker's; rows of finished threads are pending only
  while queued), and says that everything volatile is empty while the process is
  down. In its second half the data: `ClaimRespectsCap`, `SnapshotsMatchRows` (a
  worker that has saved still has its row or its snapshot went with it),
  `TraditionalRunsForcedModel`; `ReservationsExact` by counting: each step adds
  or removes one holder of one file, or none; `InputNotEvicted` from it; and that
  every step of the scheduler is a step or a stutter of `FileReservations`.
* `ForecastPipelineProofs`: the arithmetic of the policy (`NearBest` is
  1.05 x 1.10, `ComplexEarnsItsPlace`), that a retry keeps the exclusions, and
  `ReviewAgrees`: 1.155 < 1.5, so that the review can never overrule a
  deterministic selection. `OneThreadKeepsAModel`: with at most one
  administrator thread a model stays enabled; a passed check stays valid until
  its write (`CheckStillValid`), which with two threads it does not, as
  `model_registry_race` shows. The agent's invariant is then carried through the
  pipeline: `PolicyHasTheLastWord` (the review has nothing to overrule a
  selection of the policy with), `ReportMatchesForecast`, `TraditionalIsLlmFree`,
  `UsageComplete` (the calls of two attempts are an account that each agent's
  first call and the final merge keep balanced) and the types.
* `EvidenceProofs`: what surrounds a forecast. `AdvisedWasEnabled`: at each
  action the favourite of a read is enabled at that moment, and what the
  question, the answer and the explanation hand on was a favourite or is checked
  against the registry again. `OnlyLosersHaveReasons` for every sequence of
  registry states, questions and answers. `ReviewKeepsContract`: the only
  critical finding under the policy is that it was violated, so without the LLM
  a review warns at most, and what the merge with an answer keeps of the code's
  findings is a comparison of severities. `WorseNeverBetter`: the score is a
  hundred minus what the signals cost. Making a signal worse adds its cost; it
  may silence a flag of the review, but a flag costs only what no signal has
  paid for (`WarnsOfUnpaid`), and the one it silences is cheaper than itself
  (`CostsOfNames`, `WorseCostsMore`).
* `BacktestingProofs`: the design of the folds for every length, horizon, season,
  cadence and maximum (`ReserveUntouched`, `OriginsSpread`, `FullHorizonAudit`,
  `EnoughHistory`, `TwoOriginsByDefault`), and for every set of procedures and
  every cache size `FitsOfTheirOrigin`, `CommonTargets`, `CacheWithinBudget`.
  `CalibrationDisjoint`: what the loop has taken after n folds is disjoint and
  maximal among them (`Calibrates`), by the least n for which it would not be.
* `DataProofs`: for the store, `StoreInv`. An id that a client has and that is in
  the index has its row and its parquet file (`Backed`), the reservations of the
  jobs are counted (`Accounted`), and what the holder of the lock is changing is
  in neither (`LockSound`). From it `ReservedReadSucceeds`, and the refinement
  `ImplementsReservations` by a simulation: of the many steps of an eviction one
  is the abstract `EvictFile`, of those of an upload one is `StoreFile`, a
  restart is the abstract restart, the rest stutter. `NoLookAhead`: what
  `AsOf` yields at a cutoff is unchanged when everything published later is
  removed from the declaration. `TrainingIsBlind`: outlier fences, their
  treatment, the filling of gaps and smoothing read `UpTo(frame, cutoff)` only.
  `NothingInvented`: the period of a day lies on the grid of its frequency and
  the grid runs from the first period to the last (`PeriodIs`, `PeriodOnGrid`),
  so each stamp is in just one period of the frame; the amounts summed by stamp,
  and the stamps summed by period, are the amounts summed (`SumByGroups`).
  `OrderIrrelevant`: the records of different jobs are strictly ordered, so each
  place of the sorted list is taken by one of them (as many places as records,
  and no two on one: `EveryPlaceIsTaken`), and the vintages that count are those
  of the set of records, in whatever order it was listed (`VintagesAre`).
  `EvidenceGrows`: among fully observed records, being enough is a question
  about their jobs alone (`EnoughIs`) that more jobs never answer worse
  (`MoreIsEnough`); so with one more actual the later window starts no earlier,
  which leaves at least as much for the earlier one (`MoreIsReady`).
* `SetupProofs`: `CipherReadable`, `CacheCoherent` for any number of threads and
  restarts (a key that was used is the one on disk, and a cached row with the
  current version is the current row), again as properties of the setup, which
  takes steps of both; the setup properties for any number of sessions.
* `FrontendProofs`: three invariants. `SessionsInv`: no cookie is newer than
  the account, nor is a version that a call has read and is about to store, and
  what is as new as the account has not been revoked since it was read. `AccessInv`: what a page has learned of its target stays true while
  it waits, since names are never changed and ids never given again, and one
  user backs the stored credentials with the stored key or the one a page is
  about to store. `ReportInv`: every copy of the session agrees with the jobs
  and the reports on its own, whichever is written back last (`CopyFits`), and a
  request holds the lock from its read to its write (`StepFits`). They prove
  `RevokedStaysOut`, `FrontendKeepsAccess`, `OwnersExist`, `ReportIsOfResult`,
  `SavedUnderItsFile`, `WithinLimit` and `NoEditLost` for any number of tabs,
  browsers, jobs, pages and users.

`FiniteSums` holds the lemmas all of this keeps needing. The induction theorems
of the library take an operator, which the provers cannot instantiate; an
induction over data is done here by its least counterexample instead, which is a
set: a non-empty set of numbers has a least member, a finite one a largest, and
a non-empty set of subsets of a finite set a smallest (`LeastNumber`,
`LargestNumber`, `SmallestSubset`). On this rest what `SumFunctionOnSet` of the
community modules is (`SumEquation`: the fold it is defined by has a solution),
how sums change with their set and their function, and `SumByGroups`. The
recursive function `Chosen` of `Backtesting` is bounded by the folds so that it
has such an equation too, and the assumptions on the constants are that tables
have rows, stamps and values of the right sort, that there are finitely many
jobs, and that origins are numbers.

Some properties are proved and not repeated in a run, which is kept for what is
hard to prove or deep: `ClaimRespectsCap`, `SnapshotsMatchRows`,
`TraditionalRunsForcedModel`, `NearBest`, `RankedOnKnownLoss`, `UsageComplete`,
`OriginsSpread`, `FullHorizonAudit`, `TwoOriginsByDefault`, `CommonTargets`,
`CacheWithinBudget`, `CredentialsWork`, `SuccessMeansAuth`, `GivesUpLast`,
`ForcedNeverSubstituted`, `EnoughHistory`, `CompleteWithUser`, and the type
invariants, which are conjuncts of the inductive ones.

Only model-checked:

* liveness (`AcceptedJobFinishes`, `RunEnds`, `PollingEnds`): the prover has no
  rules for fairness or `ENABLED`;
* what the decisions of `Diagnostics` compute (change points, periods,
  stationarity): no property is about them alone; `WorseNeverBetter` and
  `ReviewKeepsContract` are proved for whatever they return;
* what sorting by `SortSeq` and selecting by `SelectSeq` return: the provers do
  not know these operators. `ForecastMonitoring` therefore sorts by places and
  selects sets, which they can reason about; the quartiles of `DataPreparation`
  keep `SortSeq`, and `TrainingIsBlind` is proved without a look at its result;
* the six sentences of section 5, which do not hold.

## 5. Findings

Six runs end in a counterexample to a sentence of the repository's own
documentation (`PROJECT.json`, "findings"):

1. `index_analysis_results` is documented not to be job-critical, but an exception
   type it does not catch reaches the handler that marks the finished job as
   failed (`job_service.py:485`, `:446`).
2. `set_model_enabled` checks on one connection and writes on another; two
   requests in threadpool threads leave no model enabled (`registry.py:132`).
3. `get_llm` is documented to convert not-yet-dispatched calls to fallbacks when
   AI is disabled; the report writer keeps its client for the remaining sections
   (`llm_factory.py:50`, `narrative.py:108`).
4. MAPE is documented to be unavailable, with a reason, when a scored actual is
   zero; the appendix rounds it without looking, and the job fails after its
   forecast has been made (`docs/architecture-and-methodology.md:161`, `:164`,
   `builder.py:2038`).
5. Aggregation is documented to leave empty periods missing "rather than becoming
   false zero demand". As soon as one timestamp of the table repeats, the sum of
   `resolve_duplicates` makes every timestamp with a missing value a zero, the
   unrepeated ones too, before the aggregation sees them
   (`docs/architecture-and-methodology.md:54`, `data_cleaning.py:382`).
6. A password reset is documented to invalidate existing sessions. `change_password`
   reads `session_version` back after its update: a reset, or a second change,
   committed in between is adopted with its version, and the session that proved
   an older password stays signed in (`docs/user-management-scripts.md:95`,
   `auth/routes.py:157`). `RevokedStaysOut` says what holds nevertheless.

## 6. Abstract specification

`FileReservations` is what the scheduler may rely on: a reserved file is stored
until it is released, an eviction takes an unreserved file, one id is never
issued twice, a restart forgets the reservations and finds some of the files.
`FileStore` is shown to implement it, by TLC and by proof, through
`Abstract == INSTANCE FileReservations WITH files <- Life, active <- Reserved`: a
file counts as stored while a client has its id and the index has the file. The
scheduler is shown to use it as intended (`UsesFilePromises`), so that what the
scheduler's theorems say of its inputs holds with the real store.

The capacity `MAX_INMEMORY_FILES` is not a promise of `FileReservations`, because
the store does not keep it: an eviction whose unlink and row deletion both fail
leaves a file that the next start finds again.

## 7. Behaviour to know about

Met while modelling, and left without a run of their own. Scheduler, store and
setup:

* a job reads "done" before its result is cached, after its entry is evicted and
  after a restart (`get_job`), and a late result re-creates an evicted entry
  without evicting another;
* "clear history" selects ids and deletes by status: a job that completes in
  between keeps a cached result without a row until the next restart;
* a stop between the parquet write and the row leaves a file that no restart
  removes; two failing calls in one eviction leave the store above its capacity
  from the next start on;
* a stop between the creation and the filling of the key file leaves an empty key
  that is kept by every later call;
* the answer of a bootstrap may be lost after its commit: setup is complete and
  the frontend has no credentials; a bootstrap that loses the race for the key
  file is answered with an error although setup is complete;
* a requested cadence coarser than the range of origins leaves one origin, with
  which no procedure can be ranked.

Data and monitoring:

* "latest" and "keep-first" may keep a missing value where another row of the stamp
  has one; the false zeros of "sum" are finding 5, and `NothingInvented` allows for
  them (`FalseZero`) to say that nothing else is made up;
* a table that preflight calls regular may be refused later: preflight accepts
  one repeated interval of any length (`preflight.py:376`), the preparation a
  calendar grid (`data_cleaning.py:53`);
* a comparison reads each job in transactions of its own: a correction between
  two reads is in one of them, and a job purged between the two reads of it
  is answered with 422 instead of 404 (`forecast_monitoring.py:166-172`).

Evidence and report:

* a test that could not be run counts like one that did not reject: without an
  ADF p-value a series reads as non-stationary, and when all four tests fail as
  "conflicting" (`diagnostics.py:479`; its docstring's "not_estimable" is never
  reached), although `docs/architecture-and-methodology.md:111` wants missing
  evidence not to count as negative;
* the seasonal period is taken from the frequency even when the strength was
  measured at another (`diagnostics.py:322`); segments at the ends of a series may
  be shorter than the minimum (`:761`);
* missing metrics of models that did not win are shown as 0.0 in the appendix
  (`builder.py:2044`); a flat forecast is "Upward"; the summary and the dashboard
  choose their first action by different rules (`builder.py:1904`,
  `dashboard.py:182`);
* the reason for not choosing Prophet is the selection agent's own and never
  brought in line with the forecast (`pipeline_service.py:424-499`);
* SARIMA named by the LLM is read as ARIMA when it was disabled meanwhile;
* the fallback banner is computed from the report writer only.

Frontend:

* a request writes its whole copy of the session back: a slow one restores what
  another tab has cleared;
* a report is saved twice when two tabs, or a killed worker and the next poll,
  fetch one result; and with the settings the session holds then, which may have
  been changed since the job was submitted (`main/routes.py:904-911`);
* a poll that gives up drops the job from the session; its result is then
  computed and never saved;
* a change of password that was admitted before a reset writes its own password
  over the one the reset has set, and its browser stays signed in
  (`auth/routes.py:148`);
* the frontend can lock itself out of its backend, and `mishap` names the ways: a
  lost answer to a key rotation, overlapping rotations, credentials replaced under
  a page in flight, switching its own user off (which `api_key_toggle` does not
  guard), and a list of users that fails, after which `api_key_delete` deletes the
  user although its docstring "Prevents deletion of the API user whose credentials
  are currently stored" (`admin/routes.py:1554`). `FrontendKeepsAccess` says there
  is no other way.

## 8. Not modelled

Everything in the plan of this project has been written: scheduler, store and
refinement; registry, policy, agent, pipeline; secrets and setup; backtesting;
frontend; data, context and monitoring; advice, diagnostics and report. What is
left is left for a reason:

* *SQLite errors inside the scheduler* and the wake-up of an idle event loop by
  `put_nowait` from another thread: the first has no handling to model (the
  worker task ends), the second is a property of the interpreter's event loop.
  Both are listed as hazards.
* *Chat* is one request over a stored result, without state of its own.
* *LLM clients, prompts, URL allow-list, token tracking*: selection of a provider
  and texts; the gate that decides whether a call is made is in
  `ForecastPipeline`.
* *RAG*: indexing is a step of the scheduler that may fail; retrieval is a read of
  an external store.
* *Model adapters, metrics, statistics*: floating-point computations of
  libraries. A fit succeeds or raises; a loss, a p-value or a strength is given.
* *Renderers, charts, the wording of reports*: layout and text.
* *File formats, encodings, column detection and the default answers of an
  interactive preflight*: parsing without state.
* *Frontend pages* that show what the backend says, or pass one setting on.
