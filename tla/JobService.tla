------------------------------ MODULE JobService ------------------------------
(***************************************************************************)
(* The forecast job scheduler: services/job_service.py and the parts of    *)
(* main.py that drive it (POST /analyze, the lifespan, the admin job       *)
(* endpoints), over the file store's promises (FileReservations).          *)
(*                                                                         *)
(* Actors that interleave:                                                 *)
(*   - one request thread per submitted job (create_job),                  *)
(*   - the worker coroutines (job_worker, _run_job), whose pipeline,       *)
(*     snapshot and indexing calls run in other threads,                   *)
(*   - uploads, the admin's settings and "clear history" threads, the      *)
(*     daily retention task,                                               *)
(*   - the process itself, which may stop at any point and be restarted.   *)
(* One action is one SQLite transaction, one critical section of a lock,   *)
(* or one step of the event loop between two awaits.                       *)
(***************************************************************************)
EXTENDS FileReservations, Sequences

CONSTANTS Jobs,            \* job ids (uuid4)
          Users,           \* application users
          Workers,         \* settings.MAX_CONCURRENT_JOBS job_worker tasks
          Requests,        \* the POST /analyze requests considered
          CapChoices,      \* values an admin gives max_running_jobs_per_user
          CleanupChoices,  \* values an admin gives cleanup_enabled
          LlmChoices,      \* values an admin gives llm_enabled
          MaxJobs,         \* settings.MAX_INMEMORY_JOBS
          MaxCrashes,      \* bound: process stops per behaviour
          NoJob, NoRequest \* "no value" markers

\* user, admin: the application user on whose behalf the job runs;
\* forced: the request names a model; trad: it asks for Traditional mode.
Request == [user : Users, admin : BOOLEAN, file : Files,
            forced : BOOLEAN, trad : BOOLEAN]

ASSUME JobAssumption ==
    /\ IsFiniteSet(Jobs)
    /\ NoJob \notin Jobs /\ NoRequest \notin Request
    /\ Requests \subseteq Request
    /\ CapChoices \subseteq Nat \ {0}        \* ForecastJobSettings: ge=1
    /\ CapChoices # {}
    /\ CleanupChoices \subseteq BOOLEAN
    /\ LlmChoices \subseteq BOOLEAN
    /\ MaxJobs \in Nat \ {0}
    /\ MaxCrashes \in Nat

VARIABLES
    \* Durable: the SQLite database.
    status,     \* forecast_jobs.status; "absent" when there is no row
    req,        \* forecast_jobs: the columns written at insertion
    rowid,      \* insertion order of the rows (0 before insertion)
    snapshots,  \* jobs with a forecast_snapshots row
    cap,        \* forecast_job_settings.max_running_jobs_per_user
    cleanup,    \* forecast_job_settings.cleanup_enabled
    llm,        \* system_settings.llm_enabled
    \* In memory: lost when the process stops.
    up,         \* the process serves requests
    submit,     \* where each job's create_job thread is
    queue,      \* JOB_QUEUE
    cache,      \* keys of _job_store in insertion order
    results,    \* cached jobs whose entry holds a result
    wpc, wjob,  \* each worker's place in _run_job and its job
    wtrad,      \* the effective mode _run_job computed
    clearPc, clearSet,  \* the clear_terminal_jobs thread
    \* Bookkeeping of the model.
    crashes

rowVars    == <<status, req, rowid, snapshots>>
setVars    == <<cap, cleanup, llm>>
queueVars  == <<submit, queue>>
cacheVars  == <<cache, results>>
workerVars == <<wpc, wjob, wtrad>>
clearVars  == <<clearPc, clearSet>>
procVars   == <<up, crashes>>
vars == <<files, active, rowVars, setVars, queueVars, cacheVars, workerVars,
          clearVars, procVars>>

Terminal  == {"done", "error"}
Status    == {"absent", "pending", "running"} \cup Terminal
SubmitPc  == {"unused", "inserted", "reserved", "cached", "ended"}
WorkerPc  == {"idle", "claimed", "loaded", "pipeline", "ran", "saved",
              "completed", "indexing", "failing", "releasing"}

InQueue(j)   == \E i \in 1..Len(queue) : queue[i] = j
Cached(j)    == \E i \in 1..Len(cache) : cache[i] = j
RunningOf(u) == {j \in Jobs : status[j] = "running" /\ req[j].user = u}

TypeOK ==
    /\ FilesTypeOK
    /\ status \in [Jobs -> Status]
    /\ req \in [Jobs -> Request \cup {NoRequest}]
    /\ \A j \in Jobs : submit[j] # "unused" => req[j] \in Request
    /\ rowid \in [Jobs -> Nat]
    /\ snapshots \subseteq Jobs
    /\ cap \in CapChoices /\ cleanup \in BOOLEAN /\ llm \in BOOLEAN
    /\ up \in BOOLEAN
    /\ submit \in [Jobs -> SubmitPc]
    /\ queue \in Seq(Jobs) /\ cache \in Seq(Jobs) /\ results \subseteq Jobs
    /\ wpc \in [Workers -> WorkerPc]
    /\ wjob \in [Workers -> Jobs \cup {NoJob}]
    /\ \A w \in Workers : wpc[w] = "idle" <=> wjob[w] = NoJob
    /\ wtrad \in [Workers -> BOOLEAN]
    /\ clearPc \in {"idle", "selected", "deleted"} /\ clearSet \subseteq Jobs
    /\ crashes \in 0..MaxCrashes
-----------------------------------------------------------------------------
Init ==
    /\ FilesInit
    /\ status = [j \in Jobs |-> "absent"]
    /\ req = [j \in Jobs |-> NoRequest]
    /\ rowid = [j \in Jobs |-> 0]
    /\ snapshots = {}
    /\ cap \in CapChoices /\ cleanup \in CleanupChoices /\ llm \in LlmChoices
    /\ up = TRUE
    /\ submit = [j \in Jobs |-> "unused"]
    /\ queue = <<>> /\ cache = <<>> /\ results = {}
    /\ wpc = [w \in Workers |-> "idle"]
    /\ wjob = [w \in Workers |-> NoJob]
    /\ wtrad = [w \in Workers |-> FALSE]
    /\ clearPc = "idle" /\ clearSet = {}
    /\ crashes = 0
-----------------------------------------------------------------------------
(***************************************************************************)
(* Uploads (POST /upload): an upload stores its file, and makes room for it *)
(* first when it must, also when it then fails.                            *)
(***************************************************************************)
Upload(f) ==
    /\ up
    /\ StoreFile(f) \/ EvictFile(f)
    /\ UNCHANGED <<rowVars, setVars, queueVars, cacheVars, workerVars,
                   clearVars, procVars>>

(***************************************************************************)
(* POST /analyze and create_job, run in a thread of their own.             *)
(***************************************************************************)

\* Traditional mode, asked for or imposed by the deployment switch, needs a
\* model (resolve_traditional_mode, and again _run_job).
Traditional(r) == r.trad \/ ~llm

Runnable(r) == Traditional(r) => r.forced

\* analyze: the mode is settled and the file must be in the store; then
\* _insert_job.
Submit(j, r) ==
    /\ up /\ submit[j] = "unused"
    /\ files[r.file] = "stored"
    /\ Runnable(r)
    /\ req' = [req EXCEPT ![j] = [r EXCEPT !.trad = Traditional(r)]]
    /\ status' = [status EXCEPT ![j] = "pending"]
    /\ rowid' = [rowid EXCEPT
                   ![j] = 1 + Cardinality({k \in Jobs : submit[k] # "unused"})]
    /\ submit' = [submit EXCEPT ![j] = "inserted"]
    /\ UNCHANGED <<fileVars, snapshots, setVars, queue, cacheVars, workerVars,
                   clearVars, procVars>>

\* reserve_file succeeds, or the file was evicted since the check and the
\* row is closed with _set_job_error before ValueError is raised.
ReserveInput(j) ==
    /\ submit[j] = "inserted"
    /\ LET f == req[j].file IN
       \/ /\ ReserveFile(f)
          /\ submit' = [submit EXCEPT ![j] = "reserved"]
          /\ UNCHANGED status
       \/ /\ files[f] # "stored"
          /\ status' = [status EXCEPT ![j] = "error"]
          /\ submit' = [submit EXCEPT ![j] = "ended"]
          /\ UNCHANGED fileVars
    /\ UNCHANGED <<req, rowid, snapshots, setVars, queue, cacheVars, workerVars,
                   clearVars, procVars>>

\* _evict_cached_terminal_jobs pops the oldest keys, whatever their jobs'
\* status, until the new entry fits; one critical section of the lock.
CacheEntry(j) ==
    /\ submit[j] = "reserved"
    /\ LET excess == IF Len(cache) >= MaxJobs THEN Len(cache) - MaxJobs + 1 ELSE 0
           kept   == SubSeq(cache, excess + 1, Len(cache))
       IN  /\ cache' = Append(kept, j)
           /\ results' = {k \in results : \E i \in 1..Len(kept) : kept[i] = k}
    /\ submit' = [submit EXCEPT ![j] = "cached"]
    /\ UNCHANGED <<fileVars, rowVars, setVars, queue, workerVars, clearVars,
                   procVars>>

\* JOB_QUEUE.put_nowait, then the response.
Enqueue(j) ==
    /\ submit[j] = "cached"
    /\ queue' = Append(queue, j)
    /\ submit' = [submit EXCEPT ![j] = "ended"]
    /\ UNCHANGED <<fileVars, rowVars, setVars, cacheVars, workerVars, clearVars,
                   procVars>>
-----------------------------------------------------------------------------
(***************************************************************************)
(* job_worker and _run_job.                                                *)
(***************************************************************************)

\* The conditions under which the _claim_job transaction commits.
Claimable(j) ==
    /\ status[j] = "pending"
    /\ req[j].admin \/ Cardinality(RunningOf(req[j].user)) < cap

\* Mutant: the job id is not put back.
DropUnclaimed(j) == queue' = Tail(queue)
Requeue(j) == queue' = Append(Tail(queue), j)

\* JOB_QUEUE.get, then a successful _claim_job.
Claim(w) ==
    /\ up /\ wpc[w] = "idle" /\ queue # <<>>
    /\ Claimable(Head(queue))
    /\ status' = [status EXCEPT ![Head(queue)] = "running"]
    /\ queue' = Tail(queue)
    /\ wpc' = [wpc EXCEPT ![w] = "claimed"]
    /\ wjob' = [wjob EXCEPT ![w] = Head(queue)]
    /\ UNCHANGED <<fileVars, req, rowid, snapshots, setVars, submit, cacheVars,
                   wtrad, clearVars, procVars>>

\* A job that cannot be claimed goes to the back of the queue and the worker
\* sleeps before it takes the next one.
Defer(w) ==
    /\ up /\ wpc[w] = "idle" /\ queue # <<>>
    /\ ~Claimable(Head(queue))
    /\ Requeue(Head(queue))
    /\ UNCHANGED <<fileVars, rowVars, setVars, submit, cacheVars, workerVars,
                   clearVars, procVars>>

Goto(w, pc) == wpc' = [wpc EXCEPT ![w] = pc]

\* get_file: the parquet file loads, or it is missing or unreadable.
LoadInput(w) ==
    /\ wpc[w] = "claimed"
    /\ \/ files[req[wjob[w]].file] = "stored" /\ Goto(w, "loaded")
       \/ Goto(w, "failing")
    /\ UNCHANGED <<fileVars, rowVars, setVars, queueVars, cacheVars, wjob, wtrad,
                   clearVars, procVars>>

\* The deployment switch is read again: an Auto job that can no longer use
\* the LLM fails instead of silently choosing a model.
ChooseMode(w) ==
    /\ wpc[w] = "loaded"
    /\ wtrad' = [wtrad EXCEPT ![w] = Traditional(req[wjob[w]])]
    /\ Goto(w, IF Runnable(req[wjob[w]]) THEN "pipeline" ELSE "failing")
    /\ UNCHANGED <<fileVars, rowVars, setVars, queueVars, cacheVars, wjob,
                   clearVars, procVars>>

\* run_pipeline in a thread returns a result or raises.
Pipeline(w) ==
    /\ wpc[w] = "pipeline"
    /\ Goto(w, "ran") \/ Goto(w, "failing")
    /\ UNCHANGED <<fileVars, rowVars, setVars, queueVars, cacheVars, wjob, wtrad,
                   clearVars, procVars>>

\* save_snapshot: INSERT OR IGNORE; it raises when the forecast holds a
\* non-finite number or the job row is gone (foreign key).
SaveSnapshot(w) ==
    /\ wpc[w] = "ran"
    /\ \/ /\ status[wjob[w]] # "absent"
          /\ snapshots' = snapshots \cup {wjob[w]}
          /\ Goto(w, "saved")
       \/ /\ Goto(w, "failing")
          /\ UNCHANGED snapshots
    /\ UNCHANGED <<fileVars, status, req, rowid, setVars, queueVars, cacheVars,
                   wjob, wtrad, clearVars, procVars>>

\* Mutant: an upsert brings a deleted row back.
UpsertStatus(j, s) == status' = [status EXCEPT ![j] = s]

\* UPDATE ... WHERE job_id = ?: nothing happens to a row that is gone.
SetStatus(j, s) == status' = [status EXCEPT ![j] = IF @ = "absent" THEN @ ELSE s]

CompleteJob(w) ==
    /\ wpc[w] = "saved"
    /\ SetStatus(wjob[w], "done")
    /\ Goto(w, "completed")
    /\ UNCHANGED <<fileVars, req, rowid, snapshots, setVars, queueVars, cacheVars,
                   wjob, wtrad, clearVars, procVars>>

\* _job_store.setdefault(job_id, {})["result"]: no eviction here.
CacheResult(w) ==
    /\ wpc[w] = "completed"
    /\ cache' = IF Cached(wjob[w]) THEN cache ELSE Append(cache, wjob[w])
    /\ results' = results \cup {wjob[w]}
    /\ Goto(w, "indexing")
    /\ UNCHANGED <<fileVars, rowVars, setVars, queueVars, wjob, wtrad, clearVars,
                   procVars>>

\* index_analysis_results: success and the four caught exception types go
\* on; any other exception reaches the handler of the whole run.
IndexResults(w) ==
    /\ wpc[w] = "indexing"
    /\ Goto(w, "releasing") \/ Goto(w, "failing")
    /\ UNCHANGED <<fileVars, rowVars, setVars, queueVars, cacheVars, wjob, wtrad,
                   clearVars, procVars>>

\* _set_job_error on every failing path.
FailJob(w) ==
    /\ wpc[w] = "failing"
    /\ SetStatus(wjob[w], "error")
    /\ Goto(w, "releasing")
    /\ UNCHANGED <<fileVars, req, rowid, snapshots, setVars, queueVars, cacheVars,
                   wjob, wtrad, clearVars, procVars>>

NextIteration(w) ==
    /\ Goto(w, "idle")
    /\ wjob' = [wjob EXCEPT ![w] = NoJob]
    /\ wtrad' = [wtrad EXCEPT ![w] = FALSE]

\* release_file, last on every path; the worker goes back to the queue.
ReleaseInput(w) ==
    /\ wpc[w] = "releasing"
    /\ ReleaseFile(req[wjob[w]].file)
    /\ NextIteration(w)
    /\ UNCHANGED <<rowVars, setVars, queueVars, cacheVars, clearVars, procVars>>

WorkerStep(w) ==
    \/ Claim(w)    \/ Defer(w)        \/ LoadInput(w)   \/ ChooseMode(w)
    \/ Pipeline(w) \/ SaveSnapshot(w) \/ CompleteJob(w) \/ CacheResult(w)
    \/ FailJob(w)  \/ IndexResults(w) \/ ReleaseInput(w)
-----------------------------------------------------------------------------
(***************************************************************************)
(* Administration and retention.                                           *)
(***************************************************************************)
\* Mutant: whatever does not run is history, the jobs that still wait too.
NotRunning == {j \in Jobs : status[j] # "running"}
TerminalJobs == {j \in Jobs : status[j] \in Terminal}

\* DELETE FROM forecast_jobs: the snapshots go with the rows (ON DELETE
\* CASCADE); the in-memory cache is not touched.
DeleteRows(gone) ==
    /\ status' = [j \in Jobs |-> IF j \in gone THEN "absent" ELSE status[j]]
    /\ snapshots' = snapshots \ gone

\* cleanup_terminal_jobs, from the daily task or after a settings change:
\* some terminal rows (old) are past the retention period.
ExpireJobs(old) ==
    /\ up /\ cleanup /\ old # {}
    /\ old \subseteq TerminalJobs
    /\ DeleteRows(old)
    /\ UNCHANGED <<fileVars, req, rowid, setVars, queueVars, cacheVars,
                   workerVars, clearVars, procVars>>

\* PUT /job-settings stores the settings, then runs cleanup_terminal_jobs.
UpdateSettings(c, b, old) ==
    /\ up
    /\ cap' = c /\ cleanup' = b
    /\ old \subseteq TerminalJobs /\ (old # {} => b)
    /\ DeleteRows(old)
    /\ UNCHANGED <<fileVars, req, rowid, llm, queueVars, cacheVars, workerVars,
                   clearVars, procVars>>

\* PUT /config/llm/enabled.
SetLlmEnabled(b) ==
    /\ up
    /\ llm' = b
    /\ UNCHANGED <<fileVars, rowVars, cap, cleanup, queueVars, cacheVars,
                   workerVars, clearVars, procVars>>

\* The sequences that list the set S by increasing rank.
InOrder(S, rank) ==
    {q \in [1..Cardinality(S) -> S] :
        /\ \A a, b \in DOMAIN q : a < b => rank[q[a]] < rank[q[b]]
        /\ \A j \in S : \E a \in DOMAIN q : q[a] = j}

CachePosition ==
    [j \in Jobs |-> IF Cached(j) THEN CHOOSE i \in 1..Len(cache) : cache[i] = j
                    ELSE 0]

\* clear_terminal_jobs: SELECT the terminal ids; DELETE by status in a
\* second statement; pop the selected ids from the cache under the lock.
ClearSelect ==
    /\ up /\ clearPc = "idle"
    /\ clearPc' = "selected" /\ clearSet' = TerminalJobs
    /\ UNCHANGED <<fileVars, rowVars, setVars, queueVars, cacheVars, workerVars,
                   procVars>>

ClearDelete ==
    /\ clearPc = "selected"
    /\ DeleteRows(TerminalJobs)
    /\ clearPc' = "deleted"
    /\ UNCHANGED <<fileVars, req, rowid, setVars, queueVars, cacheVars,
                   workerVars, clearSet, procVars>>

ClearCache ==
    /\ clearPc = "deleted"
    /\ cache' \in InOrder({j \in Jobs \ clearSet : Cached(j)}, CachePosition)
    /\ results' = results \ clearSet
    /\ clearPc' = "idle" /\ clearSet' = {}
    /\ UNCHANGED <<fileVars, rowVars, setVars, queueVars, workerVars, procVars>>
-----------------------------------------------------------------------------
(***************************************************************************)
(* The process stops (crash, kill, deployment), and the container          *)
(* runtime starts it again.                                                *)
(***************************************************************************)
Crash ==
    /\ up /\ crashes < MaxCrashes
    /\ up' = FALSE /\ crashes' = crashes + 1
    /\ queue' = <<>> /\ cache' = <<>> /\ results' = {}
    /\ submit' = [j \in Jobs |-> IF submit[j] = "unused" THEN "unused" ELSE "ended"]
    /\ wpc' = [w \in Workers |-> "idle"]
    /\ wjob' = [w \in Workers |-> NoJob]
    /\ wtrad' = [w \in Workers |-> FALSE]
    /\ clearPc' = "idle" /\ clearSet' = {}
    /\ UNCHANGED <<fileVars, rowVars, setVars>>

\* The jobs init_job_queue restores (ORDER BY queued_at, rowid): their file is
\* in the index that init_storage has just rebuilt.
Restorable == {j \in Jobs : status[j] = "pending" /\ files'[req[j].file] = "stored"}

\* Mutant: jobs that were running when the process stopped are left alone.
UnavailableOnly(j) == status[j] = "pending" /\ j \notin Restorable

\* The rows init_job_queue closes: interrupted, or without their file.
Lost(j) == \/ status[j] = "running"
           \/ status[j] = "pending" /\ j \notin Restorable

RestoredFor(f) == {j \in Restorable : req[j].file = f}

\* Mutant: init_storage keeps the counters of the dead process.
AddedReservations(f) == active[f] + Cardinality(RestoredFor(f))
RestoredReservations(f) == Cardinality(RestoredFor(f))

\* The lifespan up to "yield": cleanup_terminal_jobs, init_storage,
\* init_job_queue.  No request is served and no worker runs before it ends,
\* and a stop in the middle is repaired by running it again.
Restart(old) ==
    /\ ~up /\ up' = TRUE
    /\ old \subseteq TerminalJobs /\ (old # {} => cleanup)
    /\ files' \in Found
    /\ snapshots' = snapshots \ old
    /\ status' = [j \in Jobs |->
          IF j \in old THEN "absent" ELSE IF Lost(j) THEN "error" ELSE status[j]]
    /\ queue' \in InOrder(Restorable, rowid)
    /\ active' = [f \in Files |-> RestoredReservations(f)]
    /\ RestoreReservations
    /\ UNCHANGED <<req, rowid, setVars, submit, cacheVars, workerVars, clearVars,
                   crashes>>
-----------------------------------------------------------------------------
CreateStep(j) == ReserveInput(j) \/ CacheEntry(j) \/ Enqueue(j)

ClearStep == ClearSelect \/ ClearDelete \/ ClearCache

Next ==
    \/ \E f \in Files : Upload(f)
    \/ \E j \in Jobs, r \in Requests : Submit(j, r)
    \/ \E j \in Jobs : CreateStep(j)
    \/ \E w \in Workers : WorkerStep(w)
    \/ \E old \in SUBSET Jobs : ExpireJobs(old)
    \/ \E c \in CapChoices, b \in CleanupChoices, old \in SUBSET Jobs :
          UpdateSettings(c, b, old)
    \/ \E b \in LlmChoices : SetLlmEnabled(b)
    \/ ClearStep
    \/ Crash
    \/ \E old \in SUBSET Jobs : Restart(old)

\* Request threads and workers are run by the thread pool and the event
\* loop until they finish (a pipeline run is a finite computation), and the
\* container runtime restarts the process (docker-compose: unless-stopped).
Fairness ==
    /\ \A j \in Jobs : WF_vars(CreateStep(j))
    /\ \A w \in Workers : WF_vars(WorkerStep(w))
    /\ WF_vars(\E old \in SUBSET Jobs : Restart(old))

Spec == Init /\ [][Next]_vars

FairSpec == Spec /\ Fairness
-----------------------------------------------------------------------------
(***************************************************************************)
(* Safety.                                                                 *)
(***************************************************************************)
Creating(j) == submit[j] \in {"inserted", "reserved", "cached"}
Executing(w, j) == wjob[w] = j /\ wpc[w] # "idle"
HoldsFile(j) == \/ submit[j] \in {"reserved", "cached"}
                \/ InQueue(j)
                \/ \E w \in Workers : Executing(w, j)

\* A job id waits in JOB_QUEUE at most once, and while it waits its row says
\* "pending" and neither its request thread nor a worker still holds it.  A
\* queued id whose row is not pending would be re-queued by every worker for
\* ever (job_worker), and one queued twice could be run twice.
QueueSound ==
    \A i \in 1..Len(queue) :
        /\ status[queue[i]] = "pending"
        /\ submit[queue[i]] = "ended"
        /\ \A k \in 1..Len(queue) : queue[k] = queue[i] => k = i
        /\ \A w \in Workers : wjob[w] # queue[i]

\* While the process runs no accepted job is forgotten: a pending row is in
\* the queue or on its way there in its request thread, across restarts,
\* failed claims, evictions and history clearing.
NoPendingJobLost ==
    up => \A j \in Jobs : status[j] = "pending" => InQueue(j) \/ Creating(j)

\* A row says "running" exactly while one worker is between the claim and
\* the terminal update, so the per-user count in _claim_job is never wrong
\* because of a job that nobody runs, and no job is run by two workers.
ActivePc == {"claimed", "loaded", "pipeline", "ran", "saved"}
RunningHasOneWorker ==
    up => \A j \in Jobs : status[j] = "running" =>
             /\ \E w \in Workers : wjob[w] = j /\ wpc[w] \in ActivePc \cup {"failing"}
             /\ \A v, w \in Workers : wjob[v] = j /\ wjob[w] = j => v = w

\* The eviction reservation of a file counts exactly the jobs that still
\* need it: none leaks when a job fails on any path or the process is
\* restarted, and none is given back twice (reserve_file, release_file).
ReservationsExact ==
    up => \A f \in Files : active[f] =
             Cardinality({j \in Jobs : HoldsFile(j) /\ req[j].file = f})

\* An upload never evicts the input of a job that waits or runs, whatever
\* the uploads, failures and restarts in between.
InputNotEvicted ==
    up => \A j \in Jobs : HoldsFile(j) => files[req[j].file] = "stored"

\* A finished job has its issued forecast on record for monitoring, and a
\* record never outlives its job row (save_snapshot before _complete_job,
\* ON DELETE CASCADE).
SnapshotsMatchRows ==
    /\ \A j \in Jobs : status[j] = "done" => j \in snapshots
    /\ \A j \in snapshots : status[j] # "absent"

\* A run without the LLM only ever executes a model the user named, also
\* when the switch is turned off between submission and execution.
TraditionalRunsForcedModel ==
    \A w \in Workers : wpc[w] \in {"pipeline", "ran", "saved"} /\ wtrad[w] =>
        req[wjob[w]].forced

\* _claim_job: starting a job of an ordinary user never takes that user
\* above the cap in force, with several workers, cap changes and restarts.
ClaimRespectsCap ==
    [][\A j \in Jobs : status[j] = "pending" /\ status'[j] = "running" =>
          req[j].admin \/ Cardinality(RunningOf(req[j].user)') <= cap]_vars

\* A job's life is a one-way street: a terminal row is never scheduled
\* again, a failed job never becomes done, and a deleted row stays deleted.
OneWayLife ==
    [][\A j \in Jobs :
          /\ status[j] \in Terminal => status'[j] \in Terminal \cup {"absent"}
          /\ status[j] = "error" => status'[j] # "done"
          /\ status[j] = "running" => status'[j] \notin {"pending", "absent"}
          /\ status[j] = "absent" /\ submit[j] # "unused" => status'[j] = "absent"]_vars

(***************************************************************************)
(* Liveness, under Fairness.                                               *)
(***************************************************************************)

\* Every accepted job reaches a terminal state: no user is starved by the
\* cap, the re-queueing of unclaimable jobs or a restart.
AcceptedJobFinishes ==
    \A j \in Jobs : (status[j] = "pending") ~> (status[j] \notin {"pending", "running"})

(***************************************************************************)
(* What a docstring says and the code does not do: a run expects the       *)
(* violation.                                                              *)
(***************************************************************************)

\* index_analysis_results: "Index completed analysis results without making
\* indexing job-critical" -- a done job stays done.
IndexingNotJobCritical ==
    [][\A j \in Jobs : status[j] = "done" => status'[j] # "error"]_vars

=============================================================================
