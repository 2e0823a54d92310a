--------------------------- MODULE JobServiceProofs ---------------------------
(***************************************************************************)
(* What JobService satisfies for every set of jobs, workers, files and     *)
(* users, every cap and every number of process stops.                     *)
(***************************************************************************)
EXTENDS JobService, TLAPS, FiniteSetTheorems, SequenceTheorems

-----------------------------------------------------------------------------
(***************************************************************************)
(* Sequences.                                                              *)
(***************************************************************************)

\* The sequences by increasing rank of a finite set of jobs are sequences of
\* jobs.
LEMMA InOrderType ==
    ASSUME NEW S \in SUBSET Jobs, NEW rank, NEW q \in InOrder(S, rank)
    PROVE  q \in Seq(Jobs)
<1>1. Cardinality(S) \in Nat
  BY JobAssumption, FS_Subset, FS_CardinalityType
<1>2. q \in [1..Cardinality(S) -> Jobs]
  BY DEF InOrder
<1> QED
  BY <1>1, <1>2

-----------------------------------------------------------------------------
(***************************************************************************)
(* Types.                                                                  *)
(***************************************************************************)

LEMMA InitTypeOK == Init => TypeOK
<1> SUFFICES ASSUME Init PROVE TypeOK
  OBVIOUS
<1> USE DEF Init, FilesInit, TypeOK, FilesTypeOK, FileState, Status, Terminal,
            SubmitPc, WorkerPc
<1>1. crashes \in 0..MaxCrashes
  BY JobAssumption
<1>2. cleanup \in BOOLEAN /\ llm \in BOOLEAN
  BY JobAssumption
<1> QED
  BY <1>1, <1>2

LEMMA NextTypeOK == TypeOK /\ [Next]_vars => TypeOK'
<1> SUFFICES ASSUME TypeOK, [Next]_vars PROVE TypeOK'
  OBVIOUS
<1> USE DEF TypeOK, FilesTypeOK, rowVars, setVars, queueVars, cacheVars,
            workerVars, clearVars, procVars, fileVars
<1>1. CASE UNCHANGED vars
  BY <1>1 DEF vars
<1>2. ASSUME NEW f \in Files, Upload(f) PROVE TypeOK'
  BY <1>2 DEF Upload, StoreFile, EvictFile, FileState
<1>3. ASSUME NEW j \in Jobs, NEW r \in Requests, Submit(j, r) PROVE TypeOK'
  <2>1. r \in Request
    BY JobAssumption
  <2>2. [r EXCEPT !.trad = Traditional(r)] \in Request
    BY <2>1 DEF Request, Traditional
  <2>3. IsFiniteSet({k \in Jobs : submit[k] # "unused"})
    BY JobAssumption, FS_Subset
  <2>4. Cardinality({k \in Jobs : submit[k] # "unused"}) \in Nat
    BY <2>3, FS_CardinalityType
  <2>5. /\ status' \in [Jobs -> Status] /\ submit' \in [Jobs -> SubmitPc]
        /\ rowid' \in [Jobs -> Nat]
        /\ req' \in [Jobs -> Request \cup {NoRequest}]
    BY <1>3, <2>2, <2>4 DEF Submit, Status, SubmitPc
  <2>6. \A k \in Jobs : submit'[k] # "unused" => req'[k] \in Request
    BY <1>3, <2>2 DEF Submit
  <2> QED
    BY <1>3, <2>5, <2>6 DEF Submit
<1>4. ASSUME NEW j \in Jobs, ReserveInput(j) PROVE TypeOK'
  <2>1. active' \in [Files -> Nat] /\ files' = files
    BY <1>4 DEF ReserveInput, ReserveFile
  <2>2. status' \in [Jobs -> Status] /\ submit' \in [Jobs -> SubmitPc]
    BY <1>4 DEF ReserveInput, Status, SubmitPc, Terminal
  <2>3. \A k \in Jobs : submit'[k] # "unused" => req'[k] \in Request
    BY <1>4 DEF ReserveInput
  <2> QED
    BY <1>4, <2>1, <2>2, <2>3 DEF ReserveInput
<1>5. ASSUME NEW j \in Jobs, CacheEntry(j) PROVE TypeOK'
  <2> DEFINE excess == IF Len(cache) >= MaxJobs THEN Len(cache) - MaxJobs + 1 ELSE 0
             kept   == SubSeq(cache, excess + 1, Len(cache))
  <2>1. excess \in Nat /\ Len(cache) \in Nat
    BY JobAssumption
  <2>2. kept \in Seq(Jobs)
    BY <2>1
  <2>3. cache' = Append(kept, j)
    BY <1>5 DEF CacheEntry
  <2>4. cache' \in Seq(Jobs)
    BY <2>2, <2>3
  <2>5. results' \subseteq Jobs
    BY <1>5 DEF CacheEntry
  <2>6. submit' \in [Jobs -> SubmitPc]
    BY <1>5 DEF CacheEntry, SubmitPc
  <2>7. \A k \in Jobs : submit'[k] # "unused" => req'[k] \in Request
    BY <1>5 DEF CacheEntry
  <2> QED
    BY <1>5, <2>4, <2>5, <2>6, <2>7 DEF CacheEntry
<1>6. ASSUME NEW j \in Jobs, Enqueue(j) PROVE TypeOK'
  BY <1>6 DEF Enqueue, SubmitPc
<1>7. ASSUME NEW w \in Workers, Claim(w) \/ Defer(w) PROVE TypeOK'
  <2>1. Head(queue) \in Jobs /\ Tail(queue) \in Seq(Jobs)
    BY <1>7, HeadTailProperties DEF Claim, Defer
  <2>2. CASE Claim(w)
    <3>1. /\ status' \in [Jobs -> Status] /\ wpc' \in [Workers -> WorkerPc]
          /\ wjob' \in [Workers -> Jobs \cup {NoJob}]
      BY <2>1, <2>2 DEF Claim, Status, WorkerPc
    <3>2. \A v \in Workers : wpc'[v] = "idle" <=> wjob'[v] = NoJob
      BY <2>1, <2>2, JobAssumption DEF Claim
    <3> QED
      BY <2>1, <2>2, <3>1, <3>2 DEF Claim
  <2>3. CASE Defer(w)
    <3>1. queue' \in Seq(Jobs)
      BY <2>1, <2>3, AppendProperties DEF Defer, Requeue
    <3> QED
      BY <2>3, <3>1 DEF Defer
  <2> QED
    BY <1>7, <2>2, <2>3
<1>8. ASSUME NEW w \in Workers, LoadInput(w) PROVE TypeOK'
  BY <1>8 DEF LoadInput, Goto, WorkerPc
<1>9. ASSUME NEW w \in Workers, ChooseMode(w) PROVE TypeOK'
  BY <1>9 DEF ChooseMode, Goto, WorkerPc, Traditional, Request
<1>10. ASSUME NEW w \in Workers, Pipeline(w) PROVE TypeOK'
  BY <1>10 DEF Pipeline, Goto, WorkerPc
<1>11. ASSUME NEW w \in Workers, SaveSnapshot(w) PROVE TypeOK'
  BY <1>11 DEF SaveSnapshot, Goto, WorkerPc
<1>12. ASSUME NEW w \in Workers, CompleteJob(w) PROVE TypeOK'
  BY <1>12 DEF CompleteJob, SetStatus, Goto, WorkerPc, Status, Terminal
<1>13. ASSUME NEW w \in Workers, CacheResult(w) PROVE TypeOK'
  BY <1>13 DEF CacheResult, Goto, WorkerPc
<1>14. ASSUME NEW w \in Workers, IndexResults(w) PROVE TypeOK'
  BY <1>14 DEF IndexResults, Goto, WorkerPc
<1>15. ASSUME NEW w \in Workers, FailJob(w) PROVE TypeOK'
  BY <1>15 DEF FailJob, SetStatus, Goto, WorkerPc, Status, Terminal
<1>16. ASSUME NEW w \in Workers, ReleaseInput(w) PROVE TypeOK'
  <2> DEFINE f == req[wjob[w]].file
  <2>1. active' \in [Files -> Nat] /\ files' = files
    <3>1. active' = active \/ (active[f] > 0 /\ active' = [active EXCEPT ![f] = @ - 1])
      BY <1>16 DEF ReleaseInput, ReleaseFile
    <3>2. CASE f \in Files
      <4>1. active[f] \in Nat
        BY <3>2
      <4> QED
        BY <1>16, <3>1, <3>2, <4>1 DEF ReleaseInput, ReleaseFile
    <3>3. CASE f \notin Files
      BY <1>16, <3>1, <3>3 DEF ReleaseInput, ReleaseFile
    <3> QED
      BY <3>2, <3>3
  <2>2. /\ wpc' \in [Workers -> WorkerPc] /\ wtrad' \in [Workers -> BOOLEAN]
        /\ wjob' \in [Workers -> Jobs \cup {NoJob}]
    BY <1>16 DEF ReleaseInput, NextIteration, Goto, WorkerPc
  <2>3. \A v \in Workers : wpc'[v] = "idle" <=> wjob'[v] = NoJob
    BY <1>16 DEF ReleaseInput, NextIteration, Goto
  <2> QED
    BY <1>16, <2>1, <2>2, <2>3 DEF ReleaseInput
<1>17. ASSUME NEW old \in SUBSET Jobs, ExpireJobs(old) PROVE TypeOK'
  BY <1>17 DEF ExpireJobs, DeleteRows, Status
<1>18. ASSUME NEW c \in CapChoices, NEW b \in CleanupChoices,
              NEW old \in SUBSET Jobs, UpdateSettings(c, b, old)
       PROVE TypeOK'
  BY <1>18, JobAssumption DEF UpdateSettings, DeleteRows, Status
<1>19. ASSUME NEW b \in LlmChoices, SetLlmEnabled(b) PROVE TypeOK'
  BY <1>19, JobAssumption DEF SetLlmEnabled
<1>20. CASE ClearSelect
  BY <1>20 DEF ClearSelect, TerminalJobs
<1>21. CASE ClearDelete
  BY <1>21 DEF ClearDelete, DeleteRows, Status
<1>22. CASE ClearCache
  <2>1. cache' \in Seq(Jobs)
    BY <1>22, InOrderType DEF ClearCache
  <2> QED
    BY <1>22, <2>1 DEF ClearCache
<1>23. CASE Crash
  <2>1. submit' \in [Jobs -> SubmitPc] /\ wpc' \in [Workers -> WorkerPc]
    BY <1>23 DEF Crash, SubmitPc, WorkerPc
  <2>2. /\ wjob' \in [Workers -> Jobs \cup {NoJob}] /\ wtrad' \in [Workers -> BOOLEAN]
        /\ crashes' \in 0..MaxCrashes
    BY <1>23, JobAssumption DEF Crash
  <2>3. /\ \A v \in Workers : wpc'[v] = "idle" <=> wjob'[v] = NoJob
        /\ \A k \in Jobs : submit'[k] # "unused" => req'[k] \in Request
    BY <1>23 DEF Crash
  <2>4. /\ queue' = <<>> /\ cache' = <<>> /\ results' = {}
        /\ clearPc' = "idle" /\ clearSet' = {} /\ up' = FALSE
    BY <1>23 DEF Crash
  <2>5. UNCHANGED <<fileVars, rowVars, setVars>>
    BY <1>23 DEF Crash
  <2>6. queue' \in Seq(Jobs) /\ cache' \in Seq(Jobs) /\ results' \subseteq Jobs
    BY <2>4
  <2>7. /\ FilesTypeOK' /\ status' \in [Jobs -> Status]
        /\ req' \in [Jobs -> Request \cup {NoRequest}] /\ rowid' \in [Jobs -> Nat]
        /\ snapshots' \subseteq Jobs
        /\ cap' \in CapChoices /\ cleanup' \in BOOLEAN /\ llm' \in BOOLEAN
    BY <2>5
  <2> QED
    BY <2>1, <2>2, <2>3, <2>4, <2>6, <2>7
<1>24. ASSUME NEW old \in SUBSET Jobs, Restart(old) PROVE TypeOK'
  <2>1. queue' \in Seq(Jobs)
    BY <1>24, InOrderType DEF Restart, Restorable
  <2> QED
    BY <1>24, <2>1 DEF Restart, RestoreReservations, Found, Status, Terminal
<1> QED
  BY <1>1, <1>2, <1>3, <1>4, <1>5, <1>6, <1>7, <1>8, <1>9, <1>10, <1>11, <1>12,
     <1>13, <1>14, <1>15, <1>16, <1>17, <1>18, <1>19, <1>20, <1>21, <1>22,
     <1>23, <1>24 DEF Next, CreateStep, WorkerStep, ClearStep

\* Every variable keeps its type, and a worker is idle exactly when it holds
\* no job.
THEOREM TypeCorrect == Spec => []TypeOK
<1>1. Init => TypeOK
  BY InitTypeOK
<1>2. TypeOK /\ [Next]_vars => TypeOK'
  BY NextTypeOK
<1> QED
  BY <1>1, <1>2, PTL DEF Spec

-----------------------------------------------------------------------------
(***************************************************************************)
(* Scheduling: the inductive invariant behind QueueSound, NoPendingJobLost *)
(* and RunningHasOneWorker.  It ties every place that can hold a job (its  *)
(* request thread, the queue, a worker) to the status of the job's row, so *)
(* that a job is in at most one of them.                                   *)
(***************************************************************************)
SubmitSound ==
    \A j \in Jobs : /\ submit[j] = "unused" => status[j] = "absent"
                    /\ Creating(j) => up /\ status[j] = "pending"

WorkerSound(w) ==
    wjob[w] # NoJob =>
        /\ up
        /\ submit[wjob[w]] = "ended"
        /\ status[wjob[w]] # "pending"
        /\ wpc[w] \in ActivePc => status[wjob[w]] = "running"
        /\ \A v \in Workers : wjob[v] = wjob[w] => v = w

QueuedOnlyWhileUp == ~up => queue = <<>>

SchedInv ==
    /\ TypeOK
    /\ SubmitSound
    /\ \A w \in Workers : WorkerSound(w)
    /\ QueuedOnlyWhileUp
    /\ QueueSound
    /\ NoPendingJobLost
    /\ RunningHasOneWorker

LEMMA InitSchedInv == Init => SchedInv
<1> SUFFICES ASSUME Init PROVE SchedInv
  OBVIOUS
<1>1. TypeOK
  BY InitTypeOK
<1> QED
  BY <1>1 DEF SchedInv, Init, SubmitSound, Creating, WorkerSound,
              QueuedOnlyWhileUp, QueueSound, NoPendingJobLost,
              RunningHasOneWorker

schedVars == <<up, submit, status, queue, wpc, wjob>>

\* Steps that move no job.
LEMMA SchedFrame ==
    ASSUME SchedInv, TypeOK', UNCHANGED schedVars
    PROVE  SchedInv'
BY DEF schedVars, SchedInv, SubmitSound, Creating, WorkerSound, InQueue,
       QueuedOnlyWhileUp, QueueSound, NoPendingJobLost, RunningHasOneWorker

\* Deleting finished rows moves no job that is waiting or running.
LEMMA SchedDelete ==
    ASSUME SchedInv, TypeOK', NEW gone \in SUBSET TerminalJobs, DeleteRows(gone),
           UNCHANGED <<up, submit, queue, wpc, wjob>>
    PROVE  SchedInv'
<1>1. ASSUME NEW j \in Jobs
      PROVE  \/ status'[j] = status[j]
             \/ status[j] \in Terminal /\ status'[j] = "absent"
  <2>1. j \in gone => status[j] \in Terminal
    BY DEF TerminalJobs
  <2>2. status'[j] = IF j \in gone THEN "absent" ELSE status[j]
    BY DEF DeleteRows
  <2> QED
    BY <2>1, <2>2
<1> USE DEF Terminal
<1>2. SubmitSound'
  BY <1>1 DEF SchedInv, SubmitSound, Creating
<1>3. ASSUME NEW w \in Workers PROVE WorkerSound(w)'
  <2>1. CASE wjob[w] = NoJob
    BY <2>1 DEF WorkerSound
  <2>2. CASE wjob[w] \in Jobs
    BY <1>1, <2>2 DEF SchedInv, WorkerSound
  <2> QED
    BY <2>1, <2>2 DEF SchedInv, TypeOK
<1>4. QueueSound' /\ QueuedOnlyWhileUp'
  <2>1. \A i \in 1..Len(queue) : queue[i] \in Jobs
    BY DEF SchedInv, TypeOK
  <2> QED
    BY <1>1, <2>1 DEF SchedInv, QueueSound, QueuedOnlyWhileUp
<1>5. NoPendingJobLost' /\ RunningHasOneWorker'
  BY <1>1 DEF SchedInv, NoPendingJobLost, RunningHasOneWorker, InQueue, Creating
<1> QED
  BY <1>2, <1>3, <1>4, <1>5 DEF SchedInv

\* The steps of a worker that keeps its job: the row of that job alone may
\* change, and never back to "pending".
LEMMA SchedWork ==
    ASSUME SchedInv, TypeOK', NEW w \in Workers, wpc[w] # "idle",
           NEW s \in Status \ {"pending"}, NEW pc \in WorkerPc \ {"idle"},
           status' = [status EXCEPT ![wjob[w]] = s], wpc' = [wpc EXCEPT ![w] = pc],
           pc \in ActivePc => s = "running",
           s = "running" => pc \in ActivePc \cup {"failing"},
           UNCHANGED <<up, submit, queue, wjob>>
    PROVE  SchedInv'
<1> DEFINE j == wjob[w]
<1>1. j \in Jobs /\ j # NoJob /\ WorkerSound(w) /\ up
  BY DEF SchedInv, TypeOK, WorkerSound
<1>2. \A k \in Jobs : k # j => status'[k] = status[k]
  BY <1>1 DEF SchedInv, TypeOK
<1>3. status'[j] = s /\ wpc'[w] = pc
  BY <1>1 DEF SchedInv, TypeOK
<1>4. \A v \in Workers : v # w => wpc'[v] = wpc[v] /\ wjob[v] # j
  BY <1>1 DEF SchedInv, TypeOK, WorkerSound
<1>5. SubmitSound'
  BY <1>1, <1>2 DEF SchedInv, SubmitSound, Creating, WorkerSound
<1>6. \A v \in Workers : WorkerSound(v)'
  BY <1>1, <1>2, <1>3, <1>4 DEF SchedInv, WorkerSound, TypeOK
<1>7. QueueSound' /\ QueuedOnlyWhileUp'
  BY <1>1, <1>2 DEF SchedInv, QueueSound, QueuedOnlyWhileUp, TypeOK
<1>8. NoPendingJobLost'
  BY <1>1, <1>2, <1>3 DEF SchedInv, NoPendingJobLost, InQueue, Creating
<1>9. RunningHasOneWorker'
  BY <1>1, <1>2, <1>3, <1>4 DEF SchedInv, RunningHasOneWorker, WorkerSound
<1> QED
  BY <1>5, <1>6, <1>7, <1>8, <1>9 DEF SchedInv

\* Steps of a worker that leave every row alone.
LEMMA SchedGoto ==
    ASSUME SchedInv, TypeOK', NEW w \in Workers, wpc[w] # "idle",
           NEW pc \in WorkerPc \ {"idle"}, Goto(w, pc),
           pc \in ActivePc => wpc[w] \in ActivePc,
           wpc[w] \in ActivePc \cup {"failing"} => pc \in ActivePc \cup {"failing"},
           UNCHANGED <<up, submit, status, queue, wjob>>
    PROVE  SchedInv'
<1> DEFINE s == status[wjob[w]]
<1>1. wjob[w] \in Jobs /\ wjob[w] # NoJob /\ WorkerSound(w) /\ up
  BY DEF SchedInv, TypeOK, WorkerSound
<1>2. s \in Status \ {"pending"} /\ status' = [status EXCEPT ![wjob[w]] = s]
  BY <1>1 DEF SchedInv, TypeOK, WorkerSound
<1>3. pc \in ActivePc => s = "running"
  BY <1>1 DEF WorkerSound
<1>4. s = "running" => pc \in ActivePc \cup {"failing"}
  BY <1>1 DEF SchedInv, RunningHasOneWorker
<1>5. wpc' = [wpc EXCEPT ![w] = pc]
  BY DEF Goto
<1> HIDE DEF s
<1> QED
  BY <1>2, <1>3, <1>4, <1>5, SchedWork

LEMMA SchedSubmit ==
    ASSUME SchedInv, TypeOK', NEW j \in Jobs, NEW r \in Requests, Submit(j, r)
    PROVE  SchedInv'
<1> USE DEF SchedInv
<1>1. submit[j] = "unused" /\ status[j] = "absent" /\ up /\ UNCHANGED <<up, queue, wpc, wjob>>
  <2>1. submit[j] = "unused" /\ up
    BY DEF Submit
  <2>2. status[j] = "absent"
    BY <2>1 DEF SubmitSound
  <2>3. UNCHANGED <<up, queue, wpc, wjob>>
    BY DEF Submit, workerVars, procVars
  <2> QED
    BY <2>1, <2>2, <2>3
<1>2. /\ \A k \in Jobs : k # j => submit'[k] = submit[k] /\ status'[k] = status[k]
      /\ submit'[j] = "inserted" /\ status'[j] = "pending"
  BY DEF Submit, TypeOK
<1>3. \A w \in Workers : wjob[w] # j
  BY <1>1, JobAssumption DEF WorkerSound
<1>4. \A i \in 1..Len(queue) : queue[i] \in Jobs /\ queue[i] # j
  <2>1. \A i \in 1..Len(queue) : queue[i] \in Jobs /\ submit[queue[i]] = "ended"
    BY DEF QueueSound, TypeOK
  <2> QED
    BY <1>1, <2>1
<1>5. SubmitSound'
  BY <1>1, <1>2 DEF SubmitSound, Creating
<1>6. \A w \in Workers : WorkerSound(w)'
  BY <1>1, <1>2, <1>3 DEF WorkerSound, TypeOK
<1>7. QueueSound' /\ QueuedOnlyWhileUp'
  BY <1>1, <1>2, <1>4 DEF QueueSound, QueuedOnlyWhileUp
<1>8. NoPendingJobLost'
  BY <1>1, <1>2 DEF NoPendingJobLost, InQueue, Creating
<1>9. RunningHasOneWorker'
  BY <1>1, <1>2 DEF RunningHasOneWorker
<1> QED
  BY <1>5, <1>6, <1>7, <1>8, <1>9

\* The request thread's steps before the job is on the queue.
LEMMA SchedCreate ==
    ASSUME SchedInv, TypeOK', NEW j \in Jobs, ReserveInput(j) \/ CacheEntry(j)
    PROVE  SchedInv'
<1> USE DEF SchedInv
<1>1. /\ Creating(j) /\ up /\ status[j] = "pending"
      /\ UNCHANGED <<up, queue, wpc, wjob>>
  BY DEF ReserveInput, CacheEntry, SubmitSound, Creating, workerVars, procVars
<1>2. \A k \in Jobs : k # j => submit'[k] = submit[k] /\ status'[k] = status[k]
  BY DEF ReserveInput, CacheEntry, TypeOK, rowVars
<1>3. \/ submit'[j] \in {"reserved", "cached"} /\ status'[j] = "pending"
      \/ submit'[j] = "ended" /\ status'[j] = "error"
  BY <1>1 DEF ReserveInput, CacheEntry, TypeOK, rowVars
<1>4. \A w \in Workers : wjob[w] # j
  BY <1>1, JobAssumption DEF WorkerSound
<1>5. \A i \in 1..Len(queue) : queue[i] \in Jobs /\ queue[i] # j
  BY <1>1 DEF QueueSound, TypeOK, Creating
<1>6. SubmitSound'
  BY <1>1, <1>2, <1>3 DEF SubmitSound, Creating
<1>7. \A w \in Workers : WorkerSound(w)'
  BY <1>1, <1>2, <1>4 DEF WorkerSound, TypeOK
<1>8. QueueSound' /\ QueuedOnlyWhileUp'
  BY <1>1, <1>2, <1>5 DEF QueueSound, QueuedOnlyWhileUp
<1>9. NoPendingJobLost'
  BY <1>1, <1>2, <1>3 DEF NoPendingJobLost, InQueue, Creating
<1>10. RunningHasOneWorker'
  BY <1>1, <1>2, <1>3 DEF RunningHasOneWorker
<1> QED
  BY <1>6, <1>7, <1>8, <1>9, <1>10

LEMMA SchedEnqueue ==
    ASSUME SchedInv, TypeOK', NEW j \in Jobs, Enqueue(j)
    PROVE  SchedInv'
<1> USE DEF SchedInv
<1>1. /\ Creating(j) /\ up /\ status[j] = "pending" /\ queue \in Seq(Jobs)
      /\ UNCHANGED <<up, status, wpc, wjob>>
  BY DEF Enqueue, SubmitSound, Creating, workerVars, procVars, rowVars, TypeOK
<1>2. /\ \A k \in Jobs : k # j => submit'[k] = submit[k]
      /\ submit'[j] = "ended"
  BY DEF Enqueue, TypeOK
<1>3. /\ Len(queue') = Len(queue) + 1 /\ queue'[Len(queue) + 1] = j
      /\ \A i \in 1..Len(queue) : queue'[i] = queue[i]
  BY <1>1, AppendProperties DEF Enqueue
<1>4. \A w \in Workers : wjob[w] # j
  BY <1>1, JobAssumption DEF WorkerSound
<1>5. \A i \in 1..Len(queue) : queue[i] \in Jobs /\ queue[i] # j
  BY <1>1 DEF QueueSound, Creating
<1>6. SubmitSound'
  BY <1>1, <1>2 DEF SubmitSound, Creating
<1>7. \A w \in Workers : WorkerSound(w)'
  BY <1>1, <1>2, <1>4 DEF WorkerSound, TypeOK
<1>8. QueueSound' /\ QueuedOnlyWhileUp'
  <2>1. \A i \in 1..Len(queue') : i = Len(queue) + 1 \/ i \in 1..Len(queue)
    BY <1>1, <1>3
  <2>2. Len(queue) + 1 \in 1..Len(queue') /\ Len(queue) \in Nat
    BY <1>1, <1>3
  <2> QED
    BY <1>1, <1>2, <1>3, <1>4, <1>5, <2>1, <2>2 DEF QueueSound, QueuedOnlyWhileUp
<1>9. NoPendingJobLost'
  <2>1. \A k \in Jobs : InQueue(k) => InQueue(k)'
    BY <1>1, <1>3 DEF InQueue
  <2>2. InQueue(j)'
    BY <1>1, <1>3 DEF InQueue
  <2> QED
    BY <1>1, <1>2, <2>1, <2>2 DEF NoPendingJobLost, Creating
<1>10. RunningHasOneWorker'
  BY <1>1 DEF RunningHasOneWorker
<1> QED
  BY <1>6, <1>7, <1>8, <1>9, <1>10

\* A claim takes the head off the queue and gives it to one worker.
LEMMA SchedClaim ==
    ASSUME SchedInv, TypeOK', NEW w \in Workers, Claim(w)
    PROVE  SchedInv'
<1>0. TypeOK /\ SubmitSound /\ QueuedOnlyWhileUp /\ QueueSound /\ NoPendingJobLost
      /\ RunningHasOneWorker /\ \A v \in Workers : WorkerSound(v)
  BY DEF SchedInv
<1> DEFINE j == Head(queue)
<1>1. /\ queue \in Seq(Jobs) /\ queue # <<>> /\ up /\ wpc[w] = "idle"
      /\ UNCHANGED <<up, submit>> /\ queue' = Tail(queue)
  BY <1>0 DEF Claim, TypeOK, procVars
<1>2. /\ j \in Jobs /\ j = queue[1] /\ Len(queue) \in Nat \ {0}
      /\ Len(queue') = Len(queue) - 1
      /\ \A i \in 1..Len(queue') : queue'[i] = queue[i + 1]
  BY <1>1, HeadTailProperties
<1>3. /\ status[j] = "pending" /\ submit[j] = "ended"
      /\ \A v \in Workers : wjob[v] # j
      /\ \A i \in 1..Len(queue') : queue'[i] \in Jobs /\ queue'[i] # j
  BY <1>0, <1>1, <1>2 DEF QueueSound
<1>4. /\ \A k \in Jobs : k # j => status'[k] = status[k]
      /\ status'[j] = "running" /\ wjob'[w] = j /\ wpc'[w] = "claimed"
      /\ \A v \in Workers : v # w => wjob'[v] = wjob[v] /\ wpc'[v] = wpc[v]
  BY <1>0, <1>2 DEF Claim, TypeOK
<1>5. SubmitSound'
  BY <1>0, <1>1, <1>3, <1>4 DEF SubmitSound, Creating
<1>6. ASSUME NEW v \in Workers PROVE WorkerSound(v)'
  <2>1. CASE v = w
    BY <1>0, <1>1, <1>3, <1>4, <2>1 DEF WorkerSound
  <2>2. CASE v # w /\ wjob[v] # NoJob
    <3>1. /\ wjob'[v] = wjob[v] /\ wpc'[v] = wpc[v] /\ wjob[v] # j /\ wjob[v] \in Jobs
          /\ WorkerSound(v)
      BY <1>0, <1>3, <1>4, <2>2 DEF TypeOK
    <3>2. status'[wjob[v]] = status[wjob[v]]
      BY <1>4, <3>1
    <3> QED
      BY <1>1, <1>4, <2>2, <3>1, <3>2 DEF WorkerSound
  <2>3. CASE v # w /\ wjob[v] = NoJob
    BY <1>4, <2>3 DEF WorkerSound
  <2> QED
    BY <2>1, <2>2, <2>3
<1>7. QueueSound' /\ QueuedOnlyWhileUp'
  <2>1. \A i \in 1..Len(queue') : i + 1 \in 1..Len(queue)
    BY <1>2
  <2> QED
    BY <1>0, <1>1, <1>2, <1>3, <1>4, <2>1 DEF QueueSound, QueuedOnlyWhileUp
<1>8. NoPendingJobLost'
  <2>1. ASSUME NEW k \in Jobs, k # j, InQueue(k) PROVE InQueue(k)'
    <3>1. PICK i \in 1..Len(queue) : queue[i] = k
      BY <2>1 DEF InQueue
    <3>2. i - 1 \in 1..Len(queue') /\ queue'[i - 1] = k
      BY <1>2, <2>1, <3>1
    <3> QED
      BY <3>2 DEF InQueue
  <2> QED
    BY <1>0, <1>1, <1>4, <2>1 DEF NoPendingJobLost, Creating
<1>9. RunningHasOneWorker'
  <2>1. wjob'[w] = j /\ wpc'[w] \in ActivePc /\ wjob[w] = NoJob
    BY <1>0, <1>1, <1>4 DEF ActivePc, TypeOK
  <2>2. ASSUME NEW k \in Jobs, status'[k] = "running", k # j
        PROVE  /\ \E v \in Workers : wjob'[v] = k /\ wpc'[v] \in ActivePc \cup {"failing"}
               /\ \A v, x \in Workers : wjob'[v] = k /\ wjob'[x] = k => v = x
    <3>1. PICK v \in Workers : wjob[v] = k /\ wpc[v] \in ActivePc \cup {"failing"}
      BY <1>0, <1>1, <1>4, <2>2 DEF RunningHasOneWorker
    <3>2. v # w
      BY <2>1, <3>1, JobAssumption
    <3>3. \A x, y \in Workers : wjob[x] = k /\ wjob[y] = k => x = y
      BY <1>0, <1>1, <1>4, <2>2 DEF RunningHasOneWorker
    <3> QED
      BY <1>4, <2>2, <3>1, <3>2, <3>3
  <2>3. \A v \in Workers : wjob'[v] = j => v = w
    BY <1>3, <1>4
  <2> QED
    BY <2>1, <2>2, <2>3 DEF RunningHasOneWorker
<1> QED
  BY <1>5, <1>6, <1>7, <1>8, <1>9 DEF SchedInv

\* A deferred job only changes its place in the queue.
LEMMA SchedDefer ==
    ASSUME SchedInv, TypeOK', NEW w \in Workers, Defer(w)
    PROVE  SchedInv'
<1>0. TypeOK /\ SubmitSound /\ QueuedOnlyWhileUp /\ QueueSound /\ NoPendingJobLost
      /\ RunningHasOneWorker /\ \A v \in Workers : WorkerSound(v)
  BY DEF SchedInv
<1> DEFINE j == Head(queue)
           n == Len(queue)
<1>1. /\ queue \in Seq(Jobs) /\ queue # <<>> /\ up
      /\ UNCHANGED <<up, submit, status, wpc, wjob>>
      /\ queue' = Append(Tail(queue), j)
  BY <1>0 DEF Defer, Requeue, TypeOK, procVars, rowVars, workerVars
<1>2a. n \in Nat \ {0}
  BY <1>1
<1>2. /\ j \in Jobs /\ j = queue[1]
      /\ Tail(queue) \in Seq(Jobs) /\ Len(Tail(queue)) = n - 1
      /\ \A i \in 1..(n - 1) : Tail(queue)[i] = queue[i + 1]
  BY <1>1, HeadTailProperties
<1>3. /\ Len(queue') = n /\ queue'[n] = queue[1]
      /\ \A i \in 1..(n - 1) : queue'[i] = queue[i + 1]
  BY <1>1, <1>2, <1>2a, AppendProperties
<1>4. \A i \in 1..n : i = n \/ i \in 1..(n - 1)
  BY <1>2a
<1>5. 1 \in 1..n /\ \A i \in 1..(n - 1) : i + 1 \in 1..n /\ i + 1 # 1
  BY <1>2a
<1>6. SubmitSound' /\ \A v \in Workers : WorkerSound(v)'
  BY <1>0, <1>1 DEF SubmitSound, Creating, WorkerSound
<1>7. QueuedOnlyWhileUp' /\ RunningHasOneWorker'
  BY <1>0, <1>1 DEF QueuedOnlyWhileUp, RunningHasOneWorker
<1>8. QueueSound'
  <2> DEFINE old(i) == IF i = n THEN 1 ELSE i + 1
  <2>1. \A i \in 1..n : old(i) \in 1..n /\ queue'[i] = queue[old(i)]
    BY <1>3, <1>4, <1>5
  <2>2. \A i, k \in 1..n : old(i) = old(k) => i = k
    BY <1>2a
  <2> QED
    <3>1. ASSUME NEW i \in 1..n
          PROVE  /\ status'[queue'[i]] = "pending" /\ submit'[queue'[i]] = "ended"
                 /\ \A v \in Workers : wjob'[v] # queue'[i]
      BY <1>0, <1>1, <2>1 DEF QueueSound
    <3>2. ASSUME NEW i \in 1..n, NEW k \in 1..n, queue'[k] = queue'[i]
          PROVE  k = i
      <4>1. queue[old(k)] = queue[old(i)] /\ old(k) \in 1..n /\ old(i) \in 1..n
        BY <2>1, <3>2
      <4>2. old(k) = old(i)
        BY <1>0, <4>1 DEF QueueSound
      <4> HIDE DEF old
      <4> QED
        BY <2>2, <4>2
    <3> QED
      BY <1>3, <3>1, <3>2 DEF QueueSound
<1>9. NoPendingJobLost'
  <2>1. ASSUME NEW k \in Jobs, InQueue(k) PROVE InQueue(k)'
    <3>1. PICK i \in 1..n : queue[i] = k
      BY <2>1 DEF InQueue
    <3>2. CASE i = 1
      BY <1>2, <1>2a, <1>3, <3>1, <3>2 DEF InQueue
    <3>3. CASE i # 1
      <4>1. i - 1 \in 1..(n - 1) /\ i - 1 \in 1..n /\ (i - 1) + 1 = i
        BY <1>2a, <3>1, <3>3
      <4>2. queue'[i - 1] = k
        BY <1>3, <3>1, <4>1
      <4> QED
        BY <1>3, <4>1, <4>2 DEF InQueue
    <3> QED
      BY <3>2, <3>3
  <2> QED
    BY <1>0, <1>1, <2>1 DEF NoPendingJobLost, Creating
<1> QED
  BY <1>6, <1>7, <1>8, <1>9 DEF SchedInv

LEMMA SchedRelease ==
    ASSUME SchedInv, TypeOK', NEW w \in Workers, ReleaseInput(w)
    PROVE  SchedInv'
<1> USE DEF SchedInv
<1>1. /\ wpc[w] = "releasing" /\ UNCHANGED <<up, submit, status, queue>>
      /\ wjob'[w] = NoJob
      /\ \A v \in Workers : v # w => wjob'[v] = wjob[v] /\ wpc'[v] = wpc[v]
  BY DEF ReleaseInput, NextIteration, Goto, TypeOK, rowVars, queueVars, procVars
<1>2. SubmitSound' /\ QueuedOnlyWhileUp'
  BY <1>1 DEF SubmitSound, Creating, QueuedOnlyWhileUp
<1>3. \A v \in Workers : WorkerSound(v)'
  BY <1>1 DEF WorkerSound, TypeOK
<1>4. QueueSound'
  <2>1. \A i \in 1..Len(queue) : queue[i] # NoJob
    BY JobAssumption DEF TypeOK
  <2> QED
    BY <1>1, <2>1 DEF QueueSound
<1>5. NoPendingJobLost'
  BY <1>1 DEF NoPendingJobLost, InQueue, Creating
<1>6. RunningHasOneWorker'
  BY <1>1, JobAssumption DEF RunningHasOneWorker, ActivePc
<1> QED
  BY <1>2, <1>3, <1>4, <1>5, <1>6

LEMMA SchedCrash ==
    ASSUME SchedInv, TypeOK', Crash
    PROVE  SchedInv'
<1> USE DEF SchedInv
<1>1. /\ up' = FALSE /\ queue' = <<>> /\ UNCHANGED status
      /\ \A w \in Workers : wjob'[w] = NoJob
      /\ \A j \in Jobs : submit'[j] = IF submit[j] = "unused" THEN "unused" ELSE "ended"
  BY DEF Crash, rowVars
<1>2. SubmitSound'
  BY <1>1 DEF SubmitSound, Creating
<1>3. /\ \A w \in Workers : WorkerSound(w)'
      /\ QueueSound' /\ QueuedOnlyWhileUp' /\ NoPendingJobLost'
      /\ RunningHasOneWorker'
  BY <1>1 DEF WorkerSound, QueueSound, QueuedOnlyWhileUp, NoPendingJobLost,
              RunningHasOneWorker
<1> QED
  BY <1>2, <1>3

\* After a restart exactly the pending jobs are queued, each once.
LEMMA SchedRestart ==
    ASSUME SchedInv, TypeOK', NEW old \in SUBSET Jobs, Restart(old)
    PROVE  SchedInv'
<1>0. TypeOK /\ SubmitSound /\ \A w \in Workers : WorkerSound(w)
  BY DEF SchedInv
<1>1. /\ ~up /\ up' = TRUE /\ old \subseteq TerminalJobs
      /\ UNCHANGED <<submit, wpc, wjob, rowid>> /\ queue' \in InOrder(Restorable, rowid)
  BY DEF Restart, workerVars
<1>2. \A j \in Jobs : status'[j] = IF j \in old THEN "absent"
                                  ELSE IF Lost(j) THEN "error" ELSE status[j]
  BY DEF Restart
<1>3. \A j \in Jobs : /\ status'[j] = "pending" <=> j \in Restorable
                      /\ status'[j] # "running"
                      /\ status[j] = "absent" => status'[j] = "absent"
  BY <1>1, <1>2 DEF Lost, Restorable, TerminalJobs, Terminal
<1>4. /\ Cardinality(Restorable) \in Nat /\ Restorable \subseteq Jobs
  BY JobAssumption, FS_Subset, FS_CardinalityType DEF Restorable
<1>5. /\ Len(queue') = Cardinality(Restorable) /\ DOMAIN queue' = 1..Len(queue')
      /\ \A i \in 1..Len(queue') : queue'[i] \in Restorable
  BY <1>1, <1>4 DEF InOrder
<1>5a. \A j \in Restorable : \E i \in 1..Len(queue') : queue'[i] = j
  BY <1>1, <1>5 DEF InOrder
<1>6. \A i, k \in 1..Len(queue') : queue'[i] = queue'[k] => i = k
  <2>1. \A i, k \in 1..Len(queue') : i < k => rowid[queue'[i]] < rowid[queue'[k]]
    BY <1>1, <1>5 DEF InOrder
  <2>2. \A i \in 1..Len(queue') : rowid[queue'[i]] \in Nat
    BY <1>0, <1>4, <1>5 DEF TypeOK
  <2>3. \A i, k \in 1..Len(queue') : i < k => queue'[i] # queue'[k]
    BY <2>1, <2>2
  <2> QED
    BY <2>3
<1>7. \A w \in Workers : wjob[w] = NoJob
  BY <1>0, <1>1 DEF WorkerSound
<1>8. \A j \in Jobs : submit[j] \in {"unused", "ended"}
  BY <1>0, <1>1 DEF SubmitSound, Creating, TypeOK, SubmitPc
<1>9. SubmitSound'
  BY <1>0, <1>1, <1>3, <1>8 DEF SubmitSound, Creating
<1>10. \A w \in Workers : WorkerSound(w)'
  BY <1>1, <1>7 DEF WorkerSound
<1>11. QueueSound' /\ QueuedOnlyWhileUp'
  <2>1. \A j \in Restorable : submit'[j] = "ended"
    BY <1>0, <1>1, <1>8 DEF SubmitSound, Restorable
  <2>2. \A j \in Restorable : \A w \in Workers : wjob'[w] # j
    BY <1>1, <1>4, <1>7, JobAssumption
  <2> QED
    BY <1>1, <1>3, <1>4, <1>5, <1>6, <2>1, <2>2 DEF QueueSound, QueuedOnlyWhileUp
<1>12. NoPendingJobLost'
  BY <1>3, <1>5a DEF NoPendingJobLost, InQueue
<1>13. RunningHasOneWorker'
  BY <1>3 DEF RunningHasOneWorker
<1> QED
  BY <1>9, <1>10, <1>11, <1>12, <1>13 DEF SchedInv

LEMMA NextSchedInv == SchedInv /\ [Next]_vars => SchedInv'
<1> SUFFICES ASSUME SchedInv, [Next]_vars PROVE SchedInv'
  OBVIOUS
<1>1. TypeOK'
  BY NextTypeOK DEF SchedInv
<1> USE <1>1
<1>2. CASE UNCHANGED vars
  BY <1>2, SchedFrame DEF vars, schedVars, rowVars, queueVars, workerVars, procVars
<1>3. ASSUME NEW f \in Files, Upload(f) PROVE SchedInv'
  BY <1>3, SchedFrame DEF Upload, schedVars, rowVars, queueVars, workerVars, procVars
<1>4. ASSUME NEW j \in Jobs, NEW r \in Requests, Submit(j, r) PROVE SchedInv'
  BY <1>4, SchedSubmit
<1>5. ASSUME NEW j \in Jobs, CreateStep(j) PROVE SchedInv'
  BY <1>5, SchedCreate, SchedEnqueue DEF CreateStep
<1>6. ASSUME NEW w \in Workers, WorkerStep(w) PROVE SchedInv'
  <2> USE DEF rowVars, queueVars, procVars
  <2>1. CASE Claim(w)
    BY <2>1, SchedClaim
  <2>2. CASE Defer(w)
    BY <2>2, SchedDefer
  <2>3. CASE LoadInput(w)
    BY <2>3, SchedGoto DEF LoadInput, WorkerPc, ActivePc
  <2>4. CASE ChooseMode(w)
    BY <2>4, SchedGoto DEF ChooseMode, WorkerPc, ActivePc
  <2>5. CASE Pipeline(w)
    BY <2>5, SchedGoto DEF Pipeline, WorkerPc, ActivePc
  <2>6. CASE SaveSnapshot(w)
    BY <2>6, SchedGoto DEF SaveSnapshot, WorkerPc, ActivePc
  <2>7. CASE CacheResult(w)
    BY <2>7, SchedGoto DEF CacheResult, WorkerPc, ActivePc
  <2>8. CASE IndexResults(w)
    BY <2>8, SchedGoto DEF IndexResults, WorkerPc, ActivePc
  <2>9. CASE ReleaseInput(w)
    BY <2>9, SchedRelease
  <2>10. CASE CompleteJob(w)
    <3>1. WorkerSound(w) /\ wjob[w] \in Jobs /\ wjob[w] # NoJob
      BY <2>10, JobAssumption DEF CompleteJob, SchedInv, TypeOK
    <3>2. status' = [status EXCEPT ![wjob[w]] = "done"]
      BY <2>10, <3>1 DEF CompleteJob, SetStatus, WorkerSound, ActivePc
    <3>3. wpc' = [wpc EXCEPT ![w] = "completed"] /\ wpc[w] # "idle"
      BY <2>10 DEF CompleteJob, Goto
    <3> QED
      BY <2>10, <3>2, <3>3, SchedWork DEF CompleteJob, Status, Terminal, WorkerPc, ActivePc
  <2>11. CASE FailJob(w)
    <3> DEFINE s == IF status[wjob[w]] = "absent" THEN "absent" ELSE "error"
    <3>1. status' = [status EXCEPT ![wjob[w]] = s]
      BY <2>11 DEF FailJob, SetStatus
    <3>2. wpc' = [wpc EXCEPT ![w] = "releasing"] /\ wpc[w] # "idle"
      BY <2>11 DEF FailJob, Goto
    <3>3. s \in Status \ {"pending"} /\ s # "running"
      BY DEF Status, Terminal
    <3> HIDE DEF s
    <3> QED
      BY <2>11, <3>1, <3>2, <3>3, SchedWork DEF FailJob, WorkerPc, ActivePc
  <2> QED
    BY <1>6, <2>1, <2>2, <2>3, <2>4, <2>5, <2>6, <2>7, <2>8, <2>9, <2>10, <2>11
       DEF WorkerStep
<1>7. ASSUME NEW old \in SUBSET Jobs, ExpireJobs(old) PROVE SchedInv'
  BY <1>7, SchedDelete DEF ExpireJobs, queueVars, workerVars, procVars
<1>8. ASSUME NEW c \in CapChoices, NEW b \in CleanupChoices, NEW old \in SUBSET Jobs,
             UpdateSettings(c, b, old)
      PROVE  SchedInv'
  BY <1>8, SchedDelete DEF UpdateSettings, queueVars, workerVars, procVars
<1>9. ASSUME NEW b \in LlmChoices, SetLlmEnabled(b) PROVE SchedInv'
  BY <1>9, SchedFrame DEF SetLlmEnabled, schedVars, rowVars, queueVars, workerVars, procVars
<1>10. CASE ClearStep
  <2>1. CASE ClearSelect \/ ClearCache
    BY <2>1, SchedFrame DEF ClearSelect, ClearCache, schedVars, rowVars, queueVars,
                            workerVars, procVars
  <2>2. CASE ClearDelete
    BY <2>2, SchedDelete DEF ClearDelete, queueVars, workerVars, procVars
  <2> QED
    BY <1>10, <2>1, <2>2 DEF ClearStep
<1>11. CASE Crash
  BY <1>11, SchedCrash
<1>12. ASSUME NEW old \in SUBSET Jobs, Restart(old) PROVE SchedInv'
  BY <1>12, SchedRestart
<1> QED
  BY <1>2, <1>3, <1>4, <1>5, <1>6, <1>7, <1>8, <1>9, <1>10, <1>11, <1>12 DEF Next

LEMMA AlwaysSchedInv == Spec => []SchedInv
BY InitSchedInv, NextSchedInv, PTL DEF Spec

\* A job id waits in JOB_QUEUE at most once and only while its row is
\* pending and nobody else holds it, for any number of jobs and workers.
THEOREM QueueStaysSound == Spec => []QueueSound
<1>1. SchedInv => QueueSound
  BY DEF SchedInv
<1> QED
  BY <1>1, AlwaysSchedInv, PTL

\* No accepted job is ever forgotten while the process runs.
THEOREM PendingJobsAreKept == Spec => []NoPendingJobLost
<1>1. SchedInv => NoPendingJobLost
  BY DEF SchedInv
<1> QED
  BY <1>1, AlwaysSchedInv, PTL

\* Every running row has exactly one worker that executes it.
THEOREM RunningJobsHaveOneWorker == Spec => []RunningHasOneWorker
<1>1. SchedInv => RunningHasOneWorker
  BY DEF SchedInv
<1> QED
  BY <1>1, AlwaysSchedInv, PTL

-----------------------------------------------------------------------------
(***************************************************************************)
(* The life of a row.                                                      *)
(***************************************************************************)

\* What one step may do to the status of one job.
StatusStep(j) ==
    \/ status'[j] = status[j]
    \/ status[j] = "absent"  /\ submit[j] = "unused" /\ status'[j] = "pending"
    \/ status[j] = "pending" /\ status'[j] = "error"
    \/ /\ status[j] = "pending" /\ status'[j] = "running"
       /\ \E w \in Workers : Claim(w) /\ j = Head(queue)
    \/ status[j] = "running" /\ status'[j] \in Terminal
    \/ status[j] \in Terminal /\ status'[j] \in {"error", "absent"}

LEMMA StatusSteps ==
    ASSUME SchedInv, [Next]_vars, NEW j \in Jobs
    PROVE  StatusStep(j)
<1> USE DEF SchedInv
<1>1. CASE UNCHANGED status
  BY <1>1 DEF StatusStep
<1>2. ASSUME NEW k \in Jobs, NEW r \in Requests, Submit(k, r) PROVE StatusStep(j)
  <2>1. submit[k] = "unused" /\ status' = [status EXCEPT ![k] = "pending"]
    BY <1>2 DEF Submit
  <2>2. status[k] = "absent"
    BY <2>1 DEF SubmitSound
  <2> QED
    BY <2>1, <2>2 DEF StatusStep, TypeOK
<1>3. ASSUME NEW k \in Jobs, ReserveInput(k) PROVE StatusStep(j)
  <2>1. status[k] = "pending"
    BY <1>3 DEF ReserveInput, SubmitSound, Creating
  <2>2. status' = status \/ status' = [status EXCEPT ![k] = "error"]
    BY <1>3 DEF ReserveInput
  <2> QED
    BY <2>1, <2>2 DEF StatusStep, TypeOK
<1>4. ASSUME NEW w \in Workers, Claim(w) PROVE StatusStep(j)
  <2>1. status[Head(queue)] = "pending"
        /\ status' = [status EXCEPT ![Head(queue)] = "running"]
    BY <1>4 DEF Claim, Claimable
  <2> QED
    BY <1>4, <2>1 DEF StatusStep, TypeOK
<1>5. ASSUME NEW w \in Workers, CompleteJob(w) PROVE StatusStep(j)
  <2>1. WorkerSound(w) /\ wjob[w] \in Jobs /\ wjob[w] # NoJob
    BY <1>5, JobAssumption DEF CompleteJob, TypeOK
  <2>2. status[wjob[w]] = "running" /\ status' = [status EXCEPT ![wjob[w]] = "done"]
    BY <1>5, <2>1 DEF CompleteJob, SetStatus, WorkerSound, ActivePc
  <2> QED
    BY <2>1, <2>2 DEF StatusStep, TypeOK, Terminal
<1>6. ASSUME NEW w \in Workers, FailJob(w) PROVE StatusStep(j)
  <2>1. WorkerSound(w) /\ wjob[w] \in Jobs /\ wjob[w] # NoJob
    BY <1>6, JobAssumption DEF FailJob, TypeOK
  <2>2. status[wjob[w]] \in {"absent", "running"} \cup Terminal
    BY <2>1 DEF WorkerSound, TypeOK, Status
  <2>3. status' = [status EXCEPT ![wjob[w]] = IF @ = "absent" THEN @ ELSE "error"]
    BY <1>6 DEF FailJob, SetStatus
  <2> QED
    BY <2>1, <2>2, <2>3 DEF StatusStep, TypeOK, Terminal
<1>7. ASSUME NEW gone \in SUBSET TerminalJobs, DeleteRows(gone) PROVE StatusStep(j)
  BY <1>7 DEF DeleteRows, TerminalJobs, StatusStep
<1>8. ASSUME NEW old \in SUBSET Jobs, Restart(old) PROVE StatusStep(j)
  <2>1. status'[j] = IF j \in old THEN "absent" ELSE IF Lost(j) THEN "error" ELSE status[j]
    BY <1>8 DEF Restart
  <2>2. old \subseteq TerminalJobs
    BY <1>8 DEF Restart
  <2> QED
    BY <2>1, <2>2 DEF StatusStep, TerminalJobs, Terminal, Lost
<1>9. \/ UNCHANGED status
      \/ \E k \in Jobs, r \in Requests : Submit(k, r)
      \/ \E k \in Jobs : ReserveInput(k)
      \/ \E w \in Workers : Claim(w) \/ CompleteJob(w) \/ FailJob(w)
      \/ \E gone \in SUBSET TerminalJobs : DeleteRows(gone)
      \/ \E old \in SUBSET Jobs : Restart(old)
  <2> USE DEF rowVars
  <2>1. ASSUME NEW k \in Jobs, CreateStep(k) PROVE ReserveInput(k) \/ UNCHANGED status
    BY <2>1 DEF CreateStep, CacheEntry, Enqueue
  <2>2. ASSUME NEW w \in Workers, WorkerStep(w)
        PROVE  Claim(w) \/ CompleteJob(w) \/ FailJob(w) \/ UNCHANGED status
    BY <2>2 DEF WorkerStep, Defer, LoadInput, ChooseMode, Pipeline, SaveSnapshot,
                CacheResult, IndexResults, ReleaseInput
  <2>3. ASSUME NEW old \in SUBSET Jobs, ExpireJobs(old)
        PROVE  \E gone \in SUBSET TerminalJobs : DeleteRows(gone)
    BY <2>3 DEF ExpireJobs
  <2>4. ASSUME NEW c \in CapChoices, NEW b \in CleanupChoices, NEW old \in SUBSET Jobs,
               UpdateSettings(c, b, old)
        PROVE  \E gone \in SUBSET TerminalJobs : DeleteRows(gone)
    BY <2>4 DEF UpdateSettings
  <2>5. CASE ClearStep
    BY <2>5 DEF ClearStep, ClearSelect, ClearDelete, ClearCache
  <2>6. CASE Crash
    BY <2>6 DEF Crash
  <2>7. ASSUME NEW f \in Files, Upload(f) PROVE UNCHANGED status
    BY <2>7 DEF Upload
  <2>8. ASSUME NEW b \in LlmChoices, SetLlmEnabled(b) PROVE UNCHANGED status
    BY <2>8 DEF SetLlmEnabled
  <2>9. CASE UNCHANGED vars
    BY <2>9 DEF vars
  <2> QED
    BY <2>1, <2>2, <2>3, <2>4, <2>5, <2>6, <2>7, <2>8, <2>9 DEF Next
<1> QED
  BY <1>1, <1>2, <1>3, <1>4, <1>5, <1>6, <1>7, <1>8, <1>9

\* A terminal row is never scheduled again, a failed job never becomes done,
\* and a deleted row never comes back.
THEOREM LifeIsOneWay == Spec => OneWayLife
<1> DEFINE Life(j) ==
      /\ status[j] \in Terminal => status'[j] \in Terminal \cup {"absent"}
      /\ status[j] = "error" => status'[j] # "done"
      /\ status[j] = "running" => status'[j] \notin {"pending", "absent"}
      /\ status[j] = "absent" /\ submit[j] # "unused" => status'[j] = "absent"
<1>1. ASSUME SchedInv, [Next]_vars, NEW j \in Jobs PROVE Life(j)
  BY <1>1, StatusSteps DEF StatusStep, Terminal
<1>2. SchedInv /\ [Next]_vars => \A j \in Jobs : Life(j)
  BY <1>1
<1>3. SchedInv /\ [Next]_vars => [\A j \in Jobs : Life(j)]_vars
  BY <1>2
<1> QED
  BY <1>3, AlwaysSchedInv, PTL DEF Spec, OneWayLife

-----------------------------------------------------------------------------
(***************************************************************************)
(* The data around a job: the per-user cap, the snapshot of its forecast,  *)
(* the mode it runs in, and the reservation of its input file.             *)
(***************************************************************************)
\* Starting a job of an ordinary user never takes that user above the cap in
\* force, whatever the number of workers and jobs.
THEOREM CapIsRespected == Spec => ClaimRespectsCap
<1> DEFINE Capped(j) == status[j] = "pending" /\ status'[j] = "running" =>
              req[j].admin \/ Cardinality(RunningOf(req[j].user)') <= cap
<1>1. ASSUME SchedInv, [Next]_vars, NEW j \in Jobs, status[j] = "pending",
             status'[j] = "running", ~req[j].admin
      PROVE  Cardinality(RunningOf(req[j].user)') <= cap
  <2>1. PICK w \in Workers : Claim(w) /\ j = Head(queue)
    BY <1>1, StatusSteps DEF StatusStep, Terminal
  <2>2. /\ status' = [status EXCEPT ![j] = "running"] /\ req' = req
        /\ Cardinality(RunningOf(req[j].user)) < cap
    BY <1>1, <2>1 DEF Claim, Claimable
  <2>3. IsFiniteSet(RunningOf(req[j].user))
    BY JobAssumption, FS_Subset DEF RunningOf
  <2>4. j \notin RunningOf(req[j].user)
    BY <1>1 DEF RunningOf
  <2>5. RunningOf(req[j].user)' = RunningOf(req[j].user) \cup {j}
    BY <1>1, <2>2 DEF RunningOf, SchedInv, TypeOK
  <2>6. Cardinality(RunningOf(req[j].user)') = Cardinality(RunningOf(req[j].user)) + 1
    BY <2>3, <2>4, <2>5, FS_AddElement
  <2>7. Cardinality(RunningOf(req[j].user)) \in Nat /\ cap \in Nat
    BY <1>1, <2>3, FS_CardinalityType, JobAssumption DEF SchedInv, TypeOK
  <2> QED
    BY <2>2, <2>6, <2>7
<1>2. SchedInv /\ [Next]_vars => [\A j \in Jobs : Capped(j)]_vars
  BY <1>1
<1> QED
  BY <1>2, AlwaysSchedInv, PTL DEF Spec, ClaimRespectsCap

-----------------------------------------------------------------------------
(***************************************************************************)
(* Snapshots.                                                              *)
(***************************************************************************)
SnapshotInv ==
    /\ SchedInv
    /\ SnapshotsMatchRows
    /\ \A w \in Workers : wpc[w] = "saved" => wjob[w] \in snapshots

LEMMA InitSnapshotInv == Init => SnapshotInv
BY InitSchedInv DEF SnapshotInv, SnapshotsMatchRows, Init

\* Deleting finished rows together with their snapshots.
LEMMA SnapshotDelete ==
    ASSUME SnapshotInv, SchedInv', NEW gone \in SUBSET TerminalJobs, DeleteRows(gone),
           UNCHANGED <<wpc, wjob>>
    PROVE  SnapshotInv'
<1>1. SnapshotsMatchRows'
  <2>1. snapshots \subseteq Jobs /\ SnapshotsMatchRows
    BY DEF SnapshotInv, SchedInv, TypeOK
  <2>2. \A j \in Jobs : status'[j] = IF j \in gone THEN "absent" ELSE status[j]
    BY DEF DeleteRows
  <2>3. snapshots' = snapshots \ gone
    BY DEF DeleteRows
  <2> QED
    BY <2>1, <2>2, <2>3 DEF SnapshotsMatchRows
<1>2. ASSUME NEW w \in Workers, wpc[w] = "saved" PROVE wjob[w] \in snapshots'
  <2>1. wjob[w] \in snapshots /\ wjob[w] \in Jobs /\ wjob[w] # NoJob
    BY <1>2, JobAssumption DEF SnapshotInv, SchedInv, TypeOK
  <2>2. status[wjob[w]] = "running"
    BY <1>2, <2>1 DEF SnapshotInv, SchedInv, WorkerSound, ActivePc
  <2>3. wjob[w] \notin gone
    BY <2>2 DEF TerminalJobs, Terminal
  <2> QED
    BY <2>1, <2>3 DEF DeleteRows
<1> QED
  BY <1>1, <1>2 DEF SnapshotInv

LEMMA NextSnapshotInv == SnapshotInv /\ [Next]_vars => SnapshotInv'
<1> SUFFICES ASSUME SnapshotInv, [Next]_vars PROVE SnapshotInv'
  OBVIOUS
<1>1. SchedInv /\ SchedInv' /\ TypeOK /\ SnapshotsMatchRows
  BY NextSchedInv DEF SnapshotInv, SchedInv
<1>3. CASE UNCHANGED <<status, snapshots>>
           /\ \A w \in Workers : wpc'[w] = "saved" => wpc[w] = "saved" /\ wjob'[w] = wjob[w]
  BY <1>1, <1>3 DEF SnapshotInv, SnapshotsMatchRows
<1>4. ASSUME NEW j \in Jobs, NEW r \in Requests, Submit(j, r) PROVE SnapshotInv'
  <2>1. /\ UNCHANGED <<snapshots, wpc, wjob>>
        /\ status' = [status EXCEPT ![j] = "pending"]
    BY <1>4 DEF Submit, workerVars
  <2> QED
    BY <1>1, <2>1 DEF SnapshotInv, SnapshotsMatchRows, TypeOK
<1>5. ASSUME NEW j \in Jobs, ReserveInput(j) PROVE SnapshotInv'
  <2>1. /\ UNCHANGED <<snapshots, wpc, wjob>>
        /\ status' = status \/ status' = [status EXCEPT ![j] = "error"]
    BY <1>5 DEF ReserveInput, workerVars
  <2> QED
    BY <1>1, <2>1 DEF SnapshotInv, SnapshotsMatchRows, TypeOK
<1>6. ASSUME NEW w \in Workers, Claim(w) PROVE SnapshotInv'
  <2>1. /\ UNCHANGED snapshots
        /\ status' = [status EXCEPT ![Head(queue)] = "running"]
        /\ wpc' = [wpc EXCEPT ![w] = "claimed"]
        /\ wjob' = [wjob EXCEPT ![w] = Head(queue)]
    BY <1>6 DEF Claim
  <2>2. SnapshotsMatchRows'
    BY <1>1, <2>1 DEF SnapshotsMatchRows, TypeOK
  <2>3. \A v \in Workers : wpc'[v] = "saved" => wpc[v] = "saved" /\ wjob'[v] = wjob[v]
    BY <1>1, <2>1 DEF TypeOK
  <2> QED
    BY <1>1, <2>1, <2>2, <2>3 DEF SnapshotInv
<1>7. ASSUME NEW w \in Workers, SaveSnapshot(w) PROVE SnapshotInv'
  <2>1. /\ UNCHANGED <<status, wjob>> /\ wjob[w] \in Jobs
        /\ \/ /\ status[wjob[w]] # "absent" /\ snapshots' = snapshots \cup {wjob[w]}
              /\ wpc' = [wpc EXCEPT ![w] = "saved"]
           \/ UNCHANGED snapshots /\ wpc' = [wpc EXCEPT ![w] = "failing"]
    BY <1>1, <1>7 DEF SaveSnapshot, Goto, TypeOK
  <2>2. SnapshotsMatchRows'
    BY <2>1 DEF SnapshotInv, SnapshotsMatchRows
  <2>3. \A v \in Workers : wpc'[v] = "saved" => wjob'[v] \in snapshots'
    BY <1>1, <2>1 DEF SnapshotInv, TypeOK
  <2> QED
    BY <1>1, <2>2, <2>3 DEF SnapshotInv
<1>8. ASSUME NEW w \in Workers, CompleteJob(w) PROVE SnapshotInv'
  <2>1. /\ UNCHANGED <<snapshots, wjob>> /\ wjob[w] \in snapshots
        /\ \A j \in Jobs : j # wjob[w] => status'[j] = status[j]
        /\ wpc' = [wpc EXCEPT ![w] = "completed"]
    BY <1>1, <1>8 DEF CompleteJob, SetStatus, Goto, SnapshotInv, TypeOK
  <2>2. status[wjob[w]] # "absent" /\ wjob[w] \in Jobs
    BY <1>1, <2>1 DEF SnapshotsMatchRows, TypeOK
  <2>3. status'[wjob[w]] = "done"
    BY <1>1, <1>8, <2>2 DEF CompleteJob, SetStatus, TypeOK
  <2>4. SnapshotsMatchRows'
    BY <1>1, <2>1, <2>3 DEF SnapshotsMatchRows, TypeOK
  <2>5. \A v \in Workers : wpc'[v] = "saved" => wpc[v] = "saved" /\ wjob'[v] = wjob[v]
    BY <1>1, <2>1 DEF TypeOK
  <2> QED
    BY <1>1, <2>1, <2>4, <2>5 DEF SnapshotInv
<1>9. ASSUME NEW w \in Workers, FailJob(w) PROVE SnapshotInv'
  <2>1. /\ UNCHANGED <<snapshots, wjob>>
        /\ status' = [status EXCEPT ![wjob[w]] = IF @ = "absent" THEN @ ELSE "error"]
        /\ wpc' = [wpc EXCEPT ![w] = "releasing"]
    BY <1>9 DEF FailJob, SetStatus, Goto
  <2>2. SnapshotsMatchRows'
    BY <1>1, <2>1 DEF SnapshotsMatchRows, TypeOK
  <2>3. \A v \in Workers : wpc'[v] = "saved" => wpc[v] = "saved" /\ wjob'[v] = wjob[v]
    BY <1>1, <2>1 DEF TypeOK
  <2> QED
    BY <1>1, <2>1, <2>2, <2>3 DEF SnapshotInv
<1>10. ASSUME NEW old \in SUBSET Jobs, Restart(old) PROVE SnapshotInv'
  <2>1. /\ snapshots' = snapshots \ old /\ UNCHANGED <<wpc, wjob>>
        /\ \A j \in Jobs : status'[j] = IF j \in old THEN "absent"
                                        ELSE IF Lost(j) THEN "error" ELSE status[j]
        /\ ~up
    BY <1>10 DEF Restart, workerVars
  <2>2. SnapshotsMatchRows'
    BY <1>1, <2>1 DEF SnapshotsMatchRows, TypeOK
  <2>3. \A v \in Workers : wpc[v] # "saved"
    BY <1>1, <2>1 DEF SchedInv, WorkerSound, TypeOK
  <2> QED
    BY <1>1, <2>1, <2>2, <2>3 DEF SnapshotInv
<1>11. ASSUME NEW gone \in SUBSET TerminalJobs, DeleteRows(gone), UNCHANGED workerVars
       PROVE  SnapshotInv'
  BY <1>1, <1>11, SnapshotDelete DEF workerVars
<1> USE DEF rowVars, workerVars
<1>12. ASSUME NEW j \in Jobs, CacheEntry(j) \/ Enqueue(j) PROVE SnapshotInv'
  BY <1>3, <1>12 DEF CacheEntry, Enqueue
<1>13. ASSUME NEW w \in Workers, \/ LoadInput(w) \/ ChooseMode(w) \/ Pipeline(w)
                                 \/ CacheResult(w) \/ IndexResults(w)
       PROVE  SnapshotInv'
  BY <1>1, <1>3, <1>13 DEF LoadInput, ChooseMode, Pipeline, CacheResult, IndexResults,
                           Goto, TypeOK
<1>14. ASSUME NEW w \in Workers, Defer(w) PROVE SnapshotInv'
  BY <1>3, <1>14 DEF Defer
<1>15. ASSUME NEW w \in Workers, ReleaseInput(w) PROVE SnapshotInv'
  BY <1>1, <1>3, <1>15 DEF ReleaseInput, NextIteration, Goto, TypeOK
<1>16. ASSUME NEW old \in SUBSET Jobs, ExpireJobs(old) PROVE SnapshotInv'
  BY <1>11, <1>16 DEF ExpireJobs
<1>17. ASSUME NEW c \in CapChoices, NEW b \in CleanupChoices, NEW old \in SUBSET Jobs,
              UpdateSettings(c, b, old)
       PROVE  SnapshotInv'
  BY <1>11, <1>17 DEF UpdateSettings
<1>18. CASE ClearStep
  <2>1. CASE ClearSelect \/ ClearCache
    BY <1>3, <2>1 DEF ClearSelect, ClearCache
  <2>2. CASE ClearDelete
    BY <1>11, <2>2 DEF ClearDelete
  <2> QED
    BY <1>18, <2>1, <2>2 DEF ClearStep
<1>19. ASSUME NEW f \in Files, Upload(f) PROVE SnapshotInv'
  BY <1>3, <1>19 DEF Upload
<1>20. ASSUME NEW b \in LlmChoices, SetLlmEnabled(b) PROVE SnapshotInv'
  BY <1>3, <1>20 DEF SetLlmEnabled
<1>21. CASE Crash
  BY <1>3, <1>21 DEF Crash
<1>22. CASE UNCHANGED vars
  BY <1>3, <1>22 DEF vars
<1> QED
  BY <1>4, <1>5, <1>6, <1>7, <1>8, <1>9, <1>10, <1>12, <1>13, <1>14, <1>15, <1>16,
     <1>17, <1>18, <1>19, <1>20, <1>21, <1>22 DEF Next, CreateStep, WorkerStep

\* A finished job has its issued forecast on record and a record never
\* outlives its row.
THEOREM SnapshotsFollowRows == Spec => []SnapshotsMatchRows
<1>1. SnapshotInv => SnapshotsMatchRows
  BY DEF SnapshotInv
<1> QED
  BY <1>1, InitSnapshotInv, NextSnapshotInv, PTL DEF Spec

-----------------------------------------------------------------------------
(***************************************************************************)
(* The mode of a run.                                                      *)
(***************************************************************************)
ModeInv == TypeOK /\ TraditionalRunsForcedModel

LEMMA NextModeInv == ModeInv /\ SchedInv /\ [Next]_vars => ModeInv'
<1> SUFFICES ASSUME ModeInv, SchedInv, [Next]_vars PROVE TraditionalRunsForcedModel'
  BY NextTypeOK DEF ModeInv
<1> DEFINE Running(w) == wpc[w] \in {"pipeline", "ran", "saved"}
<1> USE DEF rowVars, workerVars, queueVars
<1>1. TypeOK /\ TraditionalRunsForcedModel /\ TypeOK'
  BY NextTypeOK DEF ModeInv
<1>2. ASSUME UNCHANGED req,
             \A w \in Workers : Running(w)' =>
                Running(w) /\ wjob'[w] = wjob[w] /\ wtrad'[w] = wtrad[w]
      PROVE  TraditionalRunsForcedModel'
  BY <1>1, <1>2 DEF TraditionalRunsForcedModel
<1>3. ASSUME NEW j \in Jobs, NEW r \in Requests, Submit(j, r)
      PROVE  TraditionalRunsForcedModel'
  <2>1. submit[j] = "unused" /\ UNCHANGED <<wpc, wjob, wtrad>>
        /\ \A k \in Jobs : k # j => req'[k] = req[k]
    BY <1>1, <1>3 DEF Submit, TypeOK
  <2>2. \A w \in Workers : Running(w) => wjob[w] \in Jobs /\ wjob[w] # j
    BY <1>1, <2>1, JobAssumption DEF SchedInv, WorkerSound, TypeOK
  <2> QED
    BY <1>1, <2>1, <2>2 DEF TraditionalRunsForcedModel
<1>4. ASSUME NEW w \in Workers, ChooseMode(w) PROVE TraditionalRunsForcedModel'
  <2>1. /\ UNCHANGED <<req, wjob>>
        /\ wtrad' = [wtrad EXCEPT ![w] = Traditional(req[wjob[w]])]
        /\ wpc' = [wpc EXCEPT ![w] = IF Runnable(req[wjob[w]]) THEN "pipeline" ELSE "failing"]
    BY <1>4 DEF ChooseMode, Goto
  <2> QED
    BY <1>1, <2>1 DEF TraditionalRunsForcedModel, Runnable, TypeOK
<1>5. ASSUME NEW w \in Workers, Claim(w) PROVE TraditionalRunsForcedModel'
  BY <1>1, <1>2, <1>5 DEF Claim, TypeOK
<1>6. ASSUME NEW w \in Workers,
             \/ LoadInput(w) \/ Pipeline(w) \/ SaveSnapshot(w) \/ CompleteJob(w)
             \/ CacheResult(w) \/ IndexResults(w) \/ FailJob(w)
      PROVE  TraditionalRunsForcedModel'
  BY <1>1, <1>2, <1>6 DEF LoadInput, Pipeline, SaveSnapshot, CompleteJob, CacheResult,
                          IndexResults, FailJob, Goto, TypeOK
<1>7. ASSUME NEW w \in Workers, ReleaseInput(w) PROVE TraditionalRunsForcedModel'
  BY <1>1, <1>2, <1>7 DEF ReleaseInput, NextIteration, Goto, TypeOK
<1>8. ASSUME NEW w \in Workers, Defer(w) PROVE TraditionalRunsForcedModel'
  BY <1>2, <1>8 DEF Defer
<1>9. ASSUME NEW j \in Jobs, CreateStep(j) PROVE TraditionalRunsForcedModel'
  BY <1>2, <1>9 DEF CreateStep, ReserveInput, CacheEntry, Enqueue
<1>10. ASSUME NEW old \in SUBSET Jobs, ExpireJobs(old) PROVE TraditionalRunsForcedModel'
  BY <1>2, <1>10 DEF ExpireJobs
<1>11. ASSUME NEW c \in CapChoices, NEW b \in CleanupChoices, NEW old \in SUBSET Jobs,
              UpdateSettings(c, b, old)
       PROVE  TraditionalRunsForcedModel'
  BY <1>2, <1>11 DEF UpdateSettings
<1>12. CASE ClearStep
  BY <1>2, <1>12 DEF ClearStep, ClearSelect, ClearDelete, ClearCache
<1>13. ASSUME NEW f \in Files, Upload(f) PROVE TraditionalRunsForcedModel'
  BY <1>2, <1>13 DEF Upload
<1>14. ASSUME NEW b \in LlmChoices, SetLlmEnabled(b) PROVE TraditionalRunsForcedModel'
  BY <1>2, <1>14 DEF SetLlmEnabled
<1>15. CASE Crash
  BY <1>2, <1>15 DEF Crash
<1>16. ASSUME NEW old \in SUBSET Jobs, Restart(old) PROVE TraditionalRunsForcedModel'
  BY <1>2, <1>16 DEF Restart
<1>17. CASE UNCHANGED vars
  BY <1>2, <1>17 DEF vars
<1> QED
  BY <1>3, <1>4, <1>5, <1>6, <1>7, <1>8, <1>9, <1>10, <1>11, <1>12, <1>13, <1>14,
     <1>15, <1>16, <1>17 DEF Next, WorkerStep

\* A run without the LLM only ever executes a model the user named.
THEOREM TraditionalNeedsModel == Spec => []TraditionalRunsForcedModel
<1>1. Init => ModeInv
  BY InitTypeOK DEF Init, ModeInv, TraditionalRunsForcedModel
<1>2. ModeInv => TraditionalRunsForcedModel
  BY DEF ModeInv
<1> QED
  BY <1>1, <1>2, NextModeInv, AlwaysSchedInv, PTL DEF Spec
-----------------------------------------------------------------------------
(***************************************************************************)
(* The reservation of a job's input file: the file store's counter is at   *)
(* every moment the number of jobs that still need the file, so an upload  *)
(* never evicts it, and the scheduler uses the file store only through its *)
(* promises.                                                               *)
(***************************************************************************)

HoldersOf(f) == {j \in Jobs : HoldsFile(j) /\ req[j].file = f}

FileInv ==
    /\ SchedInv
    /\ ReservationsExact
    /\ InputNotEvicted

LEMMA HoldersFinite ==
    ASSUME NEW f
    PROVE  /\ IsFiniteSet(HoldersOf(f))
           /\ Cardinality(HoldersOf(f)) \in Nat
           /\ Cardinality(HoldersOf(f)) = 0 <=> HoldersOf(f) = {}
<1>1. IsFiniteSet(HoldersOf(f))
  BY JobAssumption, FS_Subset DEF HoldersOf
<1> QED
  BY <1>1, FS_CardinalityType, FS_EmptySet

LEMMA InitFileInv == Init => FileInv
<1> SUFFICES ASSUME Init PROVE FileInv
  OBVIOUS
<1>1. SchedInv
  BY InitSchedInv
<1>2. \A j \in Jobs : ~HoldsFile(j)
  BY DEF Init, HoldsFile, InQueue, Executing
<1>3. \A f \in Files : HoldersOf(f) = {} /\ active[f] = 0
  BY <1>2 DEF HoldersOf, Init, FilesInit
<1>4. \A f \in Files : active[f] = Cardinality(HoldersOf(f))
  BY <1>3, HoldersFinite
<1> QED
  BY <1>1, <1>2, <1>4 DEF FileInv, ReservationsExact, InputNotEvicted, HoldersOf

\* Steps after which the same jobs need the same files.
LEMMA HoldersFrame ==
    ASSUME FileInv, SchedInv', UNCHANGED <<up, files, active>>,
           \A j \in Jobs : HoldsFile(j)' <=> HoldsFile(j),
           \A j \in Jobs : HoldsFile(j) => req'[j] = req[j]
    PROVE  FileInv'
<1>1. \A f \in Files : HoldersOf(f)' = HoldersOf(f)
  BY DEF HoldersOf
<1> QED
  BY <1>1 DEF FileInv, ReservationsExact, InputNotEvicted, HoldersOf

\* A job in its last step of create_job, in the queue or with a worker needs
\* its file; these places exclude each other.
LEMMA WorkerHolds ==
    ASSUME SchedInv, NEW w \in Workers, wpc[w] # "idle"
    PROVE  /\ wjob[w] \in Jobs /\ up /\ HoldsFile(wjob[w])
           /\ req[wjob[w]] \in Request
           /\ submit[wjob[w]] = "ended" /\ ~InQueue(wjob[w])
           /\ \A v \in Workers : wjob[v] = wjob[w] => v = w
<1>1. wjob[w] \in Jobs /\ wjob[w] # NoJob
  BY DEF SchedInv, TypeOK
<1>2. up /\ submit[wjob[w]] = "ended" /\ \A v \in Workers : wjob[v] = wjob[w] => v = w
  BY <1>1 DEF SchedInv, WorkerSound
<1>3. ~InQueue(wjob[w])
  BY DEF SchedInv, QueueSound, InQueue
<1>4. req[wjob[w]] \in Request
  BY <1>1, <1>2 DEF SchedInv, TypeOK
<1> QED
  BY <1>1, <1>2, <1>3, <1>4 DEF HoldsFile, Executing

\* Steps of a worker that keeps its job.
LEMMA FileWork ==
    ASSUME FileInv, SchedInv', NEW w \in Workers, wpc[w] # "idle",
           NEW pc \in WorkerPc \ {"idle"}, wpc' = [wpc EXCEPT ![w] = pc],
           UNCHANGED <<up, files, active, req, submit, queue, wjob>>
    PROVE  FileInv'
<1>1. \A v \in Workers : wpc'[v] = "idle" <=> wpc[v] = "idle"
  BY DEF FileInv, SchedInv, TypeOK
<1>2. \A j \in Jobs : HoldsFile(j)' <=> HoldsFile(j)
  BY <1>1 DEF HoldsFile, InQueue, Executing
<1> QED
  BY <1>2, HoldersFrame

LEMMA FileReserve ==
    ASSUME FileInv, SchedInv', NEW j \in Jobs, ReserveInput(j)
    PROVE  FileInv'
<1>0. SchedInv /\ TypeOK
  BY DEF FileInv, SchedInv
<1>1. /\ submit[j] = "inserted" /\ up /\ status[j] = "pending"
      /\ UNCHANGED <<up, files, req, queue, wpc, wjob>>
  BY <1>0 DEF ReserveInput, ReserveFile, SchedInv, SubmitSound, Creating, workerVars,
              procVars, fileVars
<1>2. PICK f \in Files : f = req[j].file
  BY <1>0, <1>1 DEF TypeOK, Request
<1>3. ~InQueue(j) /\ \A w \in Workers : wjob[w] # j
  BY <1>0, <1>1, JobAssumption DEF SchedInv, QueueSound, InQueue, WorkerSound
<1>4. ~HoldsFile(j)
  BY <1>1, <1>3 DEF HoldsFile, Executing
<1>5. \A k \in Jobs : k # j => submit'[k] = submit[k]
  BY <1>0 DEF ReserveInput, TypeOK
<1>6. \A k \in Jobs : k # j => (HoldsFile(k)' <=> HoldsFile(k))
  BY <1>1, <1>5 DEF HoldsFile, InQueue, Executing
<1>7. CASE ReserveFile(f) /\ submit' = [submit EXCEPT ![j] = "reserved"]
  <2>1. HoldsFile(j)'
    BY <1>0, <1>7 DEF HoldsFile, TypeOK
  <2>2. files[f] = "stored" /\ active' = [active EXCEPT ![f] = @ + 1]
    BY <1>7 DEF ReserveFile
  <2>3. HoldersOf(f)' = HoldersOf(f) \cup {j} /\ j \notin HoldersOf(f)
    BY <1>1, <1>2, <1>4, <1>6, <2>1 DEF HoldersOf
  <2>4. Cardinality(HoldersOf(f)') = Cardinality(HoldersOf(f)) + 1
    BY <2>3, HoldersFinite, FS_AddElement
  <2>5. \A g \in Files : g # f => HoldersOf(g)' = HoldersOf(g)
    BY <1>1, <1>2, <1>6 DEF HoldersOf
  <2>6. \A g \in Files : active[g] = Cardinality(HoldersOf(g))
    BY <1>1 DEF FileInv, ReservationsExact, HoldersOf
  <2>7. ASSUME NEW g \in Files PROVE active'[g] = Cardinality(HoldersOf(g)')
    <3>1. CASE g = f
      BY <1>0, <2>2, <2>4, <2>6, <3>1 DEF TypeOK, FilesTypeOK
    <3>2. CASE g # f
      BY <1>0, <2>2, <2>5, <2>6, <3>2 DEF TypeOK, FilesTypeOK
    <3> QED
      BY <3>1, <3>2
  <2>8. ReservationsExact'
    BY <2>7 DEF ReservationsExact, HoldersOf
  <2>9. InputNotEvicted'
    BY <1>1, <1>2, <1>6, <2>2 DEF FileInv, InputNotEvicted
  <2> QED
    BY <2>8, <2>9 DEF FileInv
<1>8. CASE submit' = [submit EXCEPT ![j] = "ended"] /\ UNCHANGED active
  <2>1. ~HoldsFile(j)'
    BY <1>0, <1>1, <1>3, <1>8 DEF HoldsFile, InQueue, Executing, TypeOK
  <2> QED
    BY <1>1, <1>4, <1>6, <1>8, <2>1, HoldersFrame
<1> QED
  BY <1>2, <1>7, <1>8 DEF ReserveInput, fileVars

LEMMA FileRelease ==
    ASSUME FileInv, SchedInv', NEW w \in Workers, ReleaseInput(w)
    PROVE  FileInv'
<1>0. SchedInv /\ TypeOK
  BY DEF FileInv, SchedInv
<1>1. /\ wpc[w] = "releasing" /\ ReleaseFile(req[wjob[w]].file)
      /\ UNCHANGED <<up, files, req, submit, queue>>
      /\ wpc' = [wpc EXCEPT ![w] = "idle"] /\ wjob' = [wjob EXCEPT ![w] = NoJob]
  BY DEF ReleaseInput, ReleaseFile, NextIteration, Goto, rowVars, queueVars, procVars
<1>j. PICK j \in Jobs : j = wjob[w]
  BY <1>0, <1>1, WorkerHolds
<1>2. /\ up /\ HoldsFile(j) /\ submit[j] = "ended" /\ ~InQueue(j)
      /\ req[j] \in Request /\ \A v \in Workers : wjob[v] = j => v = w
  BY <1>0, <1>1, <1>j, WorkerHolds
<1>3. PICK f \in Files : f = req[j].file /\ files[f] = "stored"
  BY <1>2 DEF FileInv, InputNotEvicted, Request
<1>4. \A v \in Workers : /\ v # w => wpc'[v] = wpc[v] /\ wjob'[v] = wjob[v]
                         /\ wjob'[w] = NoJob
  BY <1>0, <1>1 DEF TypeOK
<1>5. ~HoldsFile(j)'
  BY <1>1, <1>2, <1>4, JobAssumption DEF HoldsFile, InQueue, Executing
<1>6. ASSUME NEW k \in Jobs, k # j PROVE HoldsFile(k)' <=> HoldsFile(k)
  <2>1. \A v \in Workers : Executing(v, k)' <=> Executing(v, k)
    BY <1>j, <1>4, <1>6, JobAssumption DEF Executing
  <2> QED
    BY <1>1, <2>1 DEF HoldsFile, InQueue
<1>7. HoldersOf(f)' = HoldersOf(f) \ {j} /\ j \in HoldersOf(f)
  BY <1>1, <1>2, <1>3, <1>5, <1>6 DEF HoldersOf
<1>8. /\ Cardinality(HoldersOf(f)') = Cardinality(HoldersOf(f)) - 1
      /\ Cardinality(HoldersOf(f)) \in Nat \ {0}
  BY <1>7, HoldersFinite, FS_RemoveElement
<1>9. \A g \in Files : g # f => HoldersOf(g)' = HoldersOf(g)
  BY <1>1, <1>3, <1>5, <1>6 DEF HoldersOf
<1>10. \A g \in Files : active[g] = Cardinality(HoldersOf(g))
  BY <1>2 DEF FileInv, ReservationsExact, HoldersOf
<1>11. active' = [active EXCEPT ![f] = @ - 1]
  BY <1>1, <1>j, <1>3, <1>8, <1>10 DEF ReleaseFile
<1>12. ASSUME NEW g \in Files PROVE active'[g] = Cardinality(HoldersOf(g)')
  <2>1. CASE g = f
    BY <1>0, <1>8, <1>10, <1>11, <2>1 DEF TypeOK, FilesTypeOK
  <2>2. CASE g # f
    BY <1>0, <1>9, <1>10, <1>11, <2>2 DEF TypeOK, FilesTypeOK
  <2> QED
    BY <2>1, <2>2
<1>13. ReservationsExact'
  BY <1>12 DEF ReservationsExact, HoldersOf
<1>14. InputNotEvicted'
  BY <1>1, <1>5, <1>6 DEF FileInv, InputNotEvicted
<1> QED
  BY <1>13, <1>14 DEF FileInv

\* An upload evicts only a file that no job needs.
LEMMA FileUpload ==
    ASSUME FileInv, SchedInv', NEW f \in Files, Upload(f)
    PROVE  FileInv'
<1>0. SchedInv /\ TypeOK /\ up
  BY DEF FileInv, SchedInv, Upload
<1>1. UNCHANGED <<up, active, req, submit, queue, wpc, wjob>>
  BY DEF Upload, StoreFile, EvictFile, rowVars, queueVars, workerVars, procVars
<1>2. \A j \in Jobs : HoldsFile(j)' <=> HoldsFile(j)
  BY <1>1 DEF HoldsFile, InQueue, Executing
<1>3. \A g \in Files : HoldersOf(g)' = HoldersOf(g)
  BY <1>1, <1>2 DEF HoldersOf
<1>4. \A g \in Files : active[g] = Cardinality(HoldersOf(g))
  BY <1>0 DEF FileInv, ReservationsExact, HoldersOf
<1>5. ReservationsExact'
  BY <1>1, <1>3, <1>4 DEF ReservationsExact, HoldersOf
<1>6. ASSUME NEW g \in Files, active[g] = 0, NEW j \in Jobs, HoldsFile(j)
      PROVE  req[j].file # g
  <2>1. HoldersOf(g) = {}
    BY <1>4, <1>6, HoldersFinite
  <2> QED
    BY <1>6, <2>1 DEF HoldersOf
<1>7. \A g \in Files : files[g] = "stored" /\ files'[g] # "stored" => active[g] = 0
  BY <1>0 DEF Upload, StoreFile, EvictFile, Evictable, TypeOK, FilesTypeOK
<1>8. ASSUME NEW j \in Jobs, HoldsFile(j) PROVE files'[req[j].file] = "stored"
  <2>1. files[req[j].file] = "stored"
    BY <1>0, <1>8 DEF FileInv, InputNotEvicted
  <2>2. submit[j] # "unused"
    <3>1. CASE InQueue(j)
      BY <1>0, <3>1 DEF SchedInv, QueueSound, InQueue
    <3>2. CASE \E w \in Workers : Executing(w, j)
      <4>1. PICK w \in Workers : wjob[w] = j /\ wpc[w] # "idle"
        BY <3>2 DEF Executing
      <4> QED
        BY <1>0, <4>1, WorkerHolds
    <3> QED
      BY <1>8, <3>1, <3>2 DEF HoldsFile
  <2>3. req[j].file \in Files
    BY <1>0, <2>2 DEF TypeOK, Request
  <2> QED
    BY <1>6, <1>7, <1>8, <2>1, <2>3
<1>9. InputNotEvicted'
  BY <1>1, <1>2, <1>8 DEF InputNotEvicted
<1> QED
  BY <1>5, <1>9 DEF FileInv

LEMMA FileClaim ==
    ASSUME FileInv, SchedInv', NEW w \in Workers, Claim(w) \/ Defer(w)
    PROVE  FileInv'
<1>0. SchedInv /\ TypeOK /\ queue \in Seq(Jobs) /\ queue # <<>> /\ wpc[w] = "idle"
  BY DEF FileInv, SchedInv, TypeOK, Claim, Defer
<1>1. UNCHANGED <<up, files, active, req, submit>>
  BY DEF Claim, Defer, fileVars, rowVars, procVars
<1>n. PICK n \in Nat \ {0} : n = Len(queue)
  BY <1>0
<1>2a. n \in Nat \ {0}
  OBVIOUS
<1>j. PICK j \in Jobs : j = Head(queue)
  BY <1>0, HeadTailProperties
<1>2. /\ j = queue[1] /\ Tail(queue) \in Seq(Jobs)
      /\ Len(Tail(queue)) = n - 1
      /\ \A i \in 1..(n - 1) : Tail(queue)[i] = queue[i + 1]
  BY <1>0, <1>n, <1>j, HeadTailProperties
<1>3. HoldsFile(j)
  BY <1>n, <1>2, <1>2a DEF HoldsFile, InQueue
<1>4. \A k \in Jobs : (\E i \in 1..(n - 1) : Tail(queue)[i] = k) => InQueue(k)
  <2>1. \A i \in 1..(n - 1) : i + 1 \in 1..n
    BY <1>2a
  <2> QED
    BY <1>n, <1>2, <2>1 DEF InQueue
<1>5. \A k \in Jobs : InQueue(k) /\ k # j => \E i \in 1..(n - 1) : Tail(queue)[i] = k
  <2>1. ASSUME NEW k \in Jobs, k # j, NEW i \in 1..n, queue[i] = k
        PROVE  i - 1 \in 1..(n - 1) /\ Tail(queue)[i - 1] = k
    <3>1. i # 1
      BY <1>2, <2>1
    <3>2. i - 1 \in 1..(n - 1) /\ (i - 1) + 1 = i
      BY <1>2a, <3>1
    <3> QED
      BY <1>2, <2>1, <3>2
  <2> QED
    BY <1>n, <2>1 DEF InQueue
<1>6. CASE Claim(w)
  <2>1. /\ queue' = Tail(queue)
        /\ wpc' = [wpc EXCEPT ![w] = "claimed"] /\ wjob' = [wjob EXCEPT ![w] = j]
    BY <1>6, <1>j DEF Claim
  <2>2. /\ wjob'[w] = j /\ wpc'[w] = "claimed"
        /\ \A v \in Workers : v # w => wjob'[v] = wjob[v] /\ wpc'[v] = wpc[v]
    BY <1>0, <2>1 DEF TypeOK
  <2>3. \A k \in Jobs : k # j => (InQueue(k)' <=> InQueue(k))
    BY <1>n, <1>2, <1>4, <1>5, <2>1 DEF InQueue
  <2>4. \A k \in Jobs : k # j => \A v \in Workers : Executing(v, k)' <=> Executing(v, k)
    BY <1>0, <2>2, JobAssumption DEF Executing, TypeOK
  <2>5. HoldsFile(j)'
    BY <2>2 DEF HoldsFile, Executing
  <2>6. \A k \in Jobs : HoldsFile(k)' <=> HoldsFile(k)
    BY <1>1, <1>3, <2>3, <2>4, <2>5 DEF HoldsFile
  <2> QED
    BY <1>1, <2>6, HoldersFrame
<1>7. CASE Defer(w)
  <2>1. queue' = Append(Tail(queue), j) /\ UNCHANGED <<wpc, wjob>>
    BY <1>7, <1>j DEF Defer, Requeue, workerVars
  <2>2. /\ Len(queue') = n /\ queue'[n] = j
        /\ \A i \in 1..(n - 1) : queue'[i] = Tail(queue)[i]
    BY <1>2, <1>2a, <2>1, AppendProperties
  <2>3. /\ n \in 1..n /\ \A i \in 1..n : i = n \/ i \in 1..(n - 1)
        /\ \A i \in 1..(n - 1) : i \in 1..n
    BY <1>2a
  <2>4. InQueue(j) /\ InQueue(j)'
    BY <1>n, <1>2, <1>2a, <2>2, <2>3 DEF InQueue
  <2>5. \A k \in Jobs : k # j => (InQueue(k)' <=> InQueue(k))
    BY <1>n, <1>4, <1>5, <2>2, <2>3 DEF InQueue
  <2>6. \A k \in Jobs : HoldsFile(k)' <=> HoldsFile(k)
    BY <1>1, <2>1, <2>4, <2>5 DEF HoldsFile, Executing
  <2> QED
    BY <1>1, <2>6, HoldersFrame
<1> QED
  BY <1>6, <1>7

LEMMA FileEnqueue ==
    ASSUME FileInv, SchedInv', NEW j \in Jobs, CacheEntry(j) \/ Enqueue(j)
    PROVE  FileInv'
<1>0. SchedInv /\ TypeOK /\ queue \in Seq(Jobs)
  BY DEF FileInv, SchedInv, TypeOK
<1>1. UNCHANGED <<up, files, active, req, wpc, wjob>>
  BY DEF CacheEntry, Enqueue, fileVars, rowVars, workerVars, procVars
<1>2. HoldsFile(j)
  BY DEF CacheEntry, Enqueue, HoldsFile
<1>3. \A k \in Jobs : k # j => submit'[k] = submit[k]
  BY <1>0 DEF CacheEntry, Enqueue, TypeOK
<1>4. CASE CacheEntry(j)
  <2>1. UNCHANGED queue /\ submit'[j] = "cached"
    BY <1>0, <1>4 DEF CacheEntry, TypeOK
  <2>2. \A k \in Jobs : HoldsFile(k)' <=> HoldsFile(k)
    BY <1>1, <1>2, <1>3, <2>1 DEF HoldsFile, InQueue, Executing
  <2> QED
    BY <1>1, <2>2, HoldersFrame
<1>5. CASE Enqueue(j)
  <2>1. /\ Len(queue') = Len(queue) + 1 /\ queue'[Len(queue) + 1] = j
        /\ \A i \in 1..Len(queue) : queue'[i] = queue[i]
    BY <1>0, <1>5, AppendProperties DEF Enqueue
  <2>2. /\ Len(queue) + 1 \in 1..Len(queue')
        /\ \A i \in 1..Len(queue') : i = Len(queue) + 1 \/ i \in 1..Len(queue)
        /\ \A i \in 1..Len(queue) : i \in 1..Len(queue')
    BY <1>0, <2>1
  <2>3. InQueue(j)' /\ \A k \in Jobs : k # j => (InQueue(k)' <=> InQueue(k))
    BY <2>1, <2>2 DEF InQueue
  <2>4. \A k \in Jobs : HoldsFile(k)' <=> HoldsFile(k)
    BY <1>1, <1>2, <1>3, <2>3 DEF HoldsFile, Executing
  <2> QED
    BY <1>1, <2>4, HoldersFrame
<1> QED
  BY <1>4, <1>5

\* The restart reserves the files of exactly the jobs it queues.
LEMMA FileRestart ==
    ASSUME FileInv, SchedInv', NEW old \in SUBSET Jobs, Restart(old)
    PROVE  FileInv'
<1>0. SchedInv /\ TypeOK
  BY DEF FileInv, SchedInv
<1>1. /\ ~up /\ UNCHANGED <<req, submit, wpc, wjob>>
      /\ queue' \in InOrder(Restorable, rowid)
      /\ active' = [f \in Files |-> Cardinality(RestoredFor(f))]
  BY DEF Restart, RestoreReservations, RestoredReservations, workerVars
<1>2. Cardinality(Restorable) \in Nat
  BY JobAssumption, FS_Subset, FS_CardinalityType DEF Restorable
<1>3. /\ Len(queue') = Cardinality(Restorable) /\ DOMAIN queue' = 1..Len(queue')
      /\ \A i \in 1..Len(queue') : queue'[i] \in Restorable
      /\ \A j \in Restorable : \E i \in 1..Len(queue') : queue'[i] = j
  BY <1>1, <1>2 DEF InOrder
<1>4. \A j \in Jobs : InQueue(j)' <=> j \in Restorable
  BY <1>3 DEF InQueue
<1>5. \A w \in Workers : wpc[w] = "idle"
  BY <1>0, <1>1, WorkerHolds
<1>6. \A j \in Jobs : submit[j] \notin {"reserved", "cached"}
  BY <1>0, <1>1 DEF SchedInv, SubmitSound, Creating
<1>7. \A j \in Jobs : HoldsFile(j)' <=> j \in Restorable
  BY <1>1, <1>4, <1>5, <1>6 DEF HoldsFile, Executing
<1>8. \A f \in Files : HoldersOf(f)' = RestoredFor(f)
  BY <1>1, <1>7 DEF HoldersOf, RestoredFor, Restorable
<1>9. ReservationsExact'
  BY <1>1, <1>8 DEF ReservationsExact, HoldersOf
<1>10. InputNotEvicted'
  BY <1>1, <1>7 DEF InputNotEvicted, Restorable
<1> QED
  BY <1>9, <1>10 DEF FileInv

LEMMA NextFileInv == FileInv /\ [Next]_vars => FileInv'
<1> SUFFICES ASSUME FileInv, [Next]_vars PROVE FileInv'
  OBVIOUS
<1>0. SchedInv /\ SchedInv' /\ TypeOK
  BY NextSchedInv DEF FileInv, SchedInv
<1> USE DEF fileVars, rowVars, queueVars, workerVars, procVars
<1>1. CASE UNCHANGED <<up, files, active, req, submit, queue, wpc, wjob>>
  BY <1>0, <1>1, HoldersFrame DEF HoldsFile, InQueue, Executing
<1>2. ASSUME NEW j \in Jobs, NEW r \in Requests, Submit(j, r) PROVE FileInv'
  <2>1. /\ submit[j] = "unused" /\ UNCHANGED <<up, files, active, queue, wpc, wjob>>
        /\ submit'[j] = "inserted"
        /\ \A k \in Jobs : k # j => submit'[k] = submit[k] /\ req'[k] = req[k]
    BY <1>0, <1>2 DEF Submit, TypeOK
  <2>2. ~InQueue(j) /\ \A w \in Workers : wjob[w] # j
    BY <1>0, <2>1, JobAssumption DEF SchedInv, QueueSound, InQueue, WorkerSound
  <2>3. ~HoldsFile(j) /\ ~HoldsFile(j)'
    BY <2>1, <2>2 DEF HoldsFile, InQueue, Executing
  <2>4. \A k \in Jobs : k # j => (HoldsFile(k)' <=> HoldsFile(k))
    BY <2>1 DEF HoldsFile, InQueue, Executing
  <2> QED
    BY <1>0, <2>1, <2>3, <2>4, HoldersFrame
<1>3. ASSUME NEW j \in Jobs, CreateStep(j) PROVE FileInv'
  BY <1>0, <1>3, FileReserve, FileEnqueue DEF CreateStep
<1>4. ASSUME NEW w \in Workers, NEW pc \in WorkerPc \ {"idle"}, wpc[w] # "idle",
             Goto(w, pc), UNCHANGED <<up, files, active, req, submit, queue, wjob>>
      PROVE  FileInv'
  BY <1>0, <1>4, FileWork DEF Goto
<1>5. ASSUME NEW w \in Workers, WorkerStep(w) PROVE FileInv'
  <2>1. CASE Claim(w) \/ Defer(w)
    BY <1>0, <2>1, FileClaim
  <2>2. CASE ReleaseInput(w)
    BY <1>0, <2>2, FileRelease
  <2>3. CASE LoadInput(w) \/ ChooseMode(w) \/ Pipeline(w) \/ SaveSnapshot(w)
    BY <1>4, <2>3 DEF LoadInput, ChooseMode, Pipeline, SaveSnapshot, WorkerPc
  <2>4. CASE CompleteJob(w) \/ CacheResult(w) \/ IndexResults(w) \/ FailJob(w)
    BY <1>4, <2>4 DEF CompleteJob, CacheResult, IndexResults, FailJob, WorkerPc
  <2> QED
    BY <1>5, <2>1, <2>2, <2>3, <2>4 DEF WorkerStep
<1>6. ASSUME NEW f \in Files, Upload(f) PROVE FileInv'
  BY <1>0, <1>6, FileUpload
<1>7. ASSUME NEW old \in SUBSET Jobs, ExpireJobs(old) PROVE FileInv'
  BY <1>1, <1>7 DEF ExpireJobs
<1>8. ASSUME NEW c \in CapChoices, NEW b \in CleanupChoices, NEW old \in SUBSET Jobs,
             UpdateSettings(c, b, old)
      PROVE  FileInv'
  BY <1>1, <1>8 DEF UpdateSettings
<1>9. ASSUME NEW b \in LlmChoices, SetLlmEnabled(b) PROVE FileInv'
  BY <1>1, <1>9 DEF SetLlmEnabled
<1>10. CASE ClearStep
  BY <1>1, <1>10 DEF ClearStep, ClearSelect, ClearDelete, ClearCache
<1>11. CASE Crash
  <2>1. up' = FALSE
    BY <1>11 DEF Crash
  <2> QED
    BY <1>0, <2>1 DEF FileInv, ReservationsExact, InputNotEvicted
<1>12. ASSUME NEW old \in SUBSET Jobs, Restart(old) PROVE FileInv'
  BY <1>0, <1>12, FileRestart
<1>13. CASE UNCHANGED vars
  BY <1>1, <1>13 DEF vars
<1> QED
  BY <1>2, <1>3, <1>5, <1>6, <1>7, <1>8, <1>9, <1>10, <1>11, <1>12, <1>13 DEF Next

LEMMA AlwaysFileInv == Spec => []FileInv
BY InitFileInv, NextFileInv, PTL DEF Spec

\* The counter of a file is the number of jobs that still need it.
THEOREM ReservationsAreExact == Spec => []ReservationsExact
<1>1. FileInv => ReservationsExact
  BY DEF FileInv
<1> QED
  BY <1>1, AlwaysFileInv, PTL

\* An upload never evicts the input of a job that waits or runs.
THEOREM InputsAreKept == Spec => []InputNotEvicted
<1>1. FileInv => InputNotEvicted
  BY DEF FileInv
<1> QED
  BY <1>1, AlwaysFileInv, PTL

-----------------------------------------------------------------------------
\* The scheduler drives the file store only through what it promises: every
\* step of the composed system is a step of FileReservations or leaves the
\* files and the counters alone.
THEOREM UsesFilePromises == Spec => FilesSpec
<1>1. Init => FilesInit
  BY DEF Init
<1>2. ASSUME SchedInv, [Next]_vars PROVE [FilesNext]_fileVars
  <2>1. ASSUME NEW f \in Files, Upload(f) PROVE FilesNext
    BY <2>1 DEF Upload, FilesNext
  <2>2. ASSUME NEW j \in Jobs, CreateStep(j) PROVE [FilesNext]_fileVars
    <3>1. CASE ReserveInput(j)
      <4>1. submit[j] # "unused"
        BY <3>1 DEF ReserveInput
      <4>2. req[j].file \in Files
        BY <1>2, <4>1 DEF SchedInv, TypeOK, Request
      <4> QED
        BY <3>1, <4>2 DEF ReserveInput, FilesNext
    <3>2. CASE CacheEntry(j) \/ Enqueue(j)
      BY <3>2 DEF CacheEntry, Enqueue
    <3> QED
      BY <2>2, <3>1, <3>2 DEF CreateStep
  <2>3. ASSUME NEW w \in Workers, WorkerStep(w) PROVE [FilesNext]_fileVars
    <3>1. CASE ReleaseInput(w)
      <4>1. req[wjob[w]] \in Request
        BY <1>2, <3>1, WorkerHolds DEF ReleaseInput
      <4>2. req[wjob[w]].file \in Files
        BY <4>1 DEF Request
      <4> QED
        BY <3>1, <4>2 DEF ReleaseInput, FilesNext
    <3>2. CASE ~ReleaseInput(w)
      BY <2>3, <3>2 DEF WorkerStep, Claim, Defer, LoadInput, ChooseMode, Pipeline,
         SaveSnapshot, CompleteJob, CacheResult, IndexResults, FailJob
    <3> QED
      BY <3>1, <3>2
  <2>4. ASSUME NEW old \in SUBSET Jobs, Restart(old) PROVE FilesNext
    BY <2>4 DEF Restart, FilesNext
  <2>5. ASSUME NEW j \in Jobs, NEW r \in Requests, Submit(j, r) PROVE UNCHANGED fileVars
    BY <2>5 DEF Submit
  <2>6. ASSUME NEW old \in SUBSET Jobs, ExpireJobs(old) PROVE UNCHANGED fileVars
    BY <2>6 DEF ExpireJobs
  <2>7. ASSUME NEW c \in CapChoices, NEW b \in CleanupChoices, NEW old \in SUBSET Jobs,
               UpdateSettings(c, b, old)
        PROVE  UNCHANGED fileVars
    BY <2>7 DEF UpdateSettings
  <2>8. ASSUME NEW b \in LlmChoices, SetLlmEnabled(b) PROVE UNCHANGED fileVars
    BY <2>8 DEF SetLlmEnabled
  <2>9. CASE ClearStep \/ Crash
    BY <2>9 DEF ClearStep, ClearSelect, ClearDelete, ClearCache, Crash
  <2>10. CASE UNCHANGED vars
    BY <2>10 DEF vars, fileVars
  <2> QED
    BY <1>2, <2>1, <2>2, <2>3, <2>4, <2>5, <2>6, <2>7, <2>8, <2>9, <2>10 DEF Next
<1> QED
  BY <1>1, <1>2, AlwaysSchedInv, PTL DEF Spec, FilesSpec
=============================================================================
