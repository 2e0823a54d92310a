--------------------------- MODULE ReportSession ---------------------------
(***************************************************************************)
(* One user's forecasts in the frontend: blueprints/main/routes.py, the    *)
(* saved reports of services/report_service.py, the section editor of      *)
(* services/report_editing.py and the polling page of static/js.           *)
(*                                                                         *)
(* Flask-Session reads the whole session when a request starts and writes  *)
(* it whole when the request ends, so two tabs served by two gunicorn      *)
(* workers hold copies of it: the last one to end wins.  A worker that     *)
(* overruns gunicorn's limit is killed and its copy is lost.  The backend  *)
(* is what the frontend sees of it: a job runs, ends, and may be gone.     *)
(***************************************************************************)
EXTENDS Integers, Sequences, FiniteSets, FiniteSetsExt

CONSTANTS Tabs,     \* browser tabs of the user, one request at a time each
          Edits,    \* what a user may type into the section
          Limits,   \* values of max_reports_per_user
          Uses,     \* what the user does in each tab, and how often
          MaxFiles, MaxJobs, MaxIds,  \* bounds
          Idle, NoTab, NoRow          \* "none" markers

Op == {"upload", "analyze", "poll", "clear", "chat", "report", "edit", "delete", "limit"}

ASSUME SessionAssumption ==
    /\ MaxFiles \in Nat /\ MaxJobs \in Nat /\ MaxIds \in Nat
    /\ Limits \subseteq Nat \ {0} /\ Limits # {}
    /\ \A u \in Uses : /\ u.ops \in [Tabs -> SUBSET Op]
                       /\ u.files \in 0 .. MaxFiles /\ u.jobs \in 0 .. MaxJobs
    /\ Edits \subseteq Nat /\ Edits \cap (0 .. MaxJobs) = {}
    /\ NoTab \notin Tabs

Files == 1 .. MaxFiles
Jobs  == 1 .. MaxJobs
Ids   == 1 .. MaxIds

\* The text of the section: what job j generated is written j.
Texts == Jobs \cup Edits

VARIABLES
    uses,     \* the member of Uses of this behaviour
    session,  \* the session file
    request,  \* the request each tab waits for
    polling,  \* the tabs on the progress page
    editor,   \* what the editor of each tab was opened on
    uploads,  \* files the backend has accepted
    jobs,     \* jobs the backend has accepted, in order
    reports,  \* rows of forecast_reports
    lastId,   \* its AUTOINCREMENT counter
    writer,   \* the tab whose request holds BEGIN IMMEDIATE
    limit     \* app_config max_reports_per_user

dbVars  == <<reports, lastId, writer, limit>>
jobVars == <<uploads, jobs>>
tabVars == <<polling, editor>>
webVars == <<session, request, tabVars, jobVars, dbVars>>
reportVars == <<uses, webVars>>

\* 0 stands for an absent key.
Session == [file : 0 .. MaxFiles, job : 0 .. MaxJobs, result : 0 .. MaxJobs,
            text : {0} \cup Texts, saved : 0 .. MaxIds]
Row     == [job : Jobs, file : Files, text : Texts]
Editor  == [current : BOOLEAN, id : 0 .. MaxIds, text : {0} \cup Texts]
Closed  == [current |-> TRUE, id |-> 0, text |-> 0]

Kind == {"poll", "upload", "analyze", "edit"}
Step == {"handle", "fetch", "save", "insert", "write", "answer"}
Request == [kind : Kind \cup {"any"}, at : Step, copy : Session, stay : BOOLEAN,
            id : 0 .. MaxIds, new : {0} \cup Edits, read : Nat]

ASSUME MarkersAssumption == NoRow \notin Row /\ Idle \notin Request

ReportTypeOK ==
    /\ uses \in Uses
    /\ session \in Session
    /\ request \in [Tabs -> Request \cup {Idle}]
    /\ polling \in [Tabs -> BOOLEAN] /\ editor \in [Tabs -> Editor]
    /\ uploads \in 0 .. MaxFiles
    /\ jobs \in Seq([file : Files, status : {"active", "done", "error", "gone"}])
    /\ reports \in [Ids -> Row \cup {NoRow}] /\ lastId \in 0 .. MaxIds
    /\ writer \in Tabs \cup {NoTab} /\ limit \in Limits

ReportInit ==
    /\ uses \in Uses
    /\ session = [file |-> 0, job |-> 0, result |-> 0, text |-> 0, saved |-> 0]
    /\ request = [t \in Tabs |-> Idle]
    /\ polling = [t \in Tabs |-> FALSE] /\ editor = [t \in Tabs |-> Closed]
    /\ uploads = 0 /\ jobs = <<>>
    /\ reports = [i \in Ids |-> NoRow] /\ lastId = 0
    /\ writer = NoTab /\ limit \in Limits

Saved == {i \in Ids : reports[i] # NoRow}

At(t, step) == request[t] # Idle /\ request[t].at = step
Handles(t, kind) == At(t, "handle") /\ request[t].kind = kind
Copy(t) == request[t].copy

\* The handler is done with its work and answers with the copy c of the
\* session; stay tells whether the tab is on the progress page afterwards.
AnswerWith(t, c, stay) ==
    request' = [request EXCEPT ![t] =
      [kind |-> "any", at |-> "answer", copy |-> c, stay |-> stay,
       id |-> 0, new |-> 0, read |-> 0]]
Go(t, step) == request' = [request EXCEPT ![t].at = step]

\* A handler that calls neither the backend nor BEGIN IMMEDIATE is one step:
\* only the write of its copy comes later.
Instant(t) == request[t] = Idle /\ ~polling[t]

-----------------------------------------------------------------------------
(* Requests.                                                               *)

\* Flask-Session: the handler works on its own copy.
Begin(t, kind) ==
    /\ request[t] = Idle
    /\ polling[t] <=> kind = "poll"
    /\ request' = [request EXCEPT ![t] =
         [kind |-> kind, at |-> "handle", copy |-> session, stay |-> FALSE,
          id |-> 0, new |-> 0, read |-> 0]]
    /\ UNCHANGED <<session, tabVars, jobVars, dbVars>>

\* polling.js poll: setInterval, never two at a time.
Poll(t) == Begin(t, "poll")

End(t) ==
    /\ At(t, "answer")
    /\ session' = Copy(t)
    /\ polling' = [polling EXCEPT ![t] = request[t].stay]
    /\ request' = [request EXCEPT ![t] = Idle]
    /\ UNCHANGED <<editor, jobVars, dbVars>>

\* gunicorn kills the worker; the page shows the failed fetch and stops.
Killed(t) ==
    /\ request[t] # Idle
    /\ request' = [request EXCEPT ![t] = Idle]
    /\ polling' = [polling EXCEPT ![t] = FALSE]
    /\ editor'  = [editor EXCEPT ![t] = Closed]
    /\ writer'  = IF writer = t THEN NoTab ELSE writer
    /\ UNCHANGED <<session, jobVars, reports, lastId, limit>>

\* The user closes the progress page between two polls.
Leave(t) ==
    /\ polling[t] /\ request[t] = Idle
    /\ polling' = [polling EXCEPT ![t] = FALSE]
    /\ UNCHANGED <<session, request, editor, jobVars, dbVars>>

\* api_chat, the pages, api_setup_state, ...: nothing kept here changes.
HandleOther(t) ==
    /\ Instant(t)
    /\ AnswerWith(t, session, FALSE)
    /\ UNCHANGED <<session, tabVars, jobVars, dbVars>>

\* Mutant: the running job survives the new file.
ClearedButJob(c) == [c EXCEPT !.file = 0, !.result = 0, !.text = 0]
\* _clear_analysis_state: analysis_report_id stays.
Cleared(c) == [c EXCEPT !.file = 0, !.job = 0, !.result = 0, !.text = 0]

Clear(t) ==
    /\ Instant(t)
    /\ AnswerWith(t, Cleared(session), FALSE)
    /\ UNCHANGED <<session, tabVars, jobVars, dbVars>>

\* _forward_upload, load_demo: cleared first, whatever the backend answers.
Upload(t) ==
    /\ Handles(t, "upload")
    /\ \/ /\ uploads < uses.files /\ uploads' = uploads + 1
          /\ AnswerWith(t, [Cleared(Copy(t)) EXCEPT !.file = uploads + 1], FALSE)
       \/ AnswerWith(t, Cleared(Copy(t)), FALSE) /\ UNCHANGED uploads
    /\ UNCHANGED <<session, tabVars, jobs, dbVars>>

\* api_analyze; the answer of an accepted job may be lost on the way.
Analyze(t) ==
    /\ Handles(t, "analyze")
    /\ \/ /\ Copy(t).file # 0 /\ Len(jobs) < uses.jobs
          /\ jobs' = Append(jobs, [file |-> Copy(t).file, status |-> "active"])
          /\ \/ AnswerWith(t, [Copy(t) EXCEPT !.job = Len(jobs) + 1], FALSE)
             \/ AnswerWith(t, Copy(t), FALSE)
       \/ AnswerWith(t, Copy(t), FALSE) /\ UNCHANGED jobs
    /\ UNCHANGED <<session, tabVars, uploads, dbVars>>

\* forecast_progress: where a submitted job is watched, from any tab.
OpenProgress(t) ==
    /\ Instant(t)
    /\ AnswerWith(t, session, session.job # 0)
    /\ UNCHANGED <<session, tabVars, jobVars, dbVars>>

-----------------------------------------------------------------------------
(* api_job_status.                                                         *)

NotFound(j) == jobs[j].status = "gone"

\* Mutant: a job the backend does not know counts as still running.
NotTerminal(j) == jobs[j].status \notin {"done", "error"}
Running(j) == jobs[j].status = "active"

\* "No active job", an answer other than 200, still running, or a request
\* that fails and drops the job from the session.
PollAnswered(t) ==
    /\ Handles(t, "poll")
    /\ LET j == Copy(t).job IN
       \/ j = 0 /\ AnswerWith(t, Copy(t), FALSE)
       \/ j # 0 /\ NotFound(j) /\ AnswerWith(t, Copy(t), FALSE)
       \/ j # 0 /\ Running(j) /\ AnswerWith(t, Copy(t), TRUE)
       \/ j # 0 /\ AnswerWith(t, [Copy(t) EXCEPT !.job = 0], FALSE)
    /\ UNCHANGED <<session, tabVars, jobVars, dbVars>>

PollTerminal(t) ==
    /\ Handles(t, "poll") /\ Copy(t).job # 0
    /\ jobs[Copy(t).job].status \in {"done", "error"}
    /\ Go(t, "fetch")
    /\ UNCHANGED <<session, tabVars, jobVars, dbVars>>

\* Mutant: analysis_report_id is not popped.
Kept(c) == c
\* _handle_done_job: the new result forgets the report saved for the old one.
Forgotten(c) == [c EXCEPT !.saved = 0]

FetchResult(t) ==
    /\ At(t, "fetch")
    /\ LET j == Copy(t).job IN
       /\ jobs[j].status = "done"
       /\ request' = [request EXCEPT ![t].at = "save", ![t].copy =
            [Forgotten(Copy(t)) EXCEPT !.job = 0, !.result = j, !.text = j]]
    /\ UNCHANGED <<session, tabVars, jobVars, dbVars>>

\* _handle_error_job: the job failed, its result is gone, or the call fails.
FetchFails(t) ==
    /\ At(t, "fetch")
    /\ AnswerWith(t, [Copy(t) EXCEPT !.job = 0], FALSE)
    /\ UNCHANGED <<session, tabVars, jobVars, dbVars>>

-----------------------------------------------------------------------------
(* report_service.save_report.                                             *)

\* Mutant: a deferred transaction, two readers at once.
NoLock(t) == writer' = t
\* BEGIN IMMEDIATE
Lock(t) == writer = NoTab /\ writer' = t

SaveBegin(t) ==
    /\ At(t, "save")
    /\ Lock(t)
    /\ request' = [request EXCEPT ![t].at = "insert",
                                  ![t].read = Cardinality(Saved)]
    /\ UNCHANGED <<session, tabVars, jobVars, reports, lastId, limit>>

\* AUTOINCREMENT: the id of a deleted row is never given again.
NewId == lastId + 1

SaveCommit(t) ==
    /\ At(t, "insert")
    /\ request[t].read < limit /\ NewId \in Ids
    /\ reports' = [reports EXCEPT ![NewId] =
         [job |-> Copy(t).result, file |-> Copy(t).file, text |-> Copy(t).result]]
    /\ lastId' = IF NewId > lastId THEN NewId ELSE lastId
    /\ writer' = NoTab
    /\ AnswerWith(t, [Copy(t) EXCEPT !.saved = NewId], FALSE)
    /\ UNCHANGED <<session, tabVars, jobVars, limit>>

\* ReportLimitError, a busy database or a failing insert: the result is
\* shown, the report is not kept.
SaveFails(t) ==
    /\ At(t, "save") \/ At(t, "insert")
    /\ writer' = IF writer = t THEN NoTab ELSE writer
    /\ AnswerWith(t, Copy(t), FALSE)
    /\ UNCHANGED <<session, tabVars, jobVars, reports, lastId, limit>>

-----------------------------------------------------------------------------
(* Reading and editing a report.                                           *)

\* _current_report_result: the id of the report the session's result is.
SavedId(c) ==
    IF c.saved # 0 THEN c.saved
    ELSE Max({0} \cup {i \in Saved : reports[i].job = c.result})

\* What the page shows of the report with this id, or of the session.
Shown(c, id) == IF id \in Saved THEN reports[id].text ELSE c.text

\* report, analysis_required
ShowCurrent(t) ==
    /\ Instant(t)
    /\ LET c == session
           id == SavedId(c) IN
       IF c.result = 0 THEN AnswerWith(t, c, FALSE) /\ UNCHANGED editor
       ELSE /\ AnswerWith(t, [c EXCEPT !.saved = id], FALSE)
            /\ editor' = [editor EXCEPT ![t] =
                 [current |-> TRUE, id |-> id, text |-> Shown(c, id)]]
    /\ UNCHANGED <<session, polling, jobVars, dbVars>>

\* saved_report
ShowSaved(t, id) ==
    /\ Instant(t) /\ id \in Saved
    /\ AnswerWith(t, session, FALSE)
    /\ editor' = [editor EXCEPT ![t] =
         [current |-> FALSE, id |-> id, text |-> reports[id].text]]
    /\ UNCHANGED <<session, polling, jobVars, dbVars>>

\* report_edit looks the report up again, saved_report_edit names it.
EditTarget(t) == IF editor[t].current THEN SavedId(Copy(t)) ELSE editor[t].id

EditUnsaved(t, new) ==
    /\ Handles(t, "edit") /\ editor[t].text # 0
    /\ editor[t].current /\ Copy(t).result # 0 /\ EditTarget(t) = 0
    /\ \/ Copy(t).text = editor[t].text /\ AnswerWith(t, [Copy(t) EXCEPT !.text = new], FALSE)
       \/ Copy(t).text # editor[t].text /\ AnswerWith(t, Copy(t), FALSE)
    /\ UNCHANGED <<session, tabVars, jobVars, dbVars>>

\* edit_report_section_for_user, up to the row it reads under the lock.
EditBegin(t, new) ==
    /\ Handles(t, "edit") /\ editor[t].text # 0
    /\ editor[t].current => Copy(t).result # 0
    /\ EditTarget(t) \in Saved
    /\ Lock(t)
    /\ LET id == EditTarget(t)
           c == IF editor[t].current THEN [Copy(t) EXCEPT !.saved = id] ELSE Copy(t) IN
       request' = [request EXCEPT ![t].at = "write", ![t].copy = c, ![t].id = id,
                                  ![t].new = new, ![t].read = reports[id].text]
    /\ UNCHANGED <<session, tabVars, jobVars, reports, lastId, limit>>

\* The row is gone, the database is busy, there is nothing to edit.
EditRefused(t) ==
    /\ Handles(t, "edit")
    /\ AnswerWith(t, Copy(t), FALSE)
    /\ UNCHANGED <<session, tabVars, jobVars, dbVars>>

\* Mutant: only the section's existence is checked.
StillThere(t) == request[t].read # 0
\* apply_section_edit: the version is the hash of what the editor showed.
Unchanged(t) == request[t].read = editor[t].text

EditCommit(t) ==
    /\ At(t, "write")
    /\ IF Unchanged(t)
       THEN reports' = [reports EXCEPT ![request[t].id] =
              IF @ = NoRow THEN NoRow ELSE [@ EXCEPT !.text = request[t].new]]
       ELSE UNCHANGED reports
    /\ writer' = NoTab
    /\ AnswerWith(t, Copy(t), FALSE)
    /\ UNCHANGED <<session, tabVars, jobVars, lastId, limit>>

\* saved_report_delete and the two deletions of the administrator.
DeleteReport(id) ==
    /\ id \in Saved /\ writer = NoTab
    /\ reports' = [reports EXCEPT ![id] = NoRow]
    /\ UNCHANGED <<session, request, tabVars, jobVars, lastId, writer, limit>>

SetLimit(n) ==
    /\ writer = NoTab /\ limit' = n
    /\ UNCHANGED <<session, request, tabVars, jobVars, reports, lastId, writer>>

-----------------------------------------------------------------------------
(* The backend.                                                            *)

Finish(j) ==
    /\ j \in DOMAIN jobs /\ jobs[j].status = "active"
    /\ \E s \in {"done", "error"} : jobs' = [jobs EXCEPT ![j].status = s]
    /\ UNCHANGED <<session, request, tabVars, uploads, dbVars>>

\* History cleared by an administrator, retention.
Purge(j) ==
    /\ j \in DOMAIN jobs /\ jobs[j].status \in {"done", "error"}
    /\ jobs' = [jobs EXCEPT ![j].status = "gone"]
    /\ UNCHANGED <<session, request, tabVars, uploads, dbVars>>

-----------------------------------------------------------------------------

Handle(t) ==
    \/ Upload(t) \/ Analyze(t) \/ PollAnswered(t) \/ PollTerminal(t) \/ FetchResult(t) \/ FetchFails(t)
    \/ SaveBegin(t) \/ SaveCommit(t) \/ SaveFails(t)
    \/ \E new \in Edits : EditUnsaved(t, new) \/ EditBegin(t, new)
    \/ EditRefused(t) \/ EditCommit(t)

Instantly(t) ==
    \/ "chat" \in uses.ops[t] /\ HandleOther(t)
    \/ "clear" \in uses.ops[t] /\ Clear(t)
    \/ "poll" \in uses.ops[t] /\ OpenProgress(t)
    \/ "report" \in uses.ops[t] /\ (ShowCurrent(t) \/ \E id \in Ids : ShowSaved(t, id))

ReportNext ==
    /\ UNCHANGED uses
    /\ \/ \E t \in Tabs : \/ Instantly(t) \/ Poll(t)
                          \/ \E k \in Kind \ {"poll"} : k \in uses.ops[t] /\ Begin(t, k)
                          \/ Handle(t) \/ End(t) \/ Killed(t) \/ Leave(t)
                          \/ \E id \in Ids : "delete" \in uses.ops[t] /\ DeleteReport(id)
                          \/ \E n \in Limits : "limit" \in uses.ops[t] /\ SetLimit(n)
       \/ \E j \in Jobs : Finish(j) \/ Purge(j)

\* The timer of the progress page, the workers, and the scheduler, whose
\* jobs end (JobService).  Nobody has to submit, leave or be killed.
ReportFairness ==
    /\ \A t \in Tabs : WF_webVars(Poll(t)) /\ WF_webVars(Handle(t)) /\ WF_webVars(End(t))
    /\ \A j \in Jobs : WF_webVars(Finish(j))

ReportSpec == ReportInit /\ [][ReportNext]_reportVars /\ ReportFairness

-----------------------------------------------------------------------------
(* Properties.                                                             *)

Copies == {session} \cup {Copy(t) : t \in {u \in Tabs : request[u] # Idle}}

\* The saved report that stands for the current result, on the report page,
\* in the editor and in the PDF, is the report of that result, in whatever
\* order requests of several tabs write their copies of the session back.
ReportIsOfResult ==
    \A c \in Copies :
        c.result # 0 /\ c.saved \in Saved => reports[c.saved].job = c.result

\* A saved report carries the name of the file its job ran on, though the
\* job, the file and the result of the session are replaced independently.
SavedUnderItsFile ==
    \A i \in Saved : reports[i].file = jobs[reports[i].job].file

\* Reports are only added below the limit in force, whoever else is saving.
WithinLimit ==
    [][Cardinality(Saved') > Cardinality(Saved)
         => Cardinality(Saved) < limit]_reportVars

\* An edit of a saved report replaces the text its editor was opened on,
\* never one that another tab has written since.
NoEditLost ==
    [][\A i \in Saved \cap Saved' : reports'[i].text # reports[i].text =>
         \E t \in Tabs : /\ request[t] # Idle /\ request'[t] # request[t]
                         /\ editor[t].text = reports[i].text]_reportVars

\* A tab on the progress page comes to the report or to an error: a job that
\* ends, fails or is purged, another tab that takes the job out of the
\* session, a lost answer and a worker that is killed all end the polling.
PollingEnds == \A t \in Tabs : polling[t] ~> ~polling[t]
=============================================================================
