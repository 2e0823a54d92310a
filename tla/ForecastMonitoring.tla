------------------------- MODULE ForecastMonitoring -------------------------
(***************************************************************************)
(* services/forecast_monitoring.py: issued forecasts, the observations     *)
(* recorded against them, and the comparison of earlier with recent ones.  *)
(* A comparison reads its jobs one by one, in several transactions, while  *)
(* forecasts are issued, actuals are recorded or corrected and old jobs    *)
(* are purged.  Time is counted in periods; a forecast is flat.            *)
(***************************************************************************)
EXTENDS Integers, SequencesExt, FiniteSetsExt, Functions

CONSTANTS Plans,        \* [jobs: the forecasts that may be issued, ids: what is compared]
          Actuals,      \* values observed
          MinVintages, MinObserved, MinDates, \* 5, 20, 20
          NoActual, NoSnapshot

ASSUME MonitoringAssumption ==
    /\ {MinVintages, MinObserved, MinDates} \subseteq Nat \ {0}
    /\ \A p \in Plans : /\ IsFiniteSet(DOMAIN p.jobs) /\ DOMAIN p.jobs \subseteq Int
                       /\ \A j \in DOMAIN p.jobs : /\ p.jobs[j].origin \in Nat
                                                   /\ p.jobs[j].horizon \in Nat

VARIABLES plan,
          jobRows,      \* jobs in the database
          snapshot,  \* issued_at of its forecast_snapshots row
          actual,    \* forecast_actuals
          clock,
          call       \* a /monitoring/compare call
monitorVars == <<plan, jobRows, snapshot, actual, clock, call>>

\* A forecast: identity of the series, terms (quantile, frequency), first stamp, length,
\* value, baseline value, half width of the interval.
JobIds == DOMAIN plan.jobs
Steps(j) == 1 .. plan.jobs[j].horizon
Issued == {j \in jobRows : snapshot[j] # NoSnapshot}
Submissions(j) == [Steps(j) -> Actuals \cup {NoActual}]
Scores == UNION {Submissions(j) : j \in JobIds}
Calls == [at : {"idle", "reading", "answered"}, answer : {0, 200, 404, 422},
          records : Seq([job : JobIds, at : Nat, seen : Scores]), scored : Scores \cup {<<>>}]

MonitorTypeOK ==
    /\ plan \in Plans /\ jobRows \subseteq JobIds
    /\ snapshot \in [JobIds -> Nat \cup {NoSnapshot}]
    /\ \A j \in JobIds : actual[j] \in Submissions(j)
    /\ clock \in Nat
    /\ call \in Calls
-----------------------------------------------------------------------------
(***************************************************************************)
(* Scores.  A score is what one vintage's rows say: by step, its actual.   *)
(***************************************************************************)
Seen(a) == {h \in DOMAIN a : a[h] # NoActual}
Pending(a) == DOMAIN a \ Seen(a)
Abs(n) == IF n < 0 THEN -n ELSE n
Total(f, S) == SumFunctionOnSet(f, S)

\* A record of a comparison: the job, when it was issued, and what was observed.
RecordOf(j) == [job |-> j, at |-> snapshot[j], seen |-> actual[j]]
Plan(r) == plan.jobs[r.job]
Dates(r) == {Plan(r).origin + h : h \in DOMAIN r.seen}
Error(r, h) == r.seen[h] - Plan(r).point
Bias(r) == Total([h \in Seen(r.seen) |-> Error(r, h)], Seen(r.seen))
Covered(r) == {h \in Seen(r.seen) : Abs(Error(r, h)) <= Plan(r).width}
ModelLoss(r) == Total([h \in Seen(r.seen) |-> Abs(Error(r, h))], Seen(r.seen))
NaiveLoss(r) == Total([h \in Seen(r.seen) |-> Abs(r.seen[h] - Plan(r).naive)], Seen(r.seen))

\* The sum of what F says of each record.
Over(S, F(_)) == Total([r \in S |-> F(r)], S)
Observations(r) == Cardinality(Seen(r.seen))

\* The identity of the series and the terms must agree with the job read before.
Agree(r, prior) == /\ Plan(r).series = Plan(prior).series
                   /\ Plan(r).terms = Plan(prior).terms

\* By first stamp, then by issue time, then by id.
Before(q, r) ==
    \/ Plan(q).origin < Plan(r).origin
    \/ /\ Plan(q).origin = Plan(r).origin
       /\ q.at < r.at \/ (q.at = r.at /\ q.job < r.job)

\* Mutant: in the order they were asked for.
AsGiven(s) == s
\* In that order: the i-th record is the one that i - 1 others come before.
Sorted(s) ==
    LET Ahead(k) == {m \in DOMAIN s : Before(s[m], s[k])}
    IN  [i \in DOMAIN s |-> s[CHOOSE k \in DOMAIN s : Cardinality(Ahead(k)) = i - 1]]

\* The latest issued revision of each origin: a later record replaces an earlier one.
Vintages(s) ==
    LET t == Sorted(s)
        Replaced(i) == \E k \in DOMAIN t : k > i /\ Plan(t[k]).origin = Plan(t[i]).origin
    IN  {t[i] : i \in {i \in DOMAIN t : ~Replaced(i)}}

\* Fully observed vintages as long as the last of them.
Complete(V) == {r \in V : Pending(r.seen) = {}}
IsLast(r, S) == r \in S /\ \A q \in S : Plan(q).origin <= Plan(r).origin
Comparable(V) ==
    LET C == Complete(V)
    IN  {r \in C : \E q \in C : IsLast(q, C) /\ DOMAIN r.seen = DOMAIN q.seen}

Enough(S) == /\ Cardinality(S) >= MinVintages
             /\ Over(S, Observations) >= MinObserved
             /\ Cardinality(UNION {Dates(r) : r \in S}) >= MinDates

\* take_window: the shortest ending that is enough, or nothing.
Since(S, o) == {r \in S : Plan(r).origin >= o}
Window(S) ==
    LET starts == {o \in {Plan(r).origin : r \in S} : Enough(Since(S, o))}
    IN  IF starts = {} THEN {} ELSE Since(S, Max(starts))

Recent(V) == Window(Comparable(V))

Earlier(V) == Window(Comparable(V) \ Recent(V))

Ready(V) == Recent(V) # {} /\ Earlier(V) # {}

\* The alerts, rates compared by cross-multiplication.
SameBias(S) == (\A r \in S : Bias(r) > 0) \/ (\A r \in S : Bias(r) < 0)

SkillFell(old, new) ==
    LET m == Over(new, ModelLoss) b == Over(new, NaiveLoss)
        p == Over(old, ModelLoss) q == Over(old, NaiveLoss)
    IN  b > 0 /\ q > 0 /\ m > b /\ 10 * (m * q - p * b) > b * q

CoverageFell(old, new) ==
    LET Hits(r) == Cardinality(Covered(r))
        n == Over(new, Observations)
        k == Over(old, Observations)
    IN  /\ n >= MinObserved /\ k >= MinObserved
        /\ 10 * Over(new, Hits) < 9 * n
        /\ 10 * (Over(old, Hits) * n - Over(new, Hits) * k) >= n * k

Alerts(V) ==
    LET old == Earlier(V)
        new == Recent(V)
    IN  IF old = {} \/ new = {} THEN {}
        ELSE (IF SameBias(new) THEN {"persistent_bias"} ELSE {})
             \cup (IF SkillFell(old, new) THEN {"declining_baseline_skill"} ELSE {})
             \cup (IF CoverageFell(old, new) THEN {"declining_interval_coverage"} ELSE {})

Comparison(s) ==
    LET V == Vintages(s)
    IN  [jobs |-> {r.job : r \in V}, ready |-> Ready(V), alerts |-> Alerts(V)]
-----------------------------------------------------------------------------
NoCompare == [at |-> "idle", records |-> <<>>, scored |-> <<>>, answer |-> 0]

MonitorInit ==
    /\ plan \in Plans
    /\ jobRows = JobIds
    /\ snapshot = [j \in JobIds |-> NoSnapshot]
    /\ actual = [j \in JobIds |-> [h \in Steps(j) |-> NoActual]]
    /\ clock = 0 /\ call = NoCompare

\* save_snapshot, INSERT OR IGNORE; issued_at has the resolution of a second.
SaveSnapshot(j) ==
    /\ j \in jobRows /\ snapshot[j] = NoSnapshot
    /\ clock' \in {clock, clock + 1}
    /\ snapshot' = [snapshot EXCEPT ![j] = clock']
    /\ UNCHANGED <<plan, jobRows, actual, call>>

\* Mutant: what a submission does not name is forgotten.
Forgotten(old, new) == new
\* The upsert keeps what was recorded for other stamps.
Merged(old, new) == [h \in DOMAIN old |-> IF new[h] # NoActual THEN new[h] ELSE old[h]]

\* POST /jobs/{id}/actuals: each stamp was issued and each value is finite, else nothing
\* is written.
RecordActuals(j, new) ==
    /\ j \in Issued
    /\ actual' = [actual EXCEPT ![j] = Merged(@, new)]
    /\ UNCHANGED <<plan, jobRows, snapshot, clock, call>>

\* Retention deletes the job; its snapshot and actuals go with it (ON DELETE CASCADE).
Purge(j) ==
    /\ plan.purge /\ j \in Issued
    /\ jobRows' = jobRows \ {j}
    /\ snapshot' = [snapshot EXCEPT ![j] = NoSnapshot]
    /\ actual' = [actual EXCEPT ![j] = [h \in Steps(j) |-> NoActual]]
    /\ UNCHANGED <<plan, clock, call>>

Reply(code) == call' = [call EXCEPT !.at = "answered", !.answer = code]

CompareBegin ==
    /\ call.at = "idle" /\ plan.ids # <<>>
    /\ call' = [NoCompare EXCEPT !.at = "reading"]
    /\ UNCHANGED <<plan, jobRows, snapshot, actual, clock>>

NextId == plan.ids[Len(call.records) + 1]

\* get_job and monitor_forecast: 404 without a job or a snapshot, else its scores.
CompareScore ==
    /\ call.at = "reading" /\ call.scored = <<>> /\ Len(call.records) < Len(plan.ids)
    /\ IF NextId \in Issued THEN call' = [call EXCEPT !.scored = actual[NextId]] ELSE Reply(404)
    /\ UNCHANGED <<plan, jobRows, snapshot, actual, clock>>

\* The snapshot is read again, in a transaction of its own: gone by now it is a TypeError,
\* another series or other terms are refused, both with 422.
CompareRead ==
    /\ call.at = "reading" /\ call.scored # <<>>
    /\ LET r == [RecordOf(NextId) EXCEPT !.seen = call.scored]
       IN  IF /\ NextId \in Issued
              /\ call.records # <<>> => Agree(r, call.records[Len(call.records)])
           THEN call' = [call EXCEPT !.records = Append(@, r), !.scored = <<>>]
           ELSE Reply(422)
    /\ UNCHANGED <<plan, jobRows, snapshot, actual, clock>>

CompareAnswer ==
    /\ call.at = "reading" /\ call.scored = <<>> /\ Len(call.records) = Len(plan.ids)
    /\ Reply(200)
    /\ UNCHANGED <<plan, jobRows, snapshot, actual, clock>>

MonitorNext ==
    \/ \E j \in JobIds : SaveSnapshot(j) \/ Purge(j)
    \/ \E j \in JobIds : \E new \in Submissions(j) : RecordActuals(j, new)
    \/ CompareBegin \/ CompareScore \/ CompareRead \/ CompareAnswer

MonitorSpec == MonitorInit /\ [][MonitorNext]_monitorVars
-----------------------------------------------------------------------------
(***************************************************************************)
(* Properties.                                                             *)
(***************************************************************************)
AllRecords == LET ids == SetToSeq(Issued) IN [i \in DOMAIN ids |-> RecordOf(ids[i])]

\* "Input order is irrelevant" (monitor_forecasts): asked in any order, the same vintages
\* count, and the same alerts are raised.
OrderIrrelevant ==
    Issued = JobIds =>
      LET c == Comparison(AllRecords)
      IN  \A s \in SetToSeqs(Range(AllRecords)) : Comparison(s) = c

SameLength == \A i, j \in JobIds : plan.jobs[i].horizon = plan.jobs[j].horizon
Single(j, h, v) == [i \in Steps(j) |-> IF i = h THEN v ELSE NoActual]

\* Evidence only grows: among forecasts of one length, recording an actual never takes back
\* that there was enough to compare (monitor_forecasts, take_window), although it moves
\* vintages into both windows at once.
EvidenceGrows ==
    SameLength /\ Ready(Vintages(AllRecords)) =>
      \A j \in Issued : \A h \in Steps(j), v \in Actuals :
        Ready(Vintages([i \in DOMAIN AllRecords |->
            LET r == AllRecords[i]
            IN  IF r.job # j THEN r ELSE [r EXCEPT !.seen = Merged(@, Single(j, h, v))]]))
=============================================================================
