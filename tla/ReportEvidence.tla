--------------------------- MODULE ReportEvidence ---------------------------
(***************************************************************************)
(* From the evidence about a finished forecast to the report on it: the    *)
(* flat StatisticalResult, the review of agents/statistical_review_agent.py*)
(* and the deterministic rules of report/builder.py, report/rules.py and   *)
(* report/dashboard.py, with their default settings.                       *)
(*                                                                         *)
(* A sentence of the report is the name of the rule that writes it.  The   *)
(* p-values, the errors of the folds and the answer of the LLM are inputs. *)
(***************************************************************************)
EXTENDS Diagnostics, Integers

CONSTANTS Inputs,    \* what an analysis may hand to the review and the report
          Replies,   \* what the reviewing LLM may answer
          Unavailable, NoReply, NoReview, NoReport, NoFindings  \* "no value" markers

\* The series and the outcomes of its tests, the forecast that was chosen, and
\* what the validation agent says of the data.
Series == [n : Nat, freq : STRING, meta : Nat, spectrum : Seq(Nat), constant : BOOLEAN,
           residuals : Seq(Int), breaks : SUBSET Nat]
TestOutcomes == [{"strength", "adf", "adfTrend", "kpss", "kpssTrend", "trend", "noise"} -> STRING]
Measured == Nat \cup {Unavailable}
Forecasts == [model : STRING, mape : Measured, final : Measured, pooled : Measured,
              path : Seq(Int), label : STRING, bounded : BOOLEAN, evaluated : SUBSET STRING]
Collections == [missing : Nat, duplicates : Nat, gaps : Nat, issues : Nat,
                regular : BOOLEAN, frequency : BOOLEAN]
Analyses == [series : Series, off : SUBSET STRING, outcome : TestOutcomes,
             forecast : Forecasts, data : Collections, slope : Int,
             method : {"forced", "deterministic"}, violates : BOOLEAN, suboptimal : BOOLEAN,
             folds : Nat, errors : Nat,
             truth : [{"unbiased", "uncorrelated", "normal"} -> BOOLEAN],
             context : [{"domain", "holidays", "events", "covariates", "gate"} -> STRING]]

ASSUME EvidenceAssumption ==
    /\ Inputs \subseteq Analyses
    /\ \A i \in Inputs : /\ i.violates => i.method = "deterministic"
                         /\ i.suboptimal => i.method = "forced"
    /\ Unavailable \notin Nat /\ NoReply \notin Replies

VARIABLES
    inputs,    \* the analysis
    progress,  \* how far it has come
    findings,  \* StatisticalResult and the residual diagnostics
    verdict,   \* StatisticalReviewResult
    report     \* ExecutiveReport

reportVars == <<inputs, progress, findings, verdict, report>>
-----------------------------------------------------------------------------
When(holds, names) == IF holds THEN names ELSE {}

\* recent_holdout_rmse_ratio; nothing is divided by a pooled error of zero.
Rated(f)    == f.final # Unavailable /\ f.pooled # Unavailable /\ f.pooled # 0
Weaker(f)   == Rated(f) /\ 4 * f.final >= 5 * f.pooled
Stronger(f) == Rated(f) /\ 5 * f.final <= 4 * f.pooled
Above(f, percent) == f.mape # Unavailable /\ f.mape > percent
-----------------------------------------------------------------------------
\* A flag, and the concerns whose markers occur in its text.
Flag(check, severity, agent, concerns) ==
    [check |-> check, severity |-> severity, agent |-> agent, concerns |-> concerns]

\* Mutant: the two descriptive tests stay critical.
NeverDowngraded(method) == "critical"
\* The common folds have decided; descriptive tests cannot overturn them.
Descriptive(method) == IF method = "deterministic" THEN "warning" ELSE "critical"

\* The checks of the evidence, in the order of the code.  The explanation of a
\* forced or synchronised selection names the selected model, so the check that
\* compares the two has nothing to find.
DescriptiveFlags(i, st) ==
    When(st.period > 1 /\ i.forecast.model = "ARIMA",
       {Flag("seasonality", Descriptive(i.method), "model_selection", {})})
    \cup When(~ st.stationary /\ i.forecast.model = "EWMA",
       {Flag("stationarity", Descriptive(i.method), "model_selection", {"non_stationary"})})

ErrorFlags(i, st) ==
    When(Above(i.forecast, 20), {Flag("mape", "warning", "forecasting", {"mape"})})
    \cup When(st.crowded /\ ~ st.remediation, {Flag("outliers", "warning", "statistical", {"outliers"})})
    \cup When(st.trend /\ i.forecast.model = "EWMA", {Flag("trend", "warning", "model_selection", {})})

SelectionFlags(i) ==
    When(i.suboptimal, {Flag("rmse", "critical", "model_selection", {})})
    \cup When(i.violates, {Flag("policy", "critical", "model_selection", {})})

\* A test that was not run has found nothing.
ResidualFlags(checks) ==
    {Flag(name, "warning", "forecasting", {}) : name \in {n \in DOMAIN checks : checks[n] = "no"}}

\* _deterministic_pre_check
PreCheck(i, st) ==
    DescriptiveFlags(i, st) \cup ErrorFlags(i, st) \cup SelectionFlags(i)
        \cup ResidualFlags(st.residuals)

\* _merge_review_flags: the code's own finding is the one that is kept.
Merge(own, other) ==
    own \cup {f \in other : \A g \in own : g.check # f.check}

Critical(flags) == \E f \in flags : f.severity = "critical"

\* _parse_verdict and _compute_verdict
Tempered(answer, own) ==
    CASE answer = "none"                    -> "warn"
      [] answer = "pass" /\ Critical(own)   -> "warn"
      [] OTHER                              -> answer

\* _parse_flags skips "none"; what validate_llm_output cannot support is
\* flagged as well.
Parsed(reply) ==
    {f \in reply.flags : f.check # "none"}
        \cup When(reply.unsupported, {Flag("claim", "warning", "statistical", {})})

\* _compute_override_eligibility
MayOverride(method, own) ==
    method # "deterministic"
        \/ \E f \in own : f.severity = "critical" /\ f.agent \in {"model_selection", "forecasting"}

\* run_statistical_review_agent; a call that fails and a call that is not made
\* leave the deterministic pre-check.
Reviewed(i, st, reply) ==
    LET own == PreCheck(i, st)
    IN  [alone    |-> reply = NoReply,
         flags    |-> IF reply = NoReply THEN own ELSE Merge(own, Parsed(reply)),
         verdict  |-> IF reply # NoReply THEN Tempered(reply.verdict, own)
                      ELSE IF own = {} THEN "pass" ELSE "warn",
         override |-> MayOverride(i.method, own)]
-----------------------------------------------------------------------------
\* data_quality_rating
Rating(data, crowded) ==
    LET within(missing, duplicates, gaps, issues) ==
            /\ data.missing <= missing /\ data.duplicates <= duplicates
            /\ data.gaps <= gaps       /\ data.issues <= issues
    IN  CASE within(0, 0, 0, 0) /\ data.regular -> IF crowded THEN "Fair" ELSE "Good"
          [] within(5, 2, 3, 3)                 -> "Fair"
          [] OTHER                              -> "Poor"

\* _compute_data_quality: the rating of the collection and the overall one.
Quality(data, st) ==
    [collection |-> Rating(data, FALSE), rating |-> Rating(data, st.crowded),
     anomalies  |-> CASE st.crowded      -> "review"
                      [] st.outliers > 0 -> "found"
                      [] OTHER           -> "none"]

CollectionIssue(data) ==
    data.missing + data.duplicates + data.gaps > 0 \/ ~ data.regular

\* CONFIDENCE_DEDUCTIONS
Deductions == [mape_above_20 |-> 20, mape_above_10 |-> 10, mape_above_5 |-> 5,
               recent_holdout |-> 10, non_stationary |-> 10, white_noise |-> 15,
               outliers |-> 5, missing_data |-> 5, structural_breaks |-> 5,
               review_warn |-> 10, review_fail |-> 20]

ErrorBand(f) ==
    IF Above(f, 20) THEN {"mape_above_20"}
    ELSE IF Above(f, 10) THEN {"mape_above_10"}
    ELSE When(Above(f, 5), {"mape_above_5"})

Signals(i, st) ==
    ErrorBand(i.forecast)
    \cup When(Weaker(i.forecast), {"recent_holdout"})
    \cup When(~ st.stationary, {"non_stationary"})
    \cup When(st.noise, {"white_noise"})
    \cup When(st.crowded, {"outliers"})
    \cup When(i.data.missing > 0 \/ i.data.gaps > 0, {"missing_data"})
    \cup When(st.remediation, {"structural_breaks"})

\* Mutant: whatever the review says costs confidence.
AnyFlag(flags, signals) == TRUE
\* _review_has_distinct_concern: a flag that no signal has paid for already.
\* No flags at all count as a concern of their own.
Distinct(flags, signals) ==
    LET paid == signals \cup When(signals \cap {"mape_above_20", "mape_above_10", "mape_above_5"} # {},
                                {"mape"})
    IN  flags = {} \/ \E f \in flags : f.concerns = {} \/ ~ (f.concerns \subseteq paid)

\* _compute_confidence and confidence_label
ConfidenceLabel(score) == IF score >= 75 THEN "High" ELSE IF score >= 50 THEN "Medium" ELSE "Low"

Confidence(i, st, v) ==
    LET signals == Signals(i, st)
        factors == signals \cup
            When(v.verdict # "pass" /\ Distinct(v.flags, signals),
               {IF v.verdict = "fail" THEN "review_fail" ELSE "review_warn"})
        score   == Max({0, 100 - SumFunctionOnSet(Deductions, factors)})
    IN  [score |-> score, label |-> ConfidenceLabel(score), factors |-> factors]
-----------------------------------------------------------------------------
\* _forecast_pct_change and _build_forecast_metrics: the sign of the change from
\* the first value to the last, none when the first is zero.
Start(path)  == IF path = <<>> THEN 0 ELSE path[1]
Finish(path)  == IF path = <<>> THEN 0 ELSE path[Len(path)]
Direction(path) ==
    CASE Start(path) = 0           -> "Flat"
      [] Finish(path) > Start(path) -> "Upward"
      [] Finish(path) < Start(path) -> "Downward"
      [] OTHER                     -> "Flat"

\* _forecast_pattern, and its copy in the dashboard.
Pattern(path) ==
    LET steps == 1 .. Len(path) - 1
    IN  CASE Len(path) < 2                            -> "Flat"
          [] \A n \in steps : path[n + 1] >= path[n]  -> "Upward"
          [] \A n \in steps : path[n + 1] <= path[n]  -> "Downward"
          [] OTHER                                    -> "Seasonal / variable"

Peak(path) ==
    IF path = <<>> THEN 0
    ELSE CHOOSE n \in DOMAIN path : /\ path[n] = Max(Range(path))
                                    /\ \A k \in 1 .. n - 1 : path[k] < path[n]

\* _has_usable_interval_bounds
IntervalLabel(f) ==
    IF f.path = <<>> \/ ~ f.bounded THEN "unavailable" ELSE f.label

Outlook(f) ==
    [direction |-> Direction(f.path), pattern |-> Pattern(f.path), peak |-> Peak(f.path),
     interval  |-> IntervalLabel(f), bounds |-> IF IntervalLabel(f) = "unavailable" THEN 0 ELSE Len(f.path),
     latest    |-> CASE ~ Rated(f)  -> "none"
                     [] Weaker(f)   -> "weaker"
                     [] Stronger(f) -> "stronger"
                     [] OTHER       -> "consistent"]

\* _build_model_comparison: four models have reasons, four are baselines.
Comparison(f) ==
    [m \in f.evaluated |->
        CASE m = f.model                                             -> "selected"
          [] m \in {"Holt-Winters", "ARIMA", "SARIMA", "EWMA"}       -> "reason"
          [] m \in {"Naive", "Seasonal Naive", "Mean Forecast", "Drift"} -> "baseline"
          [] OTHER                                                   -> "none"]

\* _compute_health_indicators
Health(i, st, confidence, quality) ==
    [quality    |-> quality.rating,
     trend      |-> IF st.trend /\ ~ st.stationary THEN "Changing" ELSE "Stable",
     seasonal   |-> IF st.period > 1 THEN "Strong" ELSE "None",
     confidence |-> confidence.label,
     breaks     |-> IF st.remediation THEN "Monitor" ELSE "None detected",
     residuals  |-> IF \/ "no" \in {st.residuals.uncorrelated, st.residuals.normal}
                       \/ st.noise \/ Above(i.forecast, 20)
                    THEN "Concerning" ELSE "Acceptable"]

\* RECOMMENDATION_PRIORITIES
PriorityOf(review, label) ==
    CASE review = "fail" -> "High"
      [] review = "warn" -> "Medium"
      [] OTHER           -> IF label = "High" THEN "Medium" ELSE "Low"

Advice(what, priority) == [what |-> what, priority |-> priority]

\* _build_recommendations
Recommendations(i, st, v, confidence) ==
    {Advice(CASE Weaker(i.forecast)               -> "reassess"
              [] i.forecast.final # Unavailable   -> "continue"
              [] OTHER                            -> "beforeRelying",
            PriorityOf(v.verdict, confidence.label)),
     Advice("reestimate", "Low")}
    \cup When(st.remediation, {Advice("validateBreaks", "High")})
    \cup When(CollectionIssue(i.data), {Advice("collection", "Medium")})
    \cup When(st.period > 1, {Advice("capacity", "Medium")})

\* _distill_business_context: an answer that declines to answer is dropped.
Declared(context) == {k \in DOMAIN context : context[k] = "given"}
Known == {"holidays", "events", "covariates"}

\* _build_risks
Risks(i, st, v, quality) ==
    {Advice("horizon", "Low")}
    \cup When(Above(i.forecast, 20), {Advice("error", "High")})
    \cup When(st.remediation, {Advice("breaks", "Medium")})
    \cup When(quality.rating = "Poor", {Advice("quality", "High")})
    \cup When(v.verdict # "pass", {Advice("review", IF v.verdict = "fail" THEN "High" ELSE "Medium")})
    \cup When(/\ Declared(i.context) \cap Known # {}
            /\ i.forecast.model \notin {"Prophet", "Dynamic Regression"},
            {Advice("ignoredContext", "Medium")})

\* _build_assumptions
Assumptions(i, st) ==
    LET declared == Declared(i.context)
    IN  {"stability", IF "domain" \in declared THEN "domainDrivers" ELSE "drivers",
         IF {"covariates", "gate"} \cap declared # {} THEN "knownAhead" ELSE "ownHistory"}
        \cup (declared \cap {"interventions", "holidays", "events", "stockouts"})
        \cup When(st.period > 1, {"season"})
        \cup When(i.data.frequency, {"frequency"})

\* _review_concerns and _build_statistical_audit
AuditSection(v) ==
    [verdict  |-> v.verdict,
     concerns |-> {f.check : f \in {g \in v.flags : g.severity \in {"critical", "warning"}}},
     followUp |-> IF v.flags = {} THEN {"monitor"} ELSE {f.check : f \in v.flags}]

\* _build_explainability
Explained(i, st, confidence) ==
    {confidence.label}
    \cup When(st.period > 1, {"season"})
    \cup When(st.trend, {"trend"})
    \cup When(i.forecast.mape # Unavailable /\ i.forecast.mape < 10, {"lowError"})
    \cup When(st.residuals.uncorrelated = "yes", {"acceptableResiduals"})
    \cup When(st.residuals.uncorrelated = "no", {"monitorResiduals"})

\* _build_historical_analysis; a trend nobody could estimate has slope zero.
History(i, st) ==
    [stationary |-> st.stationary /\ st.level,
     direction  |-> CASE st.statuses.trend # "ok" \/ i.slope = 0 -> "Flat"
                      [] i.slope > 0                             -> "Upward"
                      [] OTHER                                   -> "Downward"]
-----------------------------------------------------------------------------
\* dashboard.primary_risk and recommended_action
DashboardRisk(i, st, v, quality) ==
    CASE v.verdict = "fail"         -> "review"
      [] quality.rating = "Poor"    -> "quality"
      [] Above(i.forecast, 20)      -> "error"
      [] st.remediation             -> "breaks"
      [] OTHER                      -> "horizon"

DashboardAction(i, st, v, quality) ==
    CASE v.verdict # "pass" /\ Weaker(i.forecast)           -> "auditAndHoldout"
      [] v.verdict # "pass"                                 -> "audit"
      [] Weaker(i.forecast)                                 -> "holdout"
      [] quality.rating # "Good" /\ CollectionIssue(i.data) -> "collection"
      [] quality.rating # "Good" /\ st.outliers > 0         -> "anomalies"
      [] quality.rating # "Good" /\ i.data.issues > 0       -> "issues"
      [] quality.rating # "Good"                            -> "rating"
      [] OTHER                                              -> "use"

Signed(path) == CASE Direction(path) = "Upward"   -> "positive"
                  [] Direction(path) = "Downward" -> "negative"
                  [] OTHER                        -> "neutral"
Light(value) == CASE value \in {"High", "Good"}   -> "positive"
                  [] value \in {"Medium", "Fair"} -> "warning"
                  [] OTHER                        -> "negative"

\* build_dashboard
Dashboard(i, st, v, confidence, quality) ==
    [pattern |-> Pattern(i.forecast.path), growth |-> Signed(i.forecast.path),
     model   |-> i.forecast.model,
     lights  |-> <<Light(confidence.label), Light(quality.rating)>>,
     risk    |-> DashboardRisk(i, st, v, quality),
     action  |-> DashboardAction(i, st, v, quality)]

\* _build_executive_summary: decided again, by rules of its own.
Summary(i, v, confidence, quality) ==
    [outlook |-> Pattern(i.forecast.path), confidence |-> confidence.label,
     risk    |-> CASE v.verdict = "fail"      -> "review"
                   [] quality.rating = "Poor" -> "quality"
                   [] Above(i.forecast, 20)   -> "error"
                   [] OTHER                   -> "horizon",
     action  |-> CASE Weaker(i.forecast)  -> "holdout"
                   [] v.verdict # "pass"  -> "audit"
                   [] OTHER               -> "use"]

\* _build_metadata
Metadata(i, quality) ==
    [horizon |-> Len(i.forecast.path), evaluated |-> i.forecast.evaluated,
     model   |-> i.forecast.model, rating |-> quality.rating,
     context |-> Declared(i.context)]

\* _compute_visual_strategy
Visuals(i, st) ==
    {"Histogram"}
    \cup When(st.period > 1, {"STL Decomposition"})
    \cup When(Above(i.forecast, 15), 
          {IF i.forecast.label = "unavailable" THEN "Forecast Error Monitoring"
           ELSE "Prediction Intervals"})
    \cup When(i.forecast.model = "SARIMA", {"ACF/PACF"})
    \cup When(st.crowded, {"Box Plot"})
    \cup When(st.trend, {"Trend Analysis"})
    \cup When(Above(i.forecast, 10), {"Forecast Error Plot"})

\* _build_appendix rounds MAPE whether there is one or not.
NoAppendix(f) == f.mape = Unavailable

\* ExecutiveReportBuilder.build
Built(i, st, v) ==
    LET confidence == Confidence(i, st, v)
        quality    == Quality(i.data, st)
    IN  [confidence |-> confidence, quality |-> quality,
         health |-> Health(i, st, confidence, quality),
         outlook |-> Outlook(i.forecast), comparison |-> Comparison(i.forecast),
         recommendations |-> Recommendations(i, st, v, confidence),
         risks |-> Risks(i, st, v, quality), assumptions |-> Assumptions(i, st),
         explained |-> Explained(i, st, confidence), audit |-> AuditSection(v),
         history |-> History(i, st), visuals |-> Visuals(i, st),
         dashboard |-> Dashboard(i, st, v, confidence, quality),
         summary |-> Summary(i, v, confidence, quality), metadata |-> Metadata(i, quality)]
-----------------------------------------------------------------------------
ReportInit ==
    /\ inputs \in Inputs /\ progress = "series"
    /\ findings = NoFindings /\ verdict = NoReview /\ report = NoReport

\* run_statistical_agent, then the forecast with its residual diagnostics.
Measure ==
    LET flat   == StatisticalResult(inputs.off, inputs.series, inputs.outcome)
        checks == ResidualChecks(inputs.off, inputs.folds, inputs.errors, inputs.truth)
    IN  /\ progress = "series"
        /\ findings' = [name \in DOMAIN flat \cup {"residuals"} |->
                           IF name = "residuals" THEN checks ELSE flat[name]]
        /\ progress' = "measured"
        /\ UNCHANGED <<inputs, verdict, report>>

\* Traditional Forecasting, or a call that was refused or failed.
ReviewAlone ==
    /\ progress = "measured"
    /\ verdict' = Reviewed(inputs, findings, NoReply)
    /\ progress' = "reviewed"
    /\ UNCHANGED <<inputs, findings, report>>

ReviewWithLlm ==
    /\ progress = "measured"
    /\ \E reply \in Replies : verdict' = Reviewed(inputs, findings, reply)
    /\ progress' = "reviewed"
    /\ UNCHANGED <<inputs, findings, report>>

\* An exception ends the job.
AppendixRaises ==
    /\ progress = "reviewed" /\ NoAppendix(inputs.forecast)
    /\ progress' = "raised"
    /\ UNCHANGED <<inputs, findings, verdict, report>>

BuildReport ==
    /\ progress = "reviewed" /\ ~ NoAppendix(inputs.forecast)
    /\ report' = Built(inputs, findings, verdict)
    /\ progress' = "reported"
    /\ UNCHANGED <<inputs, findings, verdict>>

ReportNext ==
    \/ Measure \/ ReviewAlone \/ ReviewWithLlm \/ AppendixRaises \/ BuildReport

EvidenceSpec == ReportInit /\ [][ReportNext]_reportVars
-----------------------------------------------------------------------------
\* The same evidence with one signal made worse.
Worse(i, st) ==
    {<<i, s>> : s \in {[st EXCEPT !.stationary = FALSE], [st EXCEPT !.noise = TRUE],
                       [st EXCEPT !.crowded = TRUE], [st EXCEPT !.remediation = TRUE]}
                 \cup {[st EXCEPT !.residuals[n] = "no"] : n \in DOMAIN st.residuals}}
    \cup {<<[i EXCEPT !.forecast.mape = more], st>> : more \in {m \in {6, 11, 21} : m > i.forecast.mape}}
    \cup {<<[i EXCEPT !.forecast.final = 2, !.forecast.pooled = 1], st>>,
          <<[i EXCEPT !.data.missing = @ + 1], st>>, <<[i EXCEPT !.data.gaps = @ + 1], st>>}

\* Without the LLM a worse signal never makes the report more confident, even
\* one that silences a flag of the review (a structural break answers the
\* question about outliers) or that the review repeats.
WorseNeverBetter ==
    progress = "reported" /\ verdict.alone =>
        \A w \in Worse(inputs, findings) :
            Confidence(w[1], w[2], Reviewed(w[1], w[2], NoReply)).score <= report.confidence.score

\* What the pipeline relies on when it decides about a retry.  Without the LLM
\* a review never fails; a critical finding of the code is never passed over;
\* and only a violated policy lets the review overrule the policy's selection,
\* whatever the series looks like and the LLM writes.
ReviewKeepsContract ==
    progress \notin {"series", "measured"} =>
        /\ verdict.alone =>
               /\ verdict.verdict # "fail"
               /\ Critical(verdict.flags) <=> Critical(PreCheck(inputs, findings))
        /\ Critical(PreCheck(inputs, findings)) => verdict.verdict # "pass"
        /\ inputs.method = "deterministic" =>
               /\ verdict.override <=> inputs.violates
               /\ Critical(PreCheck(inputs, findings)) => inputs.violates

\* A forecast that was reviewed is reported, also when MAPE is unavailable
\* because a scored actual is zero.
UndefinedMapeIsReported == progress # "raised"
=============================================================================
