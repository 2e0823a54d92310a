-------------------------- MODULE ForecastPipeline --------------------------
(***************************************************************************)
(* services/pipeline_service.py run_pipeline, the job a worker thread runs:*)
(* validation, statistics, model selection, the forecasting agent, the     *)
(* statistical review, at most one retry after it, and the report.  An     *)
(* administrator may switch AI off, or disable models, between any two     *)
(* steps; every agent but the report writer asks the LLM at most once and  *)
(* falls back to deterministic text.                                       *)
(***************************************************************************)
EXTENDS ForecastingAgent

CONSTANTS Runs,      \* jobs to run
          Suspects,  \* the models review checks against the statistics
          Sections   \* number of narrative sections of a report

Agents == {"validation", "statistical", "model_selection", "forecast",
           "statistical_review", "report"}
\* The agents the retry runs again.
Retried == {"model_selection", "forecast", "statistical_review"}

Run == [forced : BOOLEAN, model : Procs \cup {NoProc}, trad : BOOLEAN,
        retry : BOOLEAN, stop : BOOLEAN, loss : UserLosses \cup {"auto", "unsupported"}]

\* What the pipeline asks of the forecasting agent; a retry excludes a model.
RequestOf(r, exclude) == [forced |-> r.forced, model |-> r.model,
                          exclude |-> exclude, loss |-> r.loss]

ASSUME PipelineAssumption ==
    /\ Runs \subseteq Run
    /\ \A r \in Runs : r.forced <=> r.model # NoProc
    /\ \A r \in Runs : /\ RequestOf(r, {}) \in Requests
                       /\ ~ r.forced => \A p \in Procs : RequestOf(r, {p}) \in Requests
    /\ Suspects \subseteq Models
    /\ Sections \in Nat

VARIABLES
    run,        \* the arguments of run_pipeline
    stage,      \* how far it has come
    ai,         \* the deployment-wide "Enable AI features" switch
    suspects,   \* models the statistics speak against
    selection,  \* ModelSelectionResult: model and method
    review,     \* StatisticalReviewResult, and the model it is about
    passes,     \* runs of the forecasting agent
    left,       \* narrative sections still to write
    spent,      \* answered LLM calls, by agent
    used,       \* token_usage of each agent's latest result, in calls
    prev,       \* token_usage kept of the first attempt
    late        \* an LLM call was dispatched after AI was switched off

stageVars    == <<run, stage, passes, left>>
resultVars   == <<suspects, selection, review>>
llmVars      == <<spent, used, prev, late>>
pipelineVars == <<stageVars, resultVars, llmVars>>
allVars      == <<vars, pipelineVars, ai>>

NoReview == [of |-> NoProc, method |-> "none", critical |-> FALSE,
             verdict |-> "pass", override |-> FALSE]

Selections == [model : Procs \cup {NoProc},
               method : {"none", "forced", "agent", "deterministic"}]
Reviews    == [of : Procs \cup {NoProc}, method : {"none", "forced", "agent", "deterministic"},
               critical : BOOLEAN, verdict : {"pass", "warn", "fail"}, override : BOOLEAN]

PipelineTypeOK ==
    /\ TypeOK /\ run \in Runs /\ ai \in BOOLEAN
    /\ stage \in {"start", "validate", "statistics", "select", "forecast", "review",
                  "decide", "report", "write", "charts", "done", "failed"}
    /\ suspects \subseteq Suspects
    /\ selection \in Selections /\ review \in Reviews
    /\ passes \in 0..2 /\ left \in 0..Sections
    /\ {spent, used, prev} \subseteq [Agents -> Nat]
    /\ late \in BOOLEAN
-----------------------------------------------------------------------------
RunRequest(exclude) == RequestOf(run, exclude)

PipelineInit ==
    /\ RegistryInit /\ ai \in BOOLEAN
    /\ run \in Runs /\ request = RunRequest({}) /\ AgentInit
    /\ stage = "start" /\ passes = 0 /\ left = 0
    /\ suspects = {} /\ selection = [model |-> NoProc, method |-> "none"]
    /\ review = NoReview
    /\ spent = [a \in Agents |-> 0] /\ used = spent /\ prev = spent
    /\ late = FALSE

Enter(s) == stage' = s /\ UNCHANGED <<run, passes, left>>

\* An agent's try block around one call: get_llm refuses when AI is off, the
\* call may fail, and the agent then goes on without it.
Count(answered) == IF answered THEN 1 ELSE 0

Dispatch(a, useLlm, answered) ==
    /\ answered => useLlm /\ ai
    /\ spent' = [spent EXCEPT ![a] = @ + Count(answered)]
    /\ UNCHANGED <<prev, late>>

Usage(a, answered) == [used EXCEPT ![a] = Count(answered)]

Ask(a, useLlm, answered) ==
    Dispatch(a, useLlm, answered) /\ used' = Usage(a, answered)

UseLlm == ~ run.trad
-----------------------------------------------------------------------------
\* Mutant: an Auto request is let through in Traditional mode.
StopOnly == run.stop

\* Traditional Forecasting needs a model; "stop" refuses a short series.
Refused == (run.trad /\ ~ run.forced) \/ run.stop

Begin ==
    /\ stage = "start"
    /\ Enter(IF Refused THEN "failed" ELSE "validate")
    /\ UNCHANGED <<agentVars, resultVars, llmVars>>

Validate(answered) ==
    /\ stage = "validate"
    /\ Ask("validation", UseLlm, answered)
    /\ Enter("statistics")
    /\ UNCHANGED <<agentVars, resultVars>>

Statistics(answered) ==
    /\ stage = "statistics"
    /\ Ask("statistical", UseLlm, answered)
    /\ suspects' \in SUBSET Suspects
    /\ Enter("select")
    /\ UNCHANGED <<agentVars, selection, review>>

\* run_model_selection_agent takes no use_llm argument.
SelectModel(answered) ==
    /\ stage = "select"
    /\ IF run.forced
       THEN /\ ~ answered
            /\ selection' = [model |-> run.model, method |-> "forced"]
            /\ UNCHANGED llmVars
       ELSE /\ \E m \in Models : selection' = [model |-> m, method |-> "agent"]
            /\ Ask("model_selection", TRUE, answered)
    /\ CallAgent(RunRequest({}))
    /\ stage' = "forecast" /\ passes' = 1
    /\ UNCHANGED <<run, left, suspects, review>>

Forecast ==
    /\ stage = "forecast" /\ AgentWork
    /\ UNCHANGED pipelineVars

\* The forecasting agent's one call, for the decision loss.
AskForLoss(answered, advice) ==
    /\ stage = "forecast"
    /\ advice # NoAdvice => answered
    /\ ResolveLoss(advice)
    /\ Ask("forecast", UseLlm, answered)
    /\ UNCHANGED <<stageVars, resultVars>>

\* An exception of the forecasting agent ends the job.
ForecastFails ==
    /\ stage = "forecast" /\ phase = "raised"
    /\ Enter("failed")
    /\ UNCHANGED <<agentVars, resultVars, llmVars>>

\* Mutant: only the method is updated.
Unsynchronized == [selection EXCEPT !.method = IF @ = "agent" THEN "deterministic" ELSE @]

\* The selection is synchronized with the procedure that was used.
Synchronized == IF selection.method = "forced" THEN selection
                ELSE [model |-> chosen, method |-> "deterministic"]

ForecastReturns ==
    /\ stage = "forecast" /\ phase = "returned"
    /\ selection' = Synchronized
    /\ Enter("review")
    /\ UNCHANGED <<agentVars, suspects, review, llmVars>>

\* Mutant: the statistics' warnings stay critical for every selection.
NeverDowngraded ==
    \/ selection.model \in suspects
    \/ /\ selection.method = "deterministic"
       /\ PolicyViolation(evidence, loss, Eligible, chosen)

\* Critical findings of the review's own checks.  For a deterministic selection
\* the two checks against the statistics are only warnings.
CriticalPreCheck ==
    \/ /\ selection.method = "forced"
       /\ selection.model \in suspects \/ SuboptimalRmse(evidence, evidence.rankable, chosen)
    \/ /\ selection.method = "deterministic"
       /\ PolicyViolation(evidence, loss, Eligible, chosen)

\* _merge_token_usage; there is nothing to add after a first attempt.
MergeUsage(usage) == [a \in Agents |-> prev[a] + usage[a]]

\* run_statistical_review_agent; the second one closes the retry.
Review(answered, llmCritical, verdict) ==
    /\ stage = "review"
    /\ ~ answered => ~ llmCritical /\ verdict # "fail"
    /\ CriticalPreCheck => verdict # "pass"
    /\ Dispatch("statistical_review", UseLlm, answered)
    /\ used' = MergeUsage(Usage("statistical_review", answered))
    /\ review' = [of |-> selection.model, method |-> selection.method,
                  critical |-> CriticalPreCheck \/ llmCritical, verdict |-> verdict,
                  override |-> selection.method = "deterministic" => CriticalPreCheck]
    /\ Enter(IF passes = 1 THEN "decide" ELSE "report")
    /\ UNCHANGED <<agentVars, suspects, selection>>

WantsRetry ==
    /\ run.retry
    /\ review.critical \/ review.verdict = "fail"
    /\ selection.method = "deterministic" => review.override

Accept ==
    /\ stage = "decide" /\ ~ WantsRetry
    /\ Enter("report")
    /\ UNCHANGED <<agentVars, resultVars, llmVars>>

\* A forced model is fit again; otherwise the first one is excluded.
Retry ==
    /\ stage = "decide" /\ WantsRetry
    /\ prev' = [a \in Agents |-> IF a \in Retried THEN used[a] ELSE 0]
    /\ used' = [a \in Agents |-> IF a \in Retried THEN 0 ELSE used[a]]
    /\ IF run.forced
       THEN selection' = selection /\ CallAgent(RunRequest({}))
       ELSE /\ \E m \in Models : selection' = [model |-> m, method |-> "deterministic"]
            /\ CallAgent(RunRequest({selection.model}))
    /\ stage' = "forecast" /\ passes' = 2
    /\ UNCHANGED <<run, left, suspects, review, spent, late>>
-----------------------------------------------------------------------------
(* run_report_agent: generate_narratives builds one client for all sections. *)

OpenReport(opened) ==
    /\ stage = "report"
    /\ opened => UseLlm /\ ai
    /\ stage' = IF opened THEN "write" ELSE "charts"
    /\ left' = IF opened THEN Sections ELSE 0
    /\ UNCHANGED <<agentVars, resultVars, run, passes, spent, used, prev, late>>

\* _generate_section: a call, and one more to repair what the checks refuse;
\* calls of them were answered, kept says whether a text passed the checks.
WriteSection(calls, kept) ==
    /\ stage = "write" /\ left > 0
    /\ kept => calls > 0
    /\ spent' = [spent EXCEPT !["report"] = @ + calls]
    /\ used' = [used EXCEPT !["report"] = @ + calls]
    /\ late' = (late \/ ~ ai)
    /\ left' = left - 1
    /\ UNCHANGED <<agentVars, resultVars, run, stage, passes, prev>>

CloseReport ==
    /\ stage = "write" /\ left = 0
    /\ Enter("charts")
    /\ UNCHANGED <<agentVars, resultVars, llmVars>>

\* _build_visualizations is best effort.
Charts ==
    /\ stage = "charts"
    /\ Enter("done")
    /\ UNCHANGED <<agentVars, resultVars, llmVars>>

Work ==
    \/ Begin \/ Forecast \/ ForecastFails \/ ForecastReturns \/ Accept \/ Retry
    \/ CloseReport \/ Charts
    \/ \E answered \in BOOLEAN :
         \/ Validate(answered) \/ Statistics(answered) \/ SelectModel(answered)
         \/ OpenReport(answered)
         \/ \E advice \in AutoLosses \cup {NoAdvice} : AskForLoss(answered, advice)
         \/ \E critical \in BOOLEAN, verdict \in {"pass", "warn", "fail"} :
              Review(answered, critical, verdict)
    \/ \E calls \in 0..2, kept \in BOOLEAN : WriteSection(calls, kept)

WorkStep  == Work /\ UNCHANGED <<ai, registryVars>>
SwitchAi  == ai' = ~ ai /\ UNCHANGED <<vars, pipelineVars>>
AdminStep == RegistryNext /\ UNCHANGED <<agentVars, pipelineVars, ai>>

PipelineNext == WorkStep \/ SwitchAi \/ AdminStep

PipelineSpec == PipelineInit /\ [][PipelineNext]_allVars /\ WF_allVars(WorkStep)
-----------------------------------------------------------------------------
\* Traditional Forecasting never reaches the LLM, although the selection agent
\* would ask it: the mode requires a model to be named.
TraditionalIsLlmFree == run.trad => \A a \in Agents : spent[a] = 0

\* The selection that is reported and the review beside it are both about the
\* procedure that produced the forecast, after a retry as well.
ReportMatchesForecast ==
    stage \in {"report", "write", "charts", "done"} =>
        /\ selection.model = chosen
        /\ review.of = chosen /\ review.method = selection.method

\* Whatever the LLM says, a selection of the deterministic policy is never
\* retried: the policy does not produce what the review may overrule.
PolicyHasTheLastWord == passes = 2 => run.forced

\* The token usage of a result covers every answered call, the ones of a
\* first attempt that was retried included.
UsageComplete == stage = "done" => used = spent

\* Every job ends, with a result or an error.
RunEnds == <>(stage \in {"done", "failed"})

\* get_llm: switching AI off turns the calls not yet dispatched into fallbacks.
NoLateCall == ~ late

=============================================================================
