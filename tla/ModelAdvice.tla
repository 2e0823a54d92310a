----------------------------- MODULE ModelAdvice -----------------------------
(***************************************************************************)
(* agents/model_selection_agent.py run_model_selection_agent, and what the *)
(* pipeline makes of its answer once the forecast has chosen a model.      *)
(*                                                                         *)
(* The agent asks the registry which models are enabled up to six times in *)
(* one call; an administrator may change the answer between any two.       *)
(***************************************************************************)
EXTENDS Sequences, FiniteSets, SequencesExt

CONSTANTS Lineups,   \* sets of enabled models an administrator may leave
          Asks,      \* arguments of the call
          Answers,   \* what the model's text may name
          Outcomes,  \* what the forecast may have chosen, with the measured models
          NoName     \* "no value" marker

\* registry.MODELS, in canonical order.
Catalogue == <<"Holt-Winters", "ARIMA", "SARIMA", "EWMA", "Prophet",
               "Dynamic Regression", "Intermittent Demand">>
Names     == Range(Catalogue)
\* Longest name first: ARIMA is part of SARIMA.
ByLength  == <<"Intermittent Demand", "Dynamic Regression", "Holt-Winters",
               "Prophet", "SARIMA", "ARIMA", "EWMA">>
\* The fields of ModelSelectionResult that are synchronised with the forecast.
Fields    == {"Holt-Winters", "ARIMA", "SARIMA", "EWMA"}

\* One element per sentence the reason is made of; no sentence is None.
Reason == SUBSET {"disabled", "fit", "metric", "heuristic", "excluded", "forced"}

ASSUME AdviceAssumption ==
    /\ Lineups \subseteq (SUBSET Names) \ {{}} /\ Lineups # {}
    /\ \A a \in Asks :
         /\ a.kind \in {"seasonal", "trend", "noise", "other"}
         /\ a.exclude \in Names \cup {NoName}
         /\ Len(a.ranking) <= 9
    /\ \A t \in Answers : t.exact \subseteq t.line /\ t.line \subseteq Names
    /\ NoName \notin Names

VARIABLES
    live,      \* the enabled models
    seen,      \* every model enabled at some time during the call
    ask,       \* the arguments
    step,      \* where run_model_selection_agent is
    preferred, \* the models that _heuristic_preference returned
    favourite, \* fallback_model
    excuses,   \* fallback_reasoning
    text,      \* the output of the LLM
    advised,   \* selected_model
    told       \* the rejection reasons of the ModelSelectionResult

adviceVars == <<live, seen, ask, step, preferred, favourite, excuses, text, advised, told>>

AdviceInit ==
    /\ ask \in Asks
    /\ live \in Lineups /\ seen = live
    /\ step = IF ask.forced THEN "forced" ELSE "summarise"
    /\ preferred = {} /\ favourite = NoName /\ text = NoName /\ advised = NoName
    /\ excuses = [m \in Names |-> {}] /\ told = excuses
-----------------------------------------------------------------------------
\* The first in an order that is among the given models.
Foremost(order, among) ==
    LET i == SelectInSeq(order, LAMBDA m : m \in among)
    IN  IF i = 0 THEN NoName ELSE order[i]
To(s) == step' = s /\ UNCHANGED <<live, seen, ask>>

\* The assessments of the enabled models; what they say is for the LLM only.
Summarise ==
    /\ step = "summarise"
    /\ To("prefer") /\ UNCHANGED <<preferred, favourite, excuses, text, advised, told>>

Suited(kind) ==
    CASE kind = "seasonal" -> <<"SARIMA", "Prophet", "Holt-Winters", "ARIMA", "EWMA">>
      [] kind = "trend"    -> <<"Holt-Winters", "Prophet", "ARIMA", "SARIMA", "EWMA">>
      [] kind = "noise"    -> <<"EWMA", "ARIMA", "Holt-Winters", "SARIMA", "Prophet">>
      [] OTHER             -> <<"ARIMA", "Prophet", "Holt-Winters", "SARIMA", "EWMA">>

\* _heuristic_preference; when none of its five models is enabled, the
\* registry is asked once more.
Prefer ==
    /\ step = "prefer"
    /\ preferred' = live \cap Range(Suited(ask.kind))
    /\ favourite' = Foremost(Suited(ask.kind), live)
    /\ To(IF preferred' = {} THEN "preferAny" ELSE "explain")
    /\ UNCHANGED <<excuses, text, advised, told>>

PreferAny ==
    /\ step = "preferAny"
    /\ preferred' = live /\ favourite' = Foremost(Catalogue, live)
    /\ To("explain") /\ UNCHANGED <<excuses, text, advised, told>>

\* _heuristic_fallback, on a registry read of its own.
Explain ==
    /\ step = "explain"
    /\ excuses' = [m \in Names |-> IF m \in preferred \ {favourite} THEN {"heuristic"}
                                   ELSE IF m \in live THEN {} ELSE {"disabled"}]
    /\ To("exclude") /\ UNCHANGED <<preferred, favourite, text, advised, told>>

\* _adjust_excluded_fallback ranks again, without the excluded model; as in
\* Prefer, the registry is asked twice when none of the five is enabled.
Replace(order) ==
    LET other == Foremost(order, live \ {ask.exclude})
    IN  /\ favourite' = IF other = NoName THEN favourite ELSE other
        /\ To("decide") /\ UNCHANGED <<preferred, excuses, text, advised, told>>

KeepFavourite ==
    /\ step = "exclude" /\ favourite # ask.exclude
    /\ To("decide") /\ UNCHANGED <<preferred, favourite, excuses, text, advised, told>>

AdjustExcluded ==
    /\ step = "exclude" /\ favourite = ask.exclude
    /\ IF live \cap Range(Suited(ask.kind)) # {} THEN Replace(Suited(ask.kind))
       ELSE /\ To("excludeAny")
            /\ UNCHANGED <<preferred, favourite, excuses, text, advised, told>>

AdjustAny == step = "excludeAny" /\ Replace(Catalogue)
-----------------------------------------------------------------------------
\* _business_selection_reasons, on a registry read of its own.
Business(selected, measured) ==
    [m \in Names |-> IF m \notin live THEN {"disabled"}
                     ELSE IF m = selected THEN {}
                     ELSE IF {m, selected} \subseteq measured THEN {"metric", "fit"}
                     ELSE {"fit"}]

\* Mutant: the selected model keeps what the registry says of it by now.
Unchecked(selected, measured, onLoss, excluded) ==
    [m \in Names |->
        IF m \in excluded /\ m # selected THEN {"excluded"}
        ELSE IF onLoss /\ m # selected /\ {m, selected} \subseteq measured THEN {"metric"}
        ELSE Business(selected, measured)[m]]

\* build_model_rejection_reasons
Rejections(selected, measured, onLoss, excluded) ==
    [m \in Names |->
        IF m = selected THEN {}
        ELSE IF m \in excluded THEN {"excluded"}
        ELSE IF onLoss /\ {m, selected} \subseteq measured THEN {"metric"}
        ELSE Business(selected, measured)[m]]

\* A retry: the best measured model that is not excluded, without the LLM.
Rivals == Range(ask.ranking) \ {ask.exclude}

SelectOnMetrics ==
    /\ step = "decide" /\ Rivals # {}
    /\ advised' = Foremost(ask.ranking, Rivals)
    /\ told' = Rejections(advised', Range(ask.ranking), FALSE, {ask.exclude})
    /\ To("advised") /\ UNCHANGED <<preferred, favourite, excuses, text>>

\* _build_heuristic_result, after a call that failed or was refused.
LlmFails ==
    LET reasons == Business(favourite, {})
    IN  /\ step = "decide" /\ Rivals = {}
        /\ advised' = favourite
        /\ told' = [m \in Names |-> IF m = favourite THEN reasons[m]
                                    ELSE excuses[m] \cup reasons[m]]
        /\ To("advised") /\ UNCHANGED <<preferred, favourite, excuses, text>>

LlmAnswers ==
    /\ step = "decide" /\ Rivals = {}
    /\ text' \in Answers
    /\ To("parse") /\ UNCHANGED <<preferred, favourite, excuses, advised, told>>

\* _match_exact: the first enabled model for which "selected model: X" occurs.
MatchExact ==
    LET found == Foremost(Catalogue, live \cap text.exact)
    IN  /\ step = "parse"
        /\ advised' = IF found = NoName THEN advised ELSE found
        /\ To(IF found = NoName THEN "scan" ELSE "reasons")
        /\ UNCHANGED <<preferred, favourite, excuses, text, told>>

\* Mutant: the line is searched for any model there is.
AnyModel ==
    LET found == Foremost(ByLength, text.line)
    IN  /\ step = "scan"
        /\ advised' = IF found = NoName THEN favourite ELSE found
        /\ To("reasons") /\ UNCHANGED <<preferred, favourite, excuses, text, told>>

\* _match_line_scan, and the fallback when nothing is found.
ScanLine ==
    LET found == Foremost(ByLength, live \cap text.line)
    IN  /\ step = "scan"
        /\ advised' = IF found = NoName THEN favourite ELSE found
        /\ To("reasons") /\ UNCHANGED <<preferred, favourite, excuses, text, told>>

GiveReasons ==
    /\ step = "reasons"
    /\ told' = Business(advised, {})
    /\ To("advised") /\ UNCHANGED <<preferred, favourite, excuses, text, advised>>

\* _select_model of a forced job never asks; there is no sentence for EWMA.
ForceSelection ==
    /\ step = "forced"
    /\ advised' = ask.model
    /\ told' = [m \in Names |-> IF m \in {ask.model, "EWMA"} \/ m \notin Fields \cup {"Prophet"}
                                THEN {} ELSE {"forced"}]
    /\ To("forecast") /\ UNCHANGED <<preferred, favourite, excuses, text>>

\* The forecast has chosen among what was measured.  The reasons are written
\* again for the four fields; Prophet's is left as the agent wrote it.
Synchronise ==
    /\ step = "advised"
    /\ \E o \in Outcomes :
        LET reasons == Rejections(o.chosen, o.measured, TRUE,
                                  IF ask.ranking = <<>> THEN {} ELSE {ask.exclude})
        IN  /\ advised' = o.chosen
            /\ told' = [m \in Names |-> IF m \in Fields THEN reasons[m] ELSE told[m]]
    /\ To("forecast") /\ UNCHANGED <<preferred, favourite, excuses, text>>

\* PUT /models/{name}, as often as wanted while the call runs.
ChangeLineup ==
    /\ step # "forecast"
    /\ live' \in Lineups \ {live} /\ seen' = seen \cup live'
    /\ UNCHANGED <<ask, step, preferred, favourite, excuses, text, advised, told>>

AdviceNext ==
    \/ Summarise \/ Prefer \/ PreferAny \/ Explain \/ KeepFavourite \/ AdjustExcluded \/ AdjustAny
    \/ SelectOnMetrics \/ LlmFails \/ LlmAnswers \/ MatchExact \/ ScanLine
    \/ GiveReasons \/ ForceSelection \/ Synchronise \/ ChangeLineup

AdviceSpec == AdviceInit /\ [][AdviceNext]_adviceVars
-----------------------------------------------------------------------------
\* What the agent advises on its own (not from the measurements of an earlier
\* forecast) was enabled at some time during the call, whatever the LLM wrote
\* and whatever the administrator did meanwhile.
AdvisedWasEnabled ==
    step = "advised" /\ Rivals = {} => advised \in seen

\* When the selection has been brought in line with an Auto forecast, the chosen
\* model carries no reason against it, even one that was disabled meanwhile, and
\* every other of the four models says why it lost.
OnlyLosersHaveReasons ==
    step = "forecast" /\ ~ ask.forced =>
        \A m \in Fields : told[m] = {} <=> m = advised
=============================================================================
