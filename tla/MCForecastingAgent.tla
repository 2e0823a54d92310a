------------------------- MODULE MCForecastingAgent -------------------------
(***************************************************************************)
(* Small instances of what decides about a model and reports on it: the    *)
(* rolling-origin evaluation, the forecasting agent (the models EWMA and   *)
(* ARIMA, the Naive baseline, one variant and the ensemble), the advice of *)
(* the selection agent, and the evidence behind review and report.  They   *)
(* share no state here, so each behaviour moves one of them.               *)
(***************************************************************************)
EXTENDS Backtesting, ForecastingAgent, ModelAdvice, ReportEvidence

CONSTANTS Scores, t1, Parts, naive, arima, recent, ensemble, MaxLength

VARIABLE part

RecentArima == "ARIMA + RecentArima window"

MCModels     == {"EWMA", "ARIMA"}
MCBaselines  == {"Naive"}
AllProcs     == {"EWMA", "ARIMA", "Naive", RecentArima, "Simple Ensemble"}
Order        == <<"EWMA", "ARIMA", "Naive", RecentArima, "Simple Ensemble">>
MCPosition   == [p \in Procs |-> CHOOSE i \in DOMAIN Order : Order[i] = p]
MCSimplicity == [p \in Procs |-> CASE p \in {"EWMA", "Naive"} -> 0
                                   [] p \in {"ARIMA", RecentArima} -> 2
                                   [] OTHER -> 4]
MCBase       == [p \in Procs |-> IF p = RecentArima THEN "ARIMA" ELSE p]
MCMetrics    == {"mase", "rmse", "mae"}
MCPriority   == <<"mase", "rmse", "mae">>

\* MAE and MASE of one set of folds are proportional; MASE has no value when
\* its scale is zero.  RMSE is independent, or follows MAE.
Assess(ok, abs, sq, scaled) ==
    [rankable |-> ok,
     value |-> [mae  |-> [p \in Procs |-> IF p \in ok THEN abs[p] ELSE Missing],
                rmse |-> [p \in Procs |-> IF p \in ok THEN sq[p] ELSE Missing],
                mase |-> [p \in Procs |-> IF p \in ok /\ scaled THEN abs[p] ELSE Missing]]]

Ranked == {"EWMA", "ARIMA", "Naive"}
Spread(score, rest) == [p \in Procs |-> IF p \in Ranked THEN score[p] ELSE rest]
OneLoss == {Assess(o.ok, o.abs, o.abs, o.scaled) :
              o \in [ok : {Procs, Procs \ {"Naive"}, {"ARIMA", "Simple Ensemble"}, {}},
                     abs : {Spread(score, rest) : score \in [Ranked -> Scores], rest \in {100, 112}},
                     scaled : BOOLEAN]}

\* Absolute and squared losses may rank the two models and the baseline in any
\* two orders, further apart than the review tolerates.
TwoLosses == {Assess(ok, Spread(abs, 100), Spread(sq, 100), TRUE) :
                ok \in {Ranked, {"EWMA", "ARIMA"}},
                abs \in [Ranked -> {100, 104, 160}], sq \in [Ranked -> {100, 104, 160}]}
Losses == OneLoss \cup TwoLosses

Ask(model, exclude, wanted) ==
    [forced |-> model # NoProc, model |-> model, exclude |-> exclude, loss |-> wanted]

MCRequests == {Ask(NoProc, {}, "auto"), Ask(NoProc, {"ARIMA"}, "auto"),
               Ask(NoProc, {}, "rmse"), Ask("ARIMA", {}, "unsupported")}
-----------------------------------------------------------------------------
\* Every set an administrator can leave would be too many: nearly everything,
\* one model of the heuristics, one outside them.
MCLineups == {{"Holt-Winters", "ARIMA", "SARIMA", "EWMA", "Prophet"}, {"ARIMA"},
              {"EWMA", "Intermittent Demand"}, {"Dynamic Regression"}}

Question(kind, exclude, ranking) ==
    [kind |-> kind, exclude |-> exclude, ranking |-> ranking, forced |-> FALSE, model |-> NoName]
MCAsks == {Question(kind, exclude, <<>>) : kind \in {"seasonal", "trend", "noise", "other"},
                                           exclude \in {NoName, "SARIMA", "EWMA"}}
          \cup {Question("other", "ARIMA", <<"ARIMA", "EWMA", "Prophet">>),
                Question("other", "ARIMA", <<"ARIMA">>)}
          \cup {[Question("other", NoName, <<>>) EXCEPT !.forced = TRUE, !.model = m] :
                    m \in {"EWMA", "Prophet"}}

MCAnswers == {[exact |-> {}, line |-> {}],
              [exact |-> {"SARIMA"}, line |-> {"SARIMA", "ARIMA"}],
              [exact |-> {}, line |-> {"SARIMA", "ARIMA"}],
              [exact |-> {}, line |-> {"Prophet", "EWMA"}]}
MCOutcomes == {[chosen |-> "ARIMA", measured |-> {"ARIMA", "EWMA"}],
               [chosen |-> "EWMA", measured |-> {"EWMA"}],
               [chosen |-> "Prophet", measured |-> {"Prophet", "SARIMA", "Holt-Winters"}]}
-----------------------------------------------------------------------------
\* Twenty-four days of a weekly pattern with two outliers, then with a break
\* as well; a short series; a constant one; a month's pattern with breaks at
\* both ends.
Quiet(n) == [i \in 1 .. n |-> IF i % 2 = 0 THEN 1 ELSE 0]
Weekly == [n |-> 24, freq |-> "D", meta |-> 7, spectrum |-> <<7, 14, 3>>, constant |-> FALSE,
           residuals |-> [Quiet(24) EXCEPT ![5] = 9, ![20] = 9], breaks |-> {}]
MCSeries == {Weekly, [Weekly EXCEPT !.breaks = {12}],
             [Weekly EXCEPT !.n = 8, !.residuals = Quiet(8)],
             [Weekly EXCEPT !.constant = TRUE, !.residuals = [i \in 1 .. 24 |-> 0]],
             [Weekly EXCEPT !.freq = "M", !.meta = 5, !.residuals = Quiet(24),
                            !.breaks = {2, 11, 13}]}

Tests(adf, kpss, trend, noise) ==
    [strength |-> "supported", adf |-> adf, adfTrend |-> adf, kpss |-> kpss, kpssTrend |-> "keeps",
     trend |-> trend, noise |-> noise]
MCOutcomesOfTests == {Tests("rejects", "keeps", "flat", "dependent"),
                      Tests("keeps", "rejects", "significant", "dependent"),
                      Tests("none", "keeps", "fails", "random")}
MCOff == {{}, {"adf", "kpss", "periodogram"},
          {"trend", "outliers", "change_points", "white_noise", "residual_normality"}}

Forecast(model, mape, final, pooled, path, label) ==
    [model |-> model, mape |-> mape, final |-> final, pooled |-> pooled, path |-> path,
     label |-> label, bounded |-> label # "unavailable",
     evaluated |-> {model, "ARIMA", "Naive", "Prophet"}]
\* Errors of so many origins and of the fit itself, with or without defects.
Checked(folds, errors, fine) ==
    [folds |-> folds, errors |-> errors,
     truth |-> [unbiased |-> fine, uncorrelated |-> fine, normal |-> TRUE]]
MCForecasts ==
    {<<Forecast("ARIMA", 4, 5, 4, <<2, 3, 3>>, "experimental"), Checked(8, 30, TRUE)>>,
     <<Forecast("EWMA", 8, 4, 5, <<2, 2>>, "unavailable"), Checked(0, 4, FALSE)>>,
     <<Forecast("EWMA", 20, 9, 0, <<3, 1>>, "prediction_interval"), Checked(3, 30, TRUE)>>,
     <<Forecast("SARIMA", 15, 1, 1, <<0, 4, 1>>, "prediction_interval"), Checked(8, 0, FALSE)>>,
     <<Forecast("Prophet", 30, Unavailable, 1, <<5>>, "experimental"), Checked(0, 0, TRUE)>>,
     <<Forecast("ARIMA", Unavailable, 1, 1, <<1, 0>>, "experimental"), Checked(8, 30, FALSE)>>}

Collected(missing, duplicates, gaps, regular) ==
    [missing |-> missing, duplicates |-> duplicates, gaps |-> gaps, regular |-> regular,
     issues |-> missing + duplicates, frequency |-> regular]
MCCollected == {Collected(0, 0, 0, TRUE), Collected(0, 2, 0, FALSE), Collected(6, 0, 1, TRUE)}

Verdicts(method, violates, suboptimal) ==
    [method |-> method, violates |-> violates, suboptimal |-> suboptimal]
MCVerdicts == {Verdicts("forced", FALSE, TRUE), Verdicts("forced", FALSE, FALSE),
               Verdicts("deterministic", FALSE, FALSE), Verdicts("deterministic", TRUE, FALSE)}

Answered(declared) == [k \in {"domain", "holidays", "events", "covariates", "gate"} |->
                          IF k \in declared THEN "given" ELSE "declined"]
MCInputs ==
    {[series |-> s, off |-> o, outcome |-> t, forecast |-> f[1], data |-> d, slope |-> 2 - Len(f[1].path),
      method |-> v.method, violates |-> v.violates, suboptimal |-> v.suboptimal,
      folds |-> f[2].folds, errors |-> f[2].errors, truth |-> f[2].truth,
      context |-> Answered(IF d.regular THEN {"domain", "holidays"} ELSE {"gate"})] :
        s \in MCSeries, o \in MCOff, t \in MCOutcomesOfTests, f \in MCForecasts,
        d \in MCCollected, v \in MCVerdicts}

Answer(said, unsupported, flags) ==
    [verdict |-> said, unsupported |-> unsupported, flags |-> flags]
MCReplies == {Answer("pass", FALSE, {}), Answer("none", TRUE, {Flag("none", "info", "forecasting", {})}),
              Answer("fail", FALSE, {Flag("outliers", "critical", "model_selection", {"outliers"}),
                                     Flag("other", "critical", "forecasting", {})})}
-----------------------------------------------------------------------------
\* Evaluations: many series on which no fit fails, and some with missing
\* values on which fits fail and procedures share and overflow the cache.
Evaluate(n, h, period, cadence, max, blank, forced) ==
    [length |-> n, horizon |-> h, period |-> period, step |-> cadence,
     maxOrigins |-> max, blank |-> blank, forced |-> forced]

\* The arithmetic: every length, horizons that fit and that do not, cadences
\* coarser and finer than the horizon, and maxima that force a sampling.
GridInputs ==
    {Evaluate(n, h, period, cadence, max, {}, None) :
        n \in 1..MaxLength, h \in {0, 1, 3, 5}, period \in {1, 7},
        cadence \in {Default, 0, 1, 4}, max \in {2, 3, 5, 8}}

\* The failures and the cache.
CacheInputs ==
    {Evaluate(n, h, 1, cadence, max, blank, forced) :
        n \in {3, 13, 17}, h \in {1, 2, 5}, cadence \in {Default, 1}, max \in {3},
        blank \in {{}, {11, 12}, 15..16}, forced \in {None, recent}}

AllInputs  == GridInputs \cup CacheInputs
TwoOrNone  == [in \in AllInputs |-> IF in \in CacheInputs THEN 2 ELSE 0]

\* "arima + Recent window" shares arima's fits where the window covers the
\* history, the ensemble shares those of its members, and the budget holds two
\* fits of the evaluation or one of the production horizon.
Four       == <<naive, arima, recent, ensemble>>
FourProcs  == {naive, arima, recent, ensemble}
FourMethod == [p \in FourProcs |-> IF p = recent THEN arima ELSE p]
FourRecent == [p \in FourProcs |-> IF p = recent THEN 6 ELSE 0]
FourParts  == [p \in FourProcs |-> IF p = ensemble THEN <<naive, arima>> ELSE <<>>]
-----------------------------------------------------------------------------
MCInit ==
    /\ part \in Parts
    /\ IF part = "agent" THEN request \in Requests ELSE request = CHOOSE r \in Requests : TRUE
    /\ IF part = "advice" THEN ask \in Asks /\ live \in Lineups
       ELSE ask = (CHOOSE a \in Asks : TRUE) /\ live = CHOOSE l \in Lineups : TRUE
    /\ IF part = "evidence" THEN inputs \in Inputs ELSE inputs = CHOOSE i \in Inputs : TRUE
    /\ IF part = "backtest" THEN input \in BacktestInputs
       ELSE input = CHOOSE in \in BacktestInputs : TRUE
    /\ Init /\ AdviceInit /\ ReportInit /\ BacktestInit

MCNext ==
    /\ UNCHANGED part
    /\ \/ /\ part = "agent" /\ Next
          /\ UNCHANGED <<adviceVars, reportVars, backtestVars>>
       \/ /\ part = "advice" /\ AdviceNext
          /\ UNCHANGED <<vars, reportVars, backtestVars>>
       \/ /\ part = "evidence" /\ ReportNext
          /\ UNCHANGED <<vars, adviceVars, backtestVars>>
       \/ /\ part = "backtest" /\ BacktestNext
          /\ UNCHANGED <<vars, adviceVars, reportVars>>

MCSpec == MCInit /\ [][MCNext]_<<part, vars, adviceVars, reportVars, backtestVars>>
=============================================================================
