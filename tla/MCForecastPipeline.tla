------------------------- MODULE MCForecastPipeline -------------------------
(***************************************************************************)
(* Small instances of ForecastPipeline for TLC: the models EWMA and ARIMA, *)
(* the Naive baseline, no variants.                                        *)
(***************************************************************************)
EXTENDS ForecastPipeline

CONSTANT t1

MCModels     == {"EWMA", "ARIMA"}
MCProcs      == {"EWMA", "ARIMA", "Naive"}
Order        == <<"EWMA", "ARIMA", "Naive">>
MCPosition   == [p \in MCProcs |-> CHOOSE i \in DOMAIN Order : Order[i] = p]
MCSimplicity == [p \in MCProcs |-> IF p = "ARIMA" THEN 2 ELSE 0]
MCBase       == [p \in MCProcs |-> p]
MCMetrics    == {"mase", "rmse", "mae"}
MCPriority   == <<"mase", "rmse", "mae">>

\* The squared errors may rank the candidates in another order.
Assess(ok, abs, sq) ==
    LET Of(lost) == [p \in Procs |-> IF p \in ok THEN lost[p] ELSE Missing]
    IN  [rankable |-> ok,
         value |-> [m \in MCMetrics |-> IF m = "rmse" THEN Of(sq) ELSE Of(abs)]]

Scored(e, a) == [p \in MCProcs |-> CASE p = "EWMA" -> e [] p = "ARIMA" -> a [] OTHER -> 160]

\* The absolute losses are for ARIMA, the squared ones for EWMA; or only EWMA
\* passes the folds.
MCEvidences == {Assess(MCProcs, Scored(160, 100), Scored(100, 160)),
                Assess({"EWMA"}, Scored(100, 100), Scored(100, 100))}

Job(model, trad, retry, stop) ==
    [forced |-> model # NoProc, model |-> model, trad |-> trad, retry |-> retry,
     stop |-> stop, loss |-> "auto"]

MCRuns == {Job(NoProc, FALSE, TRUE, FALSE), Job("ARIMA", FALSE, TRUE, FALSE),
           Job("ARIMA", TRUE, TRUE, FALSE), Job(NoProc, TRUE, TRUE, FALSE), Job("ARIMA", FALSE, FALSE, TRUE)}
AiRuns == {Job(NoProc, FALSE, TRUE, FALSE)}

\* What the pipeline may ask of the forecasting agent, the retry included.
MCRequests == {[forced |-> r.forced, model |-> r.model, exclude |-> {}, loss |-> r.loss] :
                       r \in Runs}
              \cup {[forced |-> FALSE, model |-> NoProc, exclude |-> {p}, loss |-> r.loss] :
                       r \in Runs, p \in MCProcs}
=============================================================================
