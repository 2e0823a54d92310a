--------------------------- MODULE EvidenceProofs ---------------------------
(***************************************************************************)
(* Proofs about the agents around the forecast: what the selection agent   *)
(* advises while administrators change the registry under it (ModelAdvice),*)
(* what the review of a forecast may decide, and how the report's          *)
(* confidence follows the evidence (ReportEvidence).                       *)
(***************************************************************************)
EXTENDS ModelAdvice, ReportEvidence, FiniteSums

-----------------------------------------------------------------------------
(***************************************************************************)
(* The first in an order.                                                  *)
(***************************************************************************)
LEMMA LeastIsMin ==
    ASSUME NEW I \in SUBSET Nat, I # {}
    PROVE  Min(I) \in I
<1>1. \E i \in I : \A j \in I : i <= j
  BY LeastNumber
<1> QED
  BY <1>1 DEF Min

\* It is one of the given models, or there is none of them in the order.
LEMMA ForemostIsAmong ==
    ASSUME NEW order, Len(order) \in Nat, DOMAIN order = 1 .. Len(order), NEW among
    PROVE  \/ Foremost(order, among) \in among \cap Range(order)
           \/ Foremost(order, among) = NoName /\ among \cap Range(order) = {}
<1> DEFINE I == {i \in 1 .. Len(order) : order[i] \in among}
           at == SelectInSeq(order, LAMBDA m : m \in among)
<1>1. at = IF I # {} THEN Min(I) ELSE 0
  BY DEF SelectInSeq
<1>2. CASE I = {}
  BY <1>1, <1>2 DEF Foremost, Range
<1>3. CASE I # {}
  <2>1. at \in I
    BY <1>1, <1>3, LeastIsMin
  <2>2. at # 0 /\ order[at] \in among /\ at \in DOMAIN order
    BY <2>1
  <2> QED
    BY <2>2 DEF Foremost, Range
<1> QED
  BY <1>2, <1>3

-----------------------------------------------------------------------------
(***************************************************************************)
(* The advice.  Between two registry reads the enabled models may change,  *)
(* so the invariant follows the favourite from the read it was taken from: *)
(* whatever is enabled has been seen, and a favourite was.                 *)
(***************************************************************************)
AdvisedInv ==
    /\ live \in Lineups /\ live \subseteq seen
    /\ ask \in Asks
    /\ step \in {"explain", "exclude", "excludeAny", "decide", "parse", "scan"} =>
          favourite \in seen
    /\ step \in {"parse", "scan"} => Rivals = {}
    /\ step = "reasons" => Rivals = {} /\ advised \in seen
    /\ AdvisedWasEnabled

LEMMA AdvisedInit == AdviceInit => AdvisedInv
BY DEF AdviceInit, AdvisedInv, AdvisedWasEnabled

LEMMA SevenModels ==
    /\ Len(Catalogue) = 7 /\ DOMAIN Catalogue = 1 .. 7
    /\ Len(ByLength) = 7 /\ DOMAIN ByLength = 1 .. 7
BY DEF Catalogue, ByLength

\* The orders are sequences, and the registry's holds every name there is.
LEMMA Orders ==
    ASSUME NEW order, order \in {Suited(ask.kind), Catalogue, ByLength}
    PROVE  Len(order) \in Nat /\ DOMAIN order = 1 .. Len(order)
<1>1. Len(Suited(ask.kind)) = 5 /\ DOMAIN Suited(ask.kind) = 1 .. 5
  BY DEF Suited
<1> QED
  BY <1>1, SevenModels

\* The favourite of a read is enabled at that moment.
LEMMA FavouriteIsLive ==
    ASSUME AdvisedInv
    PROVE  /\ live \cap Range(Suited(ask.kind)) # {} =>
                  Foremost(Suited(ask.kind), live) \in live
           /\ Foremost(Catalogue, live) \in live
<1>1. live \subseteq Range(Catalogue) /\ live # {}
  BY AdviceAssumption DEF AdvisedInv, Names
<1> QED
  BY <1>1, Orders, ForemostIsAmong

LEMMA AdvisedStep == AdvisedInv /\ [AdviceNext]_adviceVars => AdvisedInv'
<1> SUFFICES ASSUME AdvisedInv, [AdviceNext]_adviceVars PROVE AdvisedInv'
  OBVIOUS
<1> USE DEF AdvisedInv, AdvisedWasEnabled, Rivals
<1>1. CASE Summarise
  BY <1>1 DEF Summarise, To
<1>2. CASE Prefer
  BY <1>2, FavouriteIsLive DEF Prefer, To
<1>3. CASE PreferAny
  BY <1>3, FavouriteIsLive DEF PreferAny, To
<1>4. CASE Explain
  BY <1>4 DEF Explain, To
<1>5. CASE KeepFavourite
  BY <1>5 DEF KeepFavourite, To
<1>6. ASSUME NEW order \in {Suited(ask.kind), Catalogue}, Replace(order),
             step \in {"exclude", "excludeAny"}
      PROVE  AdvisedInv'
  <2>1. \/ Foremost(order, live \ {ask.exclude}) \in live
        \/ Foremost(order, live \ {ask.exclude}) = NoName
    BY Orders, ForemostIsAmong
  <2>2. favourite' \in seen
    BY <1>6, <2>1 DEF Replace
  <2> QED
    BY <1>6, <2>2 DEF Replace, To
<1>7. CASE AdjustExcluded
  <2>1. CASE live \cap Range(Suited(ask.kind)) # {}
    BY <1>6, <1>7, <2>1 DEF AdjustExcluded
  <2>2. CASE live \cap Range(Suited(ask.kind)) = {}
    BY <1>7, <2>2 DEF AdjustExcluded, To
  <2> QED
    BY <2>1, <2>2
<1>8. CASE AdjustAny
  BY <1>6, <1>8 DEF AdjustAny
<1>9. CASE SelectOnMetrics
  BY <1>9 DEF SelectOnMetrics, To
<1>10. CASE LlmFails
  BY <1>10 DEF LlmFails, To
<1>11. CASE LlmAnswers
  BY <1>11 DEF LlmAnswers, To
<1>12. ASSUME NEW order \in {Catalogue, ByLength}, NEW named
       PROVE  Foremost(order, live \cap named) \in live \cup {NoName}
  BY Orders, ForemostIsAmong
<1>13. CASE MatchExact
  BY <1>12, <1>13 DEF MatchExact, To
<1>14. CASE ScanLine
  BY <1>12, <1>14 DEF ScanLine, To
<1>15. CASE GiveReasons
  BY <1>15 DEF GiveReasons, To
<1>16. CASE ForceSelection
  BY <1>16 DEF ForceSelection, To
<1>17. CASE Synchronise
  BY <1>17 DEF Synchronise, To
<1>18. CASE ChangeLineup
  BY <1>18 DEF ChangeLineup
<1>19. CASE UNCHANGED adviceVars
  BY <1>19 DEF adviceVars
<1> QED
  BY <1>1, <1>2, <1>3, <1>4, <1>5, <1>7, <1>8, <1>9, <1>10, <1>11, <1>13, <1>14, <1>15,
     <1>16, <1>17, <1>18, <1>19 DEF AdviceNext

\* What the agent advises on its own was enabled at some time during the call,
\* for every set of models an administrator may leave enabled, every change
\* between two of the registry reads, and every answer of the LLM.
THEOREM AdviceWasEnabled == AdviceSpec => []AdvisedWasEnabled
<1>1. AdvisedInv => AdvisedWasEnabled
  BY DEF AdvisedInv
<1> QED
  BY <1>1, AdvisedInit, AdvisedStep, PTL DEF AdviceSpec
-----------------------------------------------------------------------------
(***************************************************************************)
(* The reasons that come with the selection.                               *)
(***************************************************************************)

\* The four fields are models of the registry.
LEMMA FieldsAreModels == Fields \subseteq Names
<1>1. /\ Catalogue[1] = "Holt-Winters" /\ Catalogue[2] = "ARIMA"
      /\ Catalogue[3] = "SARIMA" /\ Catalogue[4] = "EWMA"
      /\ {1, 2, 3, 4} \subseteq DOMAIN Catalogue
  BY DEF Catalogue
<1> QED BY <1>1 DEF Fields, Names, Range

\* A forced job goes to its forecast directly, any other through Synchronise.
ReasonsInv == (step = "forced" => ask.forced) /\ OnlyLosersHaveReasons

LEMMA ReasonsInit == AdviceInit => ReasonsInv
BY DEF AdviceInit, ReasonsInv, OnlyLosersHaveReasons

LEMMA ReasonsStep == ReasonsInv /\ [AdviceNext]_adviceVars => ReasonsInv'
<1> SUFFICES ASSUME ReasonsInv, [AdviceNext]_adviceVars PROVE ReasonsInv'
  OBVIOUS
<1>1. CASE Synchronise
  <2>0. PICK o \in Outcomes : \E excluded :
           /\ advised' = o.chosen
           /\ told' = [m \in Names |->
                 IF m \in Fields THEN Rejections(o.chosen, o.measured, TRUE, excluded)[m]
                 ELSE told[m]]
    BY <1>1 DEF Synchronise
  <2>1. PICK excluded :
           /\ advised' = o.chosen
           /\ told' = [m \in Names |->
                 IF m \in Fields THEN Rejections(o.chosen, o.measured, TRUE, excluded)[m]
                 ELSE told[m]]
    BY <2>0
  <2>2. step' = "forecast" /\ UNCHANGED ask
    BY <1>1 DEF Synchronise, To
  <2>3. ASSUME NEW m \in Fields PROVE told'[m] = {} <=> m = advised'
    <3>1. m \in Names
      BY FieldsAreModels
    <3>2. told'[m] = Rejections(o.chosen, o.measured, TRUE, excluded)[m]
      BY <2>1, <3>1
    <3>3. Rejections(o.chosen, o.measured, TRUE, excluded)[m] = {} <=> m = o.chosen
      BY <3>1 DEF Rejections, Business
    <3> QED BY <2>1, <3>2, <3>3
  <2> QED BY <2>2, <2>3 DEF ReasonsInv, OnlyLosersHaveReasons
<1>2. CASE ForceSelection
  <2>1. step = "forced" /\ step' = "forecast" /\ UNCHANGED ask
    BY <1>2 DEF ForceSelection, To
  <2> QED BY <2>1 DEF ReasonsInv, OnlyLosersHaveReasons
<1>3. CASE Summarise \/ Prefer \/ PreferAny \/ Explain \/ KeepFavourite \/ AdjustExcluded
           \/ AdjustAny \/ SelectOnMetrics \/ LlmFails \/ LlmAnswers \/ MatchExact \/ ScanLine \/ GiveReasons
  <2>1. step' \notin {"forced", "forecast"}
    BY <1>3 DEF Summarise, Prefer, PreferAny, Explain, KeepFavourite, AdjustExcluded,
       AdjustAny, Replace, SelectOnMetrics,
       LlmFails, LlmAnswers, MatchExact, ScanLine, GiveReasons, To
  <2> QED BY <2>1 DEF ReasonsInv, OnlyLosersHaveReasons
<1>4. CASE ChangeLineup \/ UNCHANGED adviceVars
  <2>1. UNCHANGED <<step, ask, advised, told>>
    BY <1>4 DEF ChangeLineup, adviceVars
  <2> QED BY <2>1 DEF ReasonsInv, OnlyLosersHaveReasons
<1> QED BY <1>1, <1>2, <1>3, <1>4 DEF AdviceNext

\* After an Auto forecast the chosen model carries no reason against it and
\* every other model says why it lost, for every set of enabled models, every
\* change of it during the call and every outcome of the forecast.
THEOREM LosersSayWhy == AdviceSpec => []OnlyLosersHaveReasons
<1>1. ReasonsInv => OnlyLosersHaveReasons
  BY DEF ReasonsInv
<1> QED BY <1>1, ReasonsInit, ReasonsStep, PTL DEF AdviceSpec

-----------------------------------------------------------------------------
(***************************************************************************)
(* The evidence behind the report.  The state only records what was        *)
(* derived from the analysis: the invariant says from what.                *)
(***************************************************************************)
Judged == {"reviewed", "raised", "reported"}
\* What the score and the review's flags read of the findings.
Told == {"period", "trend", "stationary", "noise", "crowded", "remediation", "residuals"}

EvidenceInv ==
    /\ inputs \in Inputs
    /\ progress \in Judged \cup {"series", "measured"}
    /\ progress \in Judged =>
          \E reply \in Replies \cup {NoReply} : verdict = Reviewed(inputs, findings, reply)
    /\ progress # "series" => Told \subseteq DOMAIN findings
    /\ progress = "reported" => report = Built(inputs, findings, verdict)
                                /\ inputs.forecast.mape # Unavailable

LEMMA EvidenceInit == ReportInit => EvidenceInv
BY DEF ReportInit, EvidenceInv, Judged

LEMMA EvidenceStep == EvidenceInv /\ [ReportNext]_reportVars => EvidenceInv'
<1> SUFFICES ASSUME EvidenceInv, [ReportNext]_reportVars PROVE EvidenceInv'
  OBVIOUS
<1> USE DEF EvidenceInv, Judged
<1>1. CASE Measure
  <2> DEFINE st == StatisticalResult(inputs.off, inputs.series, inputs.outcome)
             checks == ResidualChecks(inputs.off, inputs.folds, inputs.errors, inputs.truth)
  <2>1. /\ findings' = [name \in DOMAIN st \cup {"residuals"} |->
                            IF name = "residuals" THEN checks ELSE st[name]]
        /\ progress' = "measured"
    BY <1>1, Zenon DEF Measure
  <2>2. Told \ {"residuals"} \subseteq DOMAIN st
    BY DEF StatisticalResult, Told
  <2> HIDE DEF st, checks
  <2>4. DOMAIN findings' = DOMAIN st \cup {"residuals"}
    BY <2>1
  <2>3. UNCHANGED <<inputs, verdict, report>>
    BY <1>1 DEF Measure
  <2> QED
    BY <2>1, <2>2, <2>3, <2>4
<1>2. CASE ReviewAlone
  BY <1>2 DEF ReviewAlone
<1>3. CASE ReviewWithLlm
  BY <1>3 DEF ReviewWithLlm
<1>4. CASE AppendixRaises
  BY <1>4 DEF AppendixRaises
<1>5. CASE BuildReport
  BY <1>5 DEF BuildReport, NoAppendix
<1>6. CASE UNCHANGED reportVars
  BY <1>6 DEF reportVars
<1> QED
  BY <1>1, <1>2, <1>3, <1>4, <1>5, <1>6 DEF ReportNext
-----------------------------------------------------------------------------
(***************************************************************************)
(* The contract of the review.                                             *)
(***************************************************************************)
\* The only critical finding under the policy is that it was violated.
LEMMA PolicyFindings ==
    ASSUME NEW i \in Inputs, i.method = "deterministic", NEW st
    PROVE  Critical(PreCheck(i, st)) <=> i.violates
<1>1. ~ i.suboptimal
  BY EvidenceAssumption
<1>2. \A f \in DescriptiveFlags(i, st) \cup ErrorFlags(i, st) \cup ResidualFlags(st.residuals) :
          f.severity = "warning"
  BY DEF DescriptiveFlags, ErrorFlags, ResidualFlags, Flag, When, Descriptive
<1>3. SelectionFlags(i) = When(i.violates, {Flag("policy", "critical", "model_selection", {})})
  BY <1>1 DEF SelectionFlags, When
<1>4. Flag("policy", "critical", "model_selection", {}).severity = "critical"
  BY DEF Flag
<1> QED
  BY <1>2, <1>3, <1>4 DEF PreCheck, Critical, When

LEMMA ContractOfReview ==
    ASSUME NEW i \in Inputs, NEW st, NEW reply
    PROVE  LET v   == Reviewed(i, st, reply)
               own == PreCheck(i, st)
           IN  /\ v.alone => v.verdict # "fail" /\ v.flags = own
               /\ Critical(own) => v.verdict # "pass"
               /\ i.method = "deterministic" =>
                      /\ v.override <=> i.violates
                      /\ Critical(own) => i.violates
<1> DEFINE v == Reviewed(i, st, reply)
           own == PreCheck(i, st)
<1>1. /\ v.alone <=> reply = NoReply
      /\ v.flags = IF reply = NoReply THEN own ELSE Merge(own, Parsed(reply))
      /\ v.verdict = IF reply # NoReply THEN Tempered(reply.verdict, own)
                     ELSE IF own = {} THEN "pass" ELSE "warn"
      /\ v.override = MayOverride(i.method, own)
  BY DEF Reviewed
<1>2. Critical(own) => own # {} /\ \A answer : Tempered(answer, own) # "pass"
  BY DEF Critical, Tempered
<1>3. ASSUME i.method = "deterministic" PROVE MayOverride(i.method, own) <=> i.violates
  <2>1. i.violates => Flag("policy", "critical", "model_selection", {}) \in own
    BY DEF PreCheck, SelectionFlags, When
  <2>2. /\ Flag("policy", "critical", "model_selection", {}).severity = "critical"
        /\ Flag("policy", "critical", "model_selection", {}).agent = "model_selection"
    BY DEF Flag
  <2>3. (\E f \in own : f.severity = "critical") <=> i.violates
    BY <1>3, PolicyFindings DEF Critical
  <2> QED
    BY <1>3, <2>1, <2>2, <2>3 DEF MayOverride
<1> HIDE DEF own
<1>4. i.method = "deterministic" => (Critical(own) <=> i.violates)
  BY PolicyFindings DEF own
<1> QED
  BY <1>1, <1>2, <1>3, <1>4 DEF own

\* Whatever the series looks like and the LLM answers: without the LLM a review
\* never fails, a critical finding of the code is never passed over, and only a
\* violated policy lets the review overrule the policy's selection.
THEOREM ReviewIsBound == EvidenceSpec => []ReviewKeepsContract
<1>1. EvidenceInv => ReviewKeepsContract
  <2> SUFFICES ASSUME EvidenceInv, progress \in Judged PROVE ReviewKeepsContract
    BY DEF EvidenceInv, ReviewKeepsContract, Judged
  <2>1. PICK reply \in Replies \cup {NoReply} : verdict = Reviewed(inputs, findings, reply)
    BY DEF EvidenceInv
  <2>2. inputs \in Inputs
    BY DEF EvidenceInv
  <2> QED
    BY <2>1, <2>2, ContractOfReview DEF ReviewKeepsContract
<1> QED
  BY <1>1, EvidenceInit, EvidenceStep, PTL DEF EvidenceSpec

-----------------------------------------------------------------------------
(***************************************************************************)
(* Confidence.  The score falls with the cost of the signals and of a      *)
(* review that warns; a review without the LLM warns of something no       *)
(* signal has paid for exactly when Unpaid holds.                          *)
(***************************************************************************)
Bands == {"mape_above_20", "mape_above_10", "mape_above_5"}

Unpaid(i, st) ==
    \/ st.period > 1 /\ i.forecast.model = "ARIMA"
    \/ st.trend /\ i.forecast.model = "EWMA"
    \/ i.suboptimal \/ i.violates
    \/ \E n \in DOMAIN st.residuals : st.residuals[n] = "no"

\* What is paid besides the error.
Rest(i, st) ==
    (Signals(i, st) \ Bands) \cup When(Unpaid(i, st), {"review_warn"})

Cost(factors) == SumFunctionOnSet(Deductions, factors)

LEMMA WarnsOfUnpaid ==
    ASSUME NEW i, NEW st
    PROVE  LET own == PreCheck(i, st)
           IN  own # {} /\ Distinct(own, Signals(i, st)) <=> Unpaid(i, st)
<1> DEFINE own == PreCheck(i, st)
           signals == Signals(i, st)
           paid == signals \cup When(signals \cap Bands # {}, {"mape"})
<1>1. Distinct(own, signals) <=> own = {} \/ \E f \in own : f.concerns = {} \/ ~ (f.concerns \subseteq paid)
  BY DEF Distinct, Bands
<1>2. ASSUME NEW f \in own, f.concerns # {}
      PROVE  f.concerns \subseteq paid
  <2>1. \/ f = Flag("stationarity", Descriptive(i.method), "model_selection", {"non_stationary"})
             /\ ~ st.stationary
        \/ f = Flag("mape", "warning", "forecasting", {"mape"}) /\ Above(i.forecast, 20)
        \/ f = Flag("outliers", "warning", "statistical", {"outliers"}) /\ st.crowded
    BY <1>2 DEF PreCheck, DescriptiveFlags, ErrorFlags, SelectionFlags, ResidualFlags, When, Flag
  <2>2. /\ ~ st.stationary => "non_stationary" \in signals
        /\ st.crowded => "outliers" \in signals
        /\ Above(i.forecast, 20) => "mape_above_20" \in signals
    <3>1. ~ st.stationary => "non_stationary" \in signals
      BY Zenon DEF Signals, When
    <3>2. st.crowded => "outliers" \in signals
      BY Zenon DEF Signals, When
    <3>3. Above(i.forecast, 20) => "mape_above_20" \in ErrorBand(i.forecast)
      BY DEF ErrorBand
    <3> QED
      BY <3>1, <3>2, <3>3 DEF Signals
  <2> QED
    BY <2>1, <2>2 DEF Flag, When, Bands
<1>3. ASSUME NEW f \in own, f.concerns = {} PROVE Unpaid(i, st)
  BY <1>3 DEF PreCheck, DescriptiveFlags, ErrorFlags, SelectionFlags, ResidualFlags, When, Flag,
       Unpaid
<1>4. ASSUME Unpaid(i, st) PROVE \E f \in own : f.concerns = {}
  <2>1. \A check, severity, agent : Flag(check, severity, agent, {}).concerns = {}
    BY DEF Flag
  <2>2. CASE st.period > 1 /\ i.forecast.model = "ARIMA"
    <3>1. Flag("seasonality", Descriptive(i.method), "model_selection", {}) \in own
      BY <2>2 DEF PreCheck, DescriptiveFlags, When
    <3> QED
      BY <2>1, <3>1
  <2>3. CASE st.trend /\ i.forecast.model = "EWMA"
    <3>1. Flag("trend", "warning", "model_selection", {}) \in own
      BY <2>3, Zenon DEF PreCheck, ErrorFlags, When
    <3> QED
      BY <2>1, <3>1
  <2>4. CASE i.suboptimal
    <3>1. Flag("rmse", "critical", "model_selection", {}) \in own
      BY <2>4, Zenon DEF PreCheck, SelectionFlags, When
    <3> QED
      BY <2>1, <3>1
  <2>5. CASE i.violates
    <3>1. Flag("policy", "critical", "model_selection", {}) \in own
      BY <2>5, Zenon DEF PreCheck, SelectionFlags, When
    <3> QED
      BY <2>1, <3>1
  <2>6. CASE \E n \in DOMAIN st.residuals : st.residuals[n] = "no"
    <3>1. PICK n \in DOMAIN st.residuals : st.residuals[n] = "no"
      BY <2>6
    <3>2. Flag(n, "warning", "forecasting", {}) \in own
      BY <3>1 DEF PreCheck, ResidualFlags
    <3> QED
      BY <2>1, <3>2
  <2> QED
    BY <1>4, <2>2, <2>3, <2>4, <2>5, <2>6, Zenon DEF Unpaid
<1> QED
  BY <1>1, <1>2, <1>3, <1>4

LEMMA FactorsAlone ==
    ASSUME NEW i, NEW st
    PROVE  LET c == Confidence(i, st, Reviewed(i, st, NoReply))
           IN  /\ c.factors = ErrorBand(i.forecast) \cup Rest(i, st)
               /\ c.score = Max({0, 100 - Cost(c.factors)})
<1> DEFINE own == PreCheck(i, st)
           v == Reviewed(i, st, NoReply)
           c == Confidence(i, st, v)
           warns == v.verdict # "pass" /\ Distinct(v.flags, Signals(i, st))
<1>1. v.flags = own /\ v.verdict = IF own = {} THEN "pass" ELSE "warn"
  BY DEF Reviewed
<1>2. /\ c.factors = Signals(i, st) \cup When(warns, {IF v.verdict = "fail" THEN "review_fail" ELSE "review_warn"})
      /\ c.score = Max({0, 100 - Cost(c.factors)})
  BY DEF Confidence, Cost
<1>3. warns <=> Unpaid(i, st)
  BY <1>1, WarnsOfUnpaid
<1>4. c.factors = Signals(i, st) \cup When(Unpaid(i, st), {"review_warn"})
  BY <1>1, <1>2, <1>3 DEF When
<1>5. Signals(i, st) = ErrorBand(i.forecast) \cup (Signals(i, st) \ Bands)
  BY DEF Signals, ErrorBand, Bands, When
<1> QED
  BY <1>2, <1>4, <1>5 DEF Rest

-----------------------------------------------------------------------------
(***************************************************************************)
(* What it means for evidence to be at least as bad, and that it costs at  *)
(* least as much.                                                          *)
(***************************************************************************)
AsBad(i, st, j, tt) ==
    /\ \A percent \in {5, 10, 20} : Above(i.forecast, percent) => Above(j.forecast, percent)
    /\ \A f \in {i.forecast, j.forecast} : /\ Above(f, 20) => Above(f, 10)
                                           /\ Above(f, 10) => Above(f, 5)
    /\ Rest(i, st) \subseteq Rest(j, tt)

LEMMA CostsOfNames ==
    ASSUME NEW F, F \subseteq DOMAIN Deductions
    PROVE  Summable(Deductions, F) /\ Cost(F) \in Int /\ \A x \in F : Deductions[x] >= 0
<1>1. DOMAIN Deductions = {"mape_above_20", "mape_above_10", "mape_above_5", "recent_holdout",
          "non_stationary", "white_noise", "outliers", "missing_data", "structural_breaks",
          "review_warn", "review_fail"}
  BY DEF Deductions
<1>2. \A x \in DOMAIN Deductions : Deductions[x] \in Nat
  BY <1>1 DEF Deductions
<1>3. IsFiniteSet(DOMAIN Deductions)
  <2> DEFINE A == {} \cup {"mape_above_20"} \cup {"mape_above_10"} \cup {"mape_above_5"}
             B == A \cup {"recent_holdout"} \cup {"non_stationary"} \cup {"white_noise"}
             C == B \cup {"outliers"} \cup {"missing_data"} \cup {"structural_breaks"}
  <2>1. \A S, x : IsFiniteSet(S) => IsFiniteSet(S \cup {x})
    BY FS_AddElement
  <2>2. IsFiniteSet(A)
    BY <2>1, FS_EmptySet, Zenon
  <2>3. IsFiniteSet(B)
    BY <2>1, <2>2, Zenon
  <2>4. IsFiniteSet(C)
    BY <2>1, <2>3, Zenon
  <2>5. IsFiniteSet(C \cup {"review_warn"} \cup {"review_fail"})
    BY <2>1, <2>4, Zenon
  <2>6. C \cup {"review_warn"} \cup {"review_fail"} = DOMAIN Deductions
    BY <1>1
  <2> QED
    BY <2>5, <2>6
<1>4. Summable(Deductions, F)
  BY <1>2, <1>3, FS_Subset DEF Summable
<1> QED
  BY <1>2, <1>4, SumType DEF Cost

\* The cost of the band of an error.
LEMMA CostOfBand ==
    ASSUME NEW f
    PROVE  /\ ErrorBand(f) \subseteq Bands
           /\ Cost(ErrorBand(f)) = IF Above(f, 20) THEN 20 ELSE IF Above(f, 10) THEN 10
                                   ELSE IF Above(f, 5) THEN 5 ELSE 0
<1>1. \A x \in Bands : x \in DOMAIN Deductions
  BY DEF Bands, Deductions
<1>2. /\ Deductions["mape_above_20"] = 20 /\ Deductions["mape_above_10"] = 10
      /\ Deductions["mape_above_5"] = 5
  BY DEF Deductions
<1>3. ASSUME NEW x \in Bands PROVE Cost({x}) = Deductions[x]
  <2>1. Summable(Deductions, {x}) /\ Deductions[x] \in Int
    <3>1. {x} \subseteq DOMAIN Deductions
      BY <1>1
    <3> QED
      BY <3>1, CostsOfNames DEF Summable
  <2>2. SumFunctionOnSet(Deductions, {x}) = Deductions[x] + SumFunctionOnSet(Deductions, {x} \ {x})
    BY <2>1, SumOfOneAndRest
  <2>3. {x} \ {x} = {}
    OBVIOUS
  <2> QED
    BY <2>1, <2>2, <2>3, SumOfNothing DEF Cost
<1>4. Cost({}) = 0
  BY SumOfNothing DEF Cost
<1>5. /\ Cost({"mape_above_20"}) = 20 /\ Cost({"mape_above_10"}) = 10
      /\ Cost({"mape_above_5"}) = 5
  BY <1>2, <1>3 DEF Bands
<1> QED
  BY <1>4, <1>5 DEF ErrorBand, When, Bands

LEMMA RestIsNamed ==
    ASSUME NEW i, NEW st
    PROVE  Rest(i, st) \subseteq DOMAIN Deductions /\ Rest(i, st) \cap Bands = {}
<1>1. Rest(i, st) \subseteq {"recent_holdout", "non_stationary", "white_noise", "outliers",
                             "missing_data", "structural_breaks", "review_warn"}
  BY DEF Rest, Signals, ErrorBand, When, Bands
<1> QED
  BY <1>1 DEF Deductions, Bands

LEMMA WorseCostsMore ==
    ASSUME NEW i, NEW st, NEW j, NEW tt, AsBad(i, st, j, tt)
    PROVE  LET a == Confidence(i, st, Reviewed(i, st, NoReply)).score
               b == Confidence(j, tt, Reviewed(j, tt, NoReply)).score
           IN  a \in Int /\ b \in Int /\ b <= a
<1> DEFINE F(k, s) == ErrorBand(k.forecast) \cup Rest(k, s)
           score(k, s) == Confidence(k, s, Reviewed(k, s, NoReply)).score
<1>1. ASSUME NEW k, NEW s
      PROVE  /\ Cost(F(k, s)) = Cost(ErrorBand(k.forecast)) + Cost(Rest(k, s))
             /\ Cost(ErrorBand(k.forecast)) \in Int /\ Cost(Rest(k, s)) \in Int
             /\ Cost(F(k, s)) \in Int
  <2>1. /\ ErrorBand(k.forecast) \subseteq Bands /\ Bands \subseteq DOMAIN Deductions
        /\ Rest(k, s) \subseteq DOMAIN Deductions
        /\ ErrorBand(k.forecast) \cap Rest(k, s) = {}
    BY CostOfBand, RestIsNamed DEF Bands, Deductions
  <2>2. Summable(Deductions, F(k, s))
    BY <2>1, CostsOfNames
  <2> QED
    BY <2>1, <2>2, CostsOfNames, SumOfUnion DEF Cost
<1>2. Cost(Rest(i, st)) <= Cost(Rest(j, tt))
  <2>1. Rest(i, st) \in SUBSET Rest(j, tt) /\ Rest(j, tt) \subseteq DOMAIN Deductions
    BY RestIsNamed DEF AsBad
  <2> QED
    BY <2>1, CostsOfNames, SumGrows DEF Cost
<1>3. Cost(ErrorBand(i.forecast)) <= Cost(ErrorBand(j.forecast))
  BY CostOfBand DEF AsBad
<1>4. Cost(F(i, st)) <= Cost(F(j, tt))
  <2>1. /\ Cost(F(i, st)) = Cost(ErrorBand(i.forecast)) + Cost(Rest(i, st))
        /\ Cost(ErrorBand(i.forecast)) \in Int /\ Cost(Rest(i, st)) \in Int
    BY <1>1, Zenon
  <2>2. /\ Cost(F(j, tt)) = Cost(ErrorBand(j.forecast)) + Cost(Rest(j, tt))
        /\ Cost(ErrorBand(j.forecast)) \in Int /\ Cost(Rest(j, tt)) \in Int
    BY <1>1, Zenon
  <2> HIDE DEF F
  <2> QED
    BY <1>2, <1>3, <2>1, <2>2
<1>5. ASSUME NEW k, NEW s PROVE score(k, s) = Max({0, 100 - Cost(F(k, s))})
  BY FactorsAlone
<1>6. ASSUME NEW n \in Int PROVE Max({0, n}) = IF n > 0 THEN n ELSE 0
  <2>1. CASE n > 0
    BY <2>1 DEF Max
  <2>2. CASE ~ (n > 0)
    BY <2>2 DEF Max
  <2> QED
    BY <2>1, <2>2
<1>7. ASSUME NEW k, NEW s
      PROVE  score(k, s) = IF 100 - Cost(F(k, s)) > 0 THEN 100 - Cost(F(k, s)) ELSE 0
  <2>1. 100 - Cost(F(k, s)) \in Int
    <3>1. Cost(F(k, s)) \in Int
      BY <1>1, Zenon
    <3> HIDE DEF F
    <3> QED
      BY <3>1
  <2>2. score(k, s) = Max({0, 100 - Cost(F(k, s))})
    BY <1>5, Zenon
  <2> HIDE DEF F, score
  <2> QED
    BY <1>6, <2>1, <2>2, Zenon
<1> HIDE DEF F, score
<1>8. score(j, tt) <= score(i, st) /\ score(i, st) \in Int /\ score(j, tt) \in Int
  BY <1>1, <1>4, <1>7
<1> QED
  BY <1>8 DEF score

-----------------------------------------------------------------------------
(***************************************************************************)
(* Each way to make a signal worse is at least as bad.                     *)
(***************************************************************************)
\* What the score reads of an analysis is not better in the second.
Graver(i, st, j, tt) ==
    /\ j.forecast.model = i.forecast.model
    /\ (j.suboptimal <=> i.suboptimal) /\ (j.violates <=> i.violates)
    /\ tt.period = st.period /\ (tt.trend <=> st.trend)
    /\ Weaker(i.forecast) => Weaker(j.forecast)
    /\ ~ st.stationary => ~ tt.stationary
    /\ st.noise => tt.noise
    /\ st.crowded => tt.crowded
    /\ st.remediation => tt.remediation
    /\ (i.data.missing > 0 \/ i.data.gaps > 0) => (j.data.missing > 0 \/ j.data.gaps > 0)
    /\ (\E n \in DOMAIN st.residuals : st.residuals[n] = "no")
           => \E n \in DOMAIN tt.residuals : tt.residuals[n] = "no"

LEMMA GraverIsAsBad ==
    ASSUME NEW i, NEW st, NEW j, NEW tt, Graver(i, st, j, tt)
    PROVE  Rest(i, st) \subseteq Rest(j, tt)
<1>1. Unpaid(i, st) => Unpaid(j, tt)
  BY Zenon DEF Graver, Unpaid
<1>2. ASSUME NEW k, NEW s
      PROVE  Signals(k, s) \ Bands =
                 When(Weaker(k.forecast), {"recent_holdout"})
                 \cup When(~ s.stationary, {"non_stationary"})
                 \cup When(s.noise, {"white_noise"})
                 \cup When(s.crowded, {"outliers"})
                 \cup When(k.data.missing > 0 \/ k.data.gaps > 0, {"missing_data"})
                 \cup When(s.remediation, {"structural_breaks"})
  BY DEF Signals, ErrorBand, When, Bands
<1>3. /\ When(Weaker(i.forecast), {"recent_holdout"})
             \subseteq When(Weaker(j.forecast), {"recent_holdout"})
      /\ When(~ st.stationary, {"non_stationary"}) \subseteq When(~ tt.stationary, {"non_stationary"})
      /\ When(st.noise, {"white_noise"}) \subseteq When(tt.noise, {"white_noise"})
      /\ When(st.crowded, {"outliers"}) \subseteq When(tt.crowded, {"outliers"})
      /\ When(i.data.missing > 0 \/ i.data.gaps > 0, {"missing_data"})
             \subseteq When(j.data.missing > 0 \/ j.data.gaps > 0, {"missing_data"})
      /\ When(st.remediation, {"structural_breaks"})
             \subseteq When(tt.remediation, {"structural_breaks"})
      /\ When(Unpaid(i, st), {"review_warn"}) \subseteq When(Unpaid(j, tt), {"review_warn"})
  BY <1>1, Zenon DEF Graver, When
<1> QED
  BY <1>2, <1>3 DEF Rest

LEMMA ErrorsAreNested ==
    ASSUME NEW f, f.mape \in Measured
    PROVE  (Above(f, 20) => Above(f, 10)) /\ (Above(f, 10) => Above(f, 5))
BY EvidenceAssumption DEF Above, Measured

LEMMA WorseFindings ==
    ASSUME NEW i, i.forecast.mape \in Measured, NEW st, Told \subseteq DOMAIN st,
           NEW tt \in {[st EXCEPT !.stationary = FALSE], [st EXCEPT !.noise = TRUE],
                       [st EXCEPT !.crowded = TRUE], [st EXCEPT !.remediation = TRUE]}
                 \cup {[st EXCEPT !.residuals[n] = "no"] : n \in DOMAIN st.residuals}
    PROVE  AsBad(i, st, i, tt)
<1>1. Graver(i, st, i, tt)
  <2> USE DEF Told, Graver
  <2>1. CASE tt = [st EXCEPT !.stationary = FALSE]
    BY <2>1
  <2>2. CASE tt = [st EXCEPT !.noise = TRUE]
    BY <2>2
  <2>3. CASE tt = [st EXCEPT !.crowded = TRUE]
    BY <2>3
  <2>4. CASE tt = [st EXCEPT !.remediation = TRUE]
    BY <2>4
  <2>5. CASE tt \in {[st EXCEPT !.residuals[n] = "no"] : n \in DOMAIN st.residuals}
    <3>1. PICK n \in DOMAIN st.residuals : tt = [st EXCEPT !.residuals[n] = "no"]
      BY <2>5
    <3>2. /\ tt.period = st.period /\ tt.trend = st.trend /\ tt.stationary = st.stationary
          /\ tt.noise = st.noise /\ tt.crowded = st.crowded /\ tt.remediation = st.remediation
          /\ tt.residuals = [st.residuals EXCEPT ![n] = "no"]
      BY <3>1
    <3>3. n \in DOMAIN tt.residuals /\ tt.residuals[n] = "no"
      BY <3>2
    <3> QED
      BY <3>2, <3>3, Zenon
  <2> QED
    BY <2>1, <2>2, <2>3, <2>4, <2>5
<1>2. /\ Above(i.forecast, 20) => Above(i.forecast, 10)
      /\ Above(i.forecast, 10) => Above(i.forecast, 5)
  BY ErrorsAreNested
<1> QED
  BY <1>1, <1>2, GraverIsAsBad, Zenon DEF AsBad

LEMMA WorseAnalysis ==
    ASSUME NEW i \in Analyses, i.forecast.mape # Unavailable, NEW st,
           NEW j \in {[i EXCEPT !.forecast.mape = more] : more \in {m \in {6, 11, 21} : m > i.forecast.mape}}
                     \cup {[i EXCEPT !.forecast.final = 2, !.forecast.pooled = 1],
                           [i EXCEPT !.data.missing = @ + 1], [i EXCEPT !.data.gaps = @ + 1]}
    PROVE  AsBad(i, st, j, st)
<1> DEFINE f == i.forecast
           g == j.forecast
           same == /\ j.suboptimal = i.suboptimal /\ j.violates = i.violates
                   /\ g.model = f.model
<1>1. /\ DOMAIN i = {"series", "off", "outcome", "forecast", "data", "slope", "method",
                     "violates", "suboptimal", "folds", "errors", "truth", "context"}
      /\ f \in Forecasts /\ i.data \in Collections
  BY DEF Analyses
<1>2. /\ DOMAIN f = {"model", "mape", "final", "pooled", "path", "label", "bounded", "evaluated"}
      /\ f.mape \in Nat
  BY <1>1 DEF Forecasts, Measured
<1>3. /\ DOMAIN i.data = {"missing", "duplicates", "gaps", "issues", "regular", "frequency"}
      /\ i.data.missing \in Nat /\ i.data.gaps \in Nat
  BY <1>1 DEF Collections
<1>4. CASE \E more \in {m \in {6, 11, 21} : m > f.mape} : j = [i EXCEPT !.forecast.mape = more]
  <2>1. PICK more \in {m \in {6, 11, 21} : m > f.mape} : j = [i EXCEPT !.forecast.mape = more]
    BY <1>4
  <2>2. /\ g = [f EXCEPT !.mape = more] /\ j.data = i.data
        /\ j.suboptimal = i.suboptimal /\ j.violates = i.violates
    BY <1>1, <2>1
  <2>3. /\ g.mape = more /\ g.model = f.model /\ g.final = f.final /\ g.pooled = f.pooled
    BY <1>2, <2>2
  <2>4. Graver(i, st, j, st)
    BY <2>2, <2>3, Zenon DEF Graver, Weaker, Rated
  <2>5. \A percent \in {5, 10, 20} : Above(f, percent) => Above(g, percent)
    BY <1>2, <2>3, EvidenceAssumption DEF Above
  <2>6. g.mape \in Measured /\ f.mape \in Measured
    BY <1>2, <2>3 DEF Measured
  <2> QED
    BY <2>4, <2>5, <2>6, GraverIsAsBad, ErrorsAreNested, Zenon DEF AsBad
<1>5. CASE j = [i EXCEPT !.forecast.final = 2, !.forecast.pooled = 1]
  <2>1. /\ g = [f EXCEPT !.final = 2, !.pooled = 1] /\ j.data = i.data
        /\ j.suboptimal = i.suboptimal /\ j.violates = i.violates
    BY <1>1, <1>5
  <2>2. g.mape = f.mape /\ g.model = f.model /\ g.final = 2 /\ g.pooled = 1
    BY <1>2, <2>1
  <2>3. Weaker(g)
    BY <2>2, EvidenceAssumption DEF Weaker, Rated
  <2>4. Graver(i, st, j, st)
    BY <2>1, <2>2, <2>3, Zenon DEF Graver
  <2>5. \A percent \in {5, 10, 20} : Above(f, percent) => Above(g, percent)
    BY <2>2, Zenon DEF Above
  <2>6. g.mape \in Measured /\ f.mape \in Measured
    BY <1>2, <2>2 DEF Measured
  <2> QED
    BY <2>4, <2>5, <2>6, GraverIsAsBad, ErrorsAreNested, Zenon DEF AsBad
<1>6. CASE j \in {[i EXCEPT !.data.missing = @ + 1], [i EXCEPT !.data.gaps = @ + 1]}
  <2>1. /\ g = f /\ j.suboptimal = i.suboptimal /\ j.violates = i.violates
        /\ j.data \in {[i.data EXCEPT !.missing = @ + 1], [i.data EXCEPT !.gaps = @ + 1]}
    BY <1>1, <1>6
  <2>2. j.data.missing > 0 \/ j.data.gaps > 0
    BY <1>3, <2>1
  <2>3. Graver(i, st, j, st)
    BY <2>1, <2>2, Zenon DEF Graver
  <2>4. f.mape \in Measured
    BY <1>2 DEF Measured
  <2> QED
    BY <2>1, <2>3, <2>4, GraverIsAsBad, ErrorsAreNested, Zenon DEF AsBad
<1> QED
  BY <1>4, <1>5, <1>6

\* Without the LLM, evidence that is worse in one signal never makes the report
\* more confident, for every analysis: the deductions only grow, and what the
\* review says costs nothing that a signal has paid for already.
THEOREM WorseIsNeverBetter == EvidenceSpec => []WorseNeverBetter
<1>1. EvidenceInv => WorseNeverBetter
  <2> SUFFICES ASSUME EvidenceInv, progress = "reported", verdict.alone,
                      NEW w \in Worse(inputs, findings)
               PROVE  Confidence(w[1], w[2], Reviewed(w[1], w[2], NoReply)).score
                          <= report.confidence.score
    BY Zenon DEF WorseNeverBetter
  <2>1. /\ inputs \in Inputs /\ inputs.forecast.mape # Unavailable
        /\ Told \subseteq DOMAIN findings
        /\ report = Built(inputs, findings, verdict)
    BY DEF EvidenceInv, Judged
  <2>2. PICK reply \in Replies \cup {NoReply} : verdict = Reviewed(inputs, findings, reply)
    BY DEF EvidenceInv, Judged
  <2>3. verdict = Reviewed(inputs, findings, NoReply)
    BY <2>2 DEF Reviewed
  <2>4. report.confidence = Confidence(inputs, findings, verdict)
    BY <2>1 DEF Built
  <2>5. inputs \in Analyses /\ inputs.forecast.mape \in Measured
    BY <2>1, EvidenceAssumption DEF Analyses, Forecasts
  <2>6. AsBad(inputs, findings, w[1], w[2])
    <3> DEFINE graver == {[findings EXCEPT !.stationary = FALSE], [findings EXCEPT !.noise = TRUE],
                          [findings EXCEPT !.crowded = TRUE],
                          [findings EXCEPT !.remediation = TRUE]}
                         \cup {[findings EXCEPT !.residuals[n] = "no"] :
                                  n \in DOMAIN findings.residuals}
               harder == {[inputs EXCEPT !.forecast.mape = more] :
                             more \in {m \in {6, 11, 21} : m > inputs.forecast.mape}}
                         \cup {[inputs EXCEPT !.forecast.final = 2, !.forecast.pooled = 1],
                               [inputs EXCEPT !.data.missing = @ + 1],
                               [inputs EXCEPT !.data.gaps = @ + 1]}
    <3>1. \/ \E tt \in graver : w = <<inputs, tt>>
          \/ \E j \in harder : w = <<j, findings>>
      BY DEF Worse
    <3>2. \A tt \in graver : AsBad(inputs, findings, inputs, tt)
      BY <2>1, <2>5, WorseFindings, Zenon
    <3>3. \A j \in harder : AsBad(inputs, findings, j, findings)
      BY <2>1, <2>5, WorseAnalysis, Zenon
    <3> HIDE DEF graver, harder
    <3> QED
      BY <3>1, <3>2, <3>3
  <2> QED
    BY <2>3, <2>4, <2>6, WorseCostsMore, Zenon
<1> QED
  BY <1>1, EvidenceInit, EvidenceStep, PTL DEF EvidenceSpec
=============================================================================
