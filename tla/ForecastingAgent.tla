-------------------------- MODULE ForecastingAgent --------------------------
(***************************************************************************)
(* agents/forecasting_agent.py run_forecasting_agent: the engine offers    *)
(* the procedures of the models enabled in the registry, every one is      *)
(* backtested on the same folds, a loss is resolved, and the winner is fit *)
(* for production.  A failed fit is excluded and the same evidence ranked  *)
(* again; a forced model is never replaced.  The final test is looked at   *)
(* once the winner is frozen.                                              *)
(*                                                                         *)
(* The evidence is chosen from the CONSTANT Evidences: the statistics that *)
(* produce it are outside the model.                                       *)
(***************************************************************************)
EXTENDS SelectionPolicy, ModelRegistry, SequencesExt

CONSTANTS Base,        \* base_name of every procedure
          Ensemble,    \* "Simple Ensemble"
          Pool,        \* the models it may mix
          Evidences,   \* outcomes of the backtests
          UserLosses,  \* _SUPPORTED_LOSS_METRICS
          AutoLosses,  \* losses the assistant may recommend
          Requests,    \* arguments of the call
          NoProc, NoEvidence, NoLoss, NoAdvice  \* "no value" markers

Request == [forced : BOOLEAN, model : Procs \cup {NoProc}, exclude : SUBSET Procs,
            loss : UserLosses \cup {"auto", "unsupported"}]

ASSUME AgentAssumption ==
    /\ IsFiniteSet(Procs)
    /\ Models \subseteq Procs /\ Models \cap Baselines = {}
    /\ Base \in [Procs -> Procs] /\ Ensemble \in Procs /\ Pool \subseteq Models
    /\ \A p \in Models \cup Baselines \cup {Ensemble} : Base[p] = p
    /\ Evidences \subseteq Evidence
    /\ Requests \subseteq Request
    /\ \A r \in Requests : r.forced => r.model \in Procs /\ r.exclude = {}
    /\ UserLosses \subseteq Metrics /\ AutoLosses \subseteq Metrics
    /\ {"mase", "mae"} \subseteq Metrics
    /\ NoProc \notin Procs /\ NoEvidence \notin Evidence
    /\ NoLoss \notin Metrics /\ NoAdvice \notin Metrics

VARIABLES
    request,   \* the arguments
    phase,     \* how far the call has come
    roster,    \* the models that were enabled when the engine was built
    evidence,  \* backtests
    loss,      \* resolved_loss
    chosen,    \* selected
    failed     \* production failures, oldest first

agentVars == <<request, phase, roster, evidence, loss, chosen, failed>>
vars      == <<registryVars, agentVars>>

Phase == {"idle", "build", "backtest", "loss", "select", "fit", "audit",
          "returned", "raised"}

TypeOK ==
    /\ RegistryTypeOK /\ roster \subseteq Models
    /\ request \in Requests
    /\ phase \in Phase
    /\ evidence \in Evidence \cup {NoEvidence}
    /\ loss \in Metrics \cup {NoLoss}
    /\ chosen \in Procs \cup {NoProc}
    /\ failed \in Seq(Procs)
-----------------------------------------------------------------------------
\* ForecastEngine.__post_init__: the models, the baselines, the variants of
\* an enabled model, and the ensemble of at least two enabled members.
Members(ms, p) == IF p = Ensemble THEN Pool \cap ms ELSE {}
Offered(ms) ==
    LET Mixed == IF Cardinality(Pool \cap ms) >= 2 THEN {Ensemble} ELSE {}
    IN  Baselines \cup Mixed
          \cup {p \in Procs \ (Baselines \cup {Ensemble}) : Base[p] \in ms}

\* "Excluding a base model also excludes procedures that use that model."
UsesAny(ms, p, names) == {p, Base[p]} \cap names # {} \/ Members(ms, p) \cap names # {}

\* Mutant: only the excluded names themselves are dropped.
NamedOnly == {p \in Offered(roster) : p \notin request.exclude}

Candidates == {p \in Offered(roster) : ~ UsesAny(roster, p, request.exclude)}

Eligible == evidence.rankable \ Range(failed)
-----------------------------------------------------------------------------
AgentInit ==
    /\ phase = "idle" /\ roster = {} /\ evidence = NoEvidence
    /\ loss = NoLoss /\ chosen = NoProc /\ failed = <<>>

\* The call, with nothing left of an earlier one.
CallAgent(r) ==
    /\ request' = r /\ phase' = "build" /\ roster' = {} /\ evidence' = NoEvidence
    /\ loss' = NoLoss /\ chosen' = NoProc /\ failed' = <<>>

BuildEngine ==
    /\ phase = "build"
    /\ roster' = EnabledModels
    /\ phase' = "backtest"
    /\ UNCHANGED <<request, evidence, loss, chosen, failed>>

\* evaluate_candidates; candidates that were not offered have no entry.
Backtest ==
    /\ phase = "backtest"
    /\ \E ev \in Evidences : evidence' = [ev EXCEPT !.rankable = @ \cap Candidates]
    /\ phase' = "loss"
    /\ UNCHANGED <<request, roster, loss, chosen, failed>>

\* _resolve_loss_preference, with what the assistant advised, if anything.
Resolve(wanted, advice) ==
    IF wanted \in UserLosses THEN wanted
    ELSE IF wanted = "auto" /\ advice # NoAdvice THEN advice
    ELSE "mase"

ResolveLoss(advice) ==
    LET resolved == Resolve(request.loss, advice)
    IN  /\ phase = "loss"
        /\ loss' = IF \E p \in evidence.rankable : Present(Value(evidence, resolved, p))
                   THEN resolved ELSE "mae"
        /\ phase' = "select"
        /\ UNCHANGED <<request, roster, evidence, chosen, failed>>

Choose(p) ==
    /\ chosen' = p /\ phase' = "fit"
    /\ UNCHANGED <<request, roster, evidence, loss, failed>>

Raise ==
    /\ phase' = "raised"
    /\ UNCHANGED <<request, roster, evidence, loss, chosen, failed>>

SelectForced == /\ phase = "select" /\ request.forced
                /\ request.model \in Candidates
                /\ Choose(request.model)

\* "Requested model is disabled, excluded, or unknown."
RejectForced == /\ phase = "select" /\ request.forced
                /\ request.model \notin Candidates
                /\ Raise

SelectBest == /\ phase = "select" /\ ~ request.forced
              /\ \E w \in Eligible : Wins(evidence, loss, Eligible, w) /\ Choose(w)

\* "No forecasting procedure passed all common validation folds"
NothingLeft == /\ phase = "select" /\ ~ request.forced
               /\ Eligible = {}
               /\ Raise

FitSucceeds ==
    /\ phase = "fit"
    /\ phase' = "audit"
    /\ UNCHANGED <<request, roster, evidence, loss, chosen, failed>>

\* Mutant: a failed fit is ranked again without being excluded.
ForgetFailure ==
    /\ phase = "fit" /\ ~ request.forced
    /\ phase' = "select"
    /\ UNCHANGED <<request, roster, evidence, loss, chosen, failed>>

FitFails ==
    /\ phase = "fit" /\ ~ request.forced
    /\ failed' = Append(failed, chosen)
    /\ phase' = "select"
    /\ UNCHANGED <<request, roster, evidence, loss, chosen>>

FitForcedFails == phase = "fit" /\ request.forced /\ Raise

\* evaluate_final_candidate, calibration and the result.
Audit ==
    /\ phase = "audit"
    /\ phase' = "returned"
    /\ UNCHANGED <<request, roster, evidence, loss, chosen, failed>>

AgentWork ==
    \/ BuildEngine \/ Backtest
    \/ SelectForced \/ RejectForced \/ SelectBest \/ NothingLeft
    \/ FitSucceeds \/ FitFails \/ FitForcedFails
    \/ Audit

Advise == \E advice \in AutoLosses \cup {NoAdvice} : ResolveLoss(advice)
-----------------------------------------------------------------------------
Init == /\ RegistryInit
        /\ request \in Requests
        /\ AgentInit

Call == phase = "idle" /\ CallAgent(request)

AgentNext == Call \/ AgentWork \/ Advise

\* The administrator's requests run between any two steps of the call.
Next == \/ AgentNext /\ UNCHANGED registryVars
        \/ RegistryNext /\ UNCHANGED agentVars

Fairness == WF_vars(AgentNext /\ UNCHANGED registryVars)

Spec == Init /\ [][Next]_vars /\ Fairness
-----------------------------------------------------------------------------
AutoMode     == ~ request.forced
Settled  == phase \in {"fit", "audit", "returned"}
LossOf(p) == Value(evidence, loss, p)

\* The procedure that is fit passed every common fold, has not failed in
\* production, and neither it, its base model nor a model it mixes is one the
\* caller excluded: a retry cannot bring a rejected model back in disguise.
WinnerEligible ==
    Settled /\ AutoMode =>
        /\ chosen \in evidence.rankable /\ chosen \notin Range(failed)
        /\ {chosen, Base[chosen]} \cap request.exclude = {}
        /\ chosen = Ensemble => Pool \cap roster \cap request.exclude = {}

\* The tie-break and the baseline retention together give away less than
\* 1.05 * 1.10: no eligible candidate beats the winner by more.
NearBest ==
    Settled /\ AutoMode => \A q \in Eligible : 10000 * LossOf(chosen) <= 11550 * LossOf(q)

\* A complex model is used only if the losses of all baselines are at least
\* 1.10 times its own, whichever candidate the tie-break preferred.
ComplexEarnsItsPlace ==
    Settled /\ AutoMode /\ chosen \notin Baselines =>
        \A b \in Eligible \cap Baselines :
            Present(LossOf(b)) => 100 * LossOf(b) >= 110 * LossOf(chosen)

\* The first ranking never happens on a loss that the winner does not have:
\* a decision loss nobody could estimate has given way to MAE.
RankedOnKnownLoss ==
    Settled /\ AutoMode /\ failed = <<>> /\ (\E p \in Eligible : Present(Value(evidence, "mae", p)))
        => Present(LossOf(chosen))

\* The statistical review's check of a deterministic selection, 1.5 times the
\* best eligible loss, never finds anything to flag.
ReviewAgrees ==
    phase = "returned" /\ AutoMode => ~ PolicyViolation(evidence, loss, Eligible, chosen)

\* An Auto call gives up only after every candidate that passed the common
\* folds has failed its production fit.
GivesUpLast ==
    phase = "raised" /\ AutoMode => evidence.rankable \cap Candidates \subseteq Range(failed)

\* A forced model is the one that is fit, or the call raises.
ForcedNeverSubstituted == Settled /\ request.forced => chosen = request.model

=============================================================================
