----------------------- MODULE ForecastPipelineProofs -----------------------
(***************************************************************************)
(* Proofs for every set of procedures, models, evidence and answers of the *)
(* LLM, and every interleaving with administrators: what the selection     *)
(* policy guarantees, that the forecasting agent's loop keeps it through   *)
(* any number of production failures, the registry the models come from,   *)
(* and ForecastPipeline.  The agent's inductive invariant is carried along *)
(* in the pipeline's: that the policy is never overruled rests on what the *)
(* agent may select.                                                       *)
(***************************************************************************)
EXTENDS ForecastPipeline, TLAPS

\* The head of a ranking has the least loss.
LEMMA FirstIsLeast ==
    ASSUME NEW ev \in Evidence, NEW m \in Metrics, NEW R \in SUBSET Procs,
           NEW p, First(ev, m, R, p), NEW q \in R
    PROVE  /\ p \in R /\ Value(ev, m, p) \in Loss /\ Value(ev, m, q) \in Loss
           /\ Value(ev, m, p) <= Value(ev, m, q)
<1>1. p \in R /\ p \in Procs /\ q \in Procs
  BY DEF First
<1>2. Value(ev, m, p) \in Loss /\ Value(ev, m, q) \in Loss
  BY <1>1 DEF Evidence, Value
<1>3. Value(ev, m, p) \in Int /\ Value(ev, m, q) \in Int
  BY <1>2, PolicyAssumption DEF Loss, Missing
<1>4. CASE p = q
  BY <1>1, <1>2, <1>3, <1>4
<1>5. CASE p # q
  <2>1. Before(ev, m, p, q)
    BY <1>5 DEF First
  <2>2. Value(ev, m, p) < Value(ev, m, q) \/ Value(ev, m, p) = Value(ev, m, q)
    BY <2>1 DEF Before, SameValue
  <2> QED BY <1>1, <1>2, <1>3, <2>2
<1> QED BY <1>4, <1>5

\* The tie-break gives away less than a factor of 1.05.
LEMMA PreferredNearBest ==
    ASSUME NEW ev \in Evidence, NEW m \in Metrics, NEW R \in SUBSET Procs,
           NEW s, Preferred(ev, m, R, s), NEW q \in R
    PROVE  /\ s \in R /\ Value(ev, m, s) \in Loss /\ Value(ev, m, q) \in Loss
           /\ 100 * Value(ev, m, s) <= 105 * Value(ev, m, q)
<1>1. PICK best \in R : /\ First(ev, m, R, best)
                        /\ TieBroken(ev, m, R, best, s) \/ s = best
  BY DEF Preferred
<1>2. /\ Value(ev, m, best) \in Loss /\ Value(ev, m, q) \in Loss
      /\ Value(ev, m, best) <= Value(ev, m, q)
  BY <1>1, FirstIsLeast
<1>3. /\ Value(ev, m, best) \in Nat /\ Value(ev, m, q) \in Nat
  BY <1>2, PolicyAssumption DEF Loss, Missing
<1>4. CASE s = best
  BY <1>2, <1>3, <1>4
<1>5. CASE TieBroken(ev, m, R, best, s)
  <2>1. s \in R
    BY <1>5 DEF TieBroken, First
  <2>2. Value(ev, m, s) \in Loss /\ 100 * Value(ev, m, s) < 105 * Value(ev, m, best)
    BY <1>5, <2>1 DEF TieBroken, Negligible, Evidence, Value
  <2>3. Value(ev, m, s) \in Nat
    BY <2>2, PolicyAssumption DEF Loss, Missing
  <2> QED BY <1>2, <1>3, <2>1, <2>2, <2>3
<1> QED BY <1>1, <1>4, <1>5

\* The winner is a candidate, at most a factor of 1.05 * 1.10 from the best.
LEMMA WinnerNearBest ==
    ASSUME NEW ev \in Evidence, NEW m \in Metrics, NEW R \in SUBSET Procs,
           NEW w, Wins(ev, m, R, w), NEW q \in R
    PROVE  /\ w \in R /\ Value(ev, m, w) \in Loss /\ Value(ev, m, q) \in Loss
           /\ 10000 * Value(ev, m, w) <= 11550 * Value(ev, m, q)
<1>1. PICK s \in R : /\ Preferred(ev, m, R, s)
                     /\ Retained(ev, m, R, s, w) \/ w = s
  BY DEF Wins
<1>2. /\ Value(ev, m, s) \in Loss /\ Value(ev, m, q) \in Loss
      /\ 100 * Value(ev, m, s) <= 105 * Value(ev, m, q)
  BY <1>1, PreferredNearBest
<1>3. Value(ev, m, s) \in Nat /\ Value(ev, m, q) \in Nat
  BY <1>2, PolicyAssumption DEF Loss, Missing
<1>4. CASE w = s
  BY <1>2, <1>3, <1>4
<1>5. CASE Retained(ev, m, R, s, w)
  <2>1. w \in R
    BY <1>5 DEF Retained, BestBaseline, First
  <2>2. Value(ev, m, w) \in Loss /\ 100 * Value(ev, m, w) < 110 * Value(ev, m, s)
    BY <1>5, <2>1 DEF Retained, Insufficient, Evidence, Value
  <2>3. Value(ev, m, w) \in Nat
    BY <2>2, PolicyAssumption DEF Loss, Missing
  <2> QED BY <1>2, <1>3, <2>1, <2>2, <2>3
<1> QED BY <1>1, <1>4, <1>5

\* A complex winner beats every baseline with a known loss by 1.10 or more.
LEMMA ComplexWinnerEarnsItsPlace ==
    ASSUME NEW ev \in Evidence, NEW m \in Metrics, NEW R \in SUBSET Procs,
           NEW w, Wins(ev, m, R, w), w \notin Baselines,
           NEW b \in R \cap Baselines, Present(Value(ev, m, b))
    PROVE  100 * Value(ev, m, b) >= 110 * Value(ev, m, w)
<1>1. /\ Preferred(ev, m, R, w) /\ Kept(ev, m, R, w) /\ w \in R
  BY DEF Wins, Retained, BestBaseline, First
<1>2. PICK base \in R : /\ First(ev, m, R \cap Baselines, base)
                        /\ ~ Insufficient(Value(ev, m, base), Value(ev, m, w))
  BY <1>1 DEF Kept, BestBaseline
<1>3. PICK best \in R : /\ First(ev, m, R, best)
                        /\ TieBroken(ev, m, R, best, w) \/ w = best
  BY <1>1 DEF Preferred
<1>4. /\ Value(ev, m, base) \in Loss /\ Value(ev, m, b) \in Loss
      /\ Value(ev, m, base) <= Value(ev, m, b)
  <2>1. R \cap Baselines \in SUBSET Procs
    OBVIOUS
  <2> QED BY <1>2, <2>1, FirstIsLeast
<1>5. /\ Value(ev, m, best) \in Loss
      /\ Value(ev, m, best) <= Value(ev, m, base)
  BY <1>2, <1>3, FirstIsLeast
<1>6. Value(ev, m, w) \in Loss
  BY <1>1 DEF Evidence, Value
<1>7. /\ Value(ev, m, best) \in Nat /\ Value(ev, m, base) \in Nat
      /\ Value(ev, m, b) \in Nat /\ Value(ev, m, w) \in Nat
      /\ Missing \in Nat
      /\ Value(ev, m, b) < Missing
  BY <1>4, <1>5, <1>6, PolicyAssumption DEF Loss, Missing, Present
<1>8. Present(Value(ev, m, base))
  BY <1>4, <1>7 DEF Present
<1>9. CASE w = best
  <2>1. CASE Value(ev, m, w) = 0
    BY <1>7, <2>1
  <2>2. CASE Value(ev, m, w) > 0
    <3>1. Positive(Value(ev, m, w)) /\ Positive(Value(ev, m, base))
      BY <1>4, <1>5, <1>7, <1>8, <1>9, <2>2 DEF Positive, Present
    <3>2. ~ (100 * Value(ev, m, base) < 110 * Value(ev, m, w))
      BY <1>2, <3>1 DEF Insufficient
    <3> QED BY <1>4, <1>7, <3>2
  <2> QED BY <1>7, <2>1, <2>2
<1>10. CASE TieBroken(ev, m, R, best, w)
  <2>1. Positive(Value(ev, m, best)) /\ Positive(Value(ev, m, w))
    BY <1>10 DEF TieBroken, Negligible
  <2>2. Positive(Value(ev, m, base))
    BY <1>5, <1>7, <1>8, <2>1 DEF Positive
  <2>3. ~ (100 * Value(ev, m, base) < 110 * Value(ev, m, w))
    BY <1>2, <2>1, <2>2 DEF Insufficient
  <2> QED BY <1>4, <1>7, <2>3
<1> QED BY <1>3, <1>9, <1>10

\* 1.05 * 1.10 is less than 1.5: the review cannot flag the winner.
LEMMA WinnerNeverFlagged ==
    ASSUME NEW ev \in Evidence, NEW m \in Metrics, NEW R \in SUBSET Procs,
           NEW w, Wins(ev, m, R, w)
    PROVE  ~ PolicyViolation(ev, m, R, w)
<1>1. SUFFICES ASSUME NEW q \in R, 2 * Value(ev, m, w) > 3 * Value(ev, m, q)
               PROVE  FALSE
  BY DEF PolicyViolation, Comparable
<1>2. /\ w \in R /\ Value(ev, m, w) \in Loss /\ Value(ev, m, q) \in Loss
      /\ 10000 * Value(ev, m, w) <= 11550 * Value(ev, m, q)
  BY WinnerNearBest
<1>3. Value(ev, m, w) \in Nat /\ Value(ev, m, q) \in Nat
  BY <1>2, PolicyAssumption DEF Loss, Missing
<1> QED BY <1>1, <1>2, <1>3

\* If any candidate's loss is known, so is the winner's.
LEMMA WinnerKnown ==
    ASSUME NEW ev \in Evidence, NEW m \in Metrics, NEW R \in SUBSET Procs,
           NEW w, Wins(ev, m, R, w), NEW q \in R, Present(Value(ev, m, q))
    PROVE  Present(Value(ev, m, w))
<1>1. PICK s \in R : /\ Preferred(ev, m, R, s)
                     /\ Retained(ev, m, R, s, w) \/ w = s
  BY DEF Wins
<1>2. PICK best \in R : /\ First(ev, m, R, best)
                        /\ TieBroken(ev, m, R, best, s) \/ s = best
  BY <1>1 DEF Preferred
<1>3. /\ Value(ev, m, best) \in Loss /\ Value(ev, m, q) \in Loss
      /\ Value(ev, m, best) <= Value(ev, m, q)
  BY <1>2, FirstIsLeast
<1>4. Present(Value(ev, m, best))
  BY <1>3, PolicyAssumption DEF Present, Loss, Missing
<1>5. Present(Value(ev, m, s))
  BY <1>2, <1>4 DEF TieBroken, Negligible, Positive
<1>6. CASE Retained(ev, m, R, s, w)
  BY <1>6 DEF Retained, Insufficient, Positive
<1> QED BY <1>1, <1>5, <1>6
-----------------------------------------------------------------------------
(* The inductive invariant of the call.                                    *)

Ranked == phase \in {"select", "fit", "audit", "returned"}

\* Some candidate that passed the folds has a loss under metric m.
Known(m) == \E p \in evidence.rankable : Present(Value(evidence, m, p))

AgentInv ==
    /\ TypeOK
    /\ phase = "loss" \/ Ranked =>
         evidence \in Evidence /\ evidence.rankable \subseteq Candidates
    /\ Ranked => loss \in Metrics /\ (Known("mae") => Known(loss))
    /\ Settled /\ AutoMode => Wins(evidence, loss, Eligible, chosen)
    /\ Settled /\ request.forced => chosen = request.model
    /\ phase = "raised" /\ AutoMode => Eligible = {}

\* What an administrator does to the table leaves the type correct.
LEMMA RegistryTyped ==
    RegistryTypeOK /\ [RegistryNext]_registryVars => RegistryTypeOK'
<1> SUFFICES ASSUME RegistryTypeOK, [RegistryNext]_registryVars
             PROVE  RegistryTypeOK'
  OBVIOUS
<1>1. ASSUME NEW a \in Admins, NEW m \in Models, EnableModel(a, m)
      PROVE  RegistryTypeOK'
  BY <1>1 DEF RegistryTypeOK, EnableModel
<1>2. ASSUME NEW a \in Admins, NEW m \in Models, CheckDisable(a, m)
      PROVE  RegistryTypeOK'
  BY <1>2 DEF RegistryTypeOK, CheckDisable
<1>3. ASSUME NEW a \in Admins, ApplyDisable(a)
      PROVE  RegistryTypeOK'
  BY <1>3 DEF RegistryTypeOK, ApplyDisable
<1>4. CASE UNCHANGED registryVars
  BY <1>4 DEF RegistryTypeOK, registryVars
<1> QED BY <1>1, <1>2, <1>3, <1>4 DEF RegistryNext

LEMMA AgentInit_Inv == Init => AgentInv
<1> SUFFICES ASSUME Init PROVE AgentInv
  OBVIOUS
<1>1. RegistryTypeOK
  BY RegistryAssumption DEF Init, RegistryInit, RegistryTypeOK
<1>2. TypeOK
  BY <1>1 DEF Init, AgentInit, TypeOK, Phase
<1> QED BY <1>2 DEF Init, AgentInit, AgentInv, Ranked, Settled

\* A step that decides nothing: the winner is kept and so is its evidence.
Keeping ==
    /\ UNCHANGED <<request, roster, evidence, loss, chosen, failed>>
    /\ \/ phase' = phase
       \/ phase = "fit" /\ phase' = "audit"
       \/ phase = "audit" /\ phase' = "returned"

LEMMA Keeps == AgentInv /\ TypeOK' /\ Keeping => AgentInv'
<1> SUFFICES ASSUME AgentInv, TypeOK', Keeping PROVE AgentInv'
  OBVIOUS
<1> USE DEF Keeping
<1>1. Candidates' = Candidates /\ Eligible' = Eligible /\ AutoMode' = AutoMode
  BY DEF Candidates, Eligible, AutoMode, Offered, UsesAny, Members
<1>2. \A m : Known(m)' = Known(m)
  BY DEF Known
<1>3. Ranked' => Ranked
  BY DEF Ranked
<1>4. Settled' => Settled
  BY DEF Settled
<1>5. phase' = "raised" => phase = "raised"
  OBVIOUS
<1>6. phase' = "loss" => phase = "loss"
  OBVIOUS
<1> QED BY <1>1, <1>2, <1>3, <1>4, <1>5, <1>6 DEF AgentInv

\* What the policy is asked to rank is evidence about procedures.
LEMMA Candidacy ==
    ASSUME AgentInv, phase = "loss" \/ Ranked
    PROVE  /\ evidence \in Evidence /\ evidence.rankable \in SUBSET Procs
           /\ Eligible \in SUBSET Procs /\ Eligible \subseteq Candidates
           /\ failed = <<>> => Eligible = evidence.rankable
<1>1. evidence \in Evidence /\ evidence.rankable \subseteq Candidates
  BY DEF AgentInv
<1>2. evidence.rankable \in SUBSET Procs
  BY <1>1 DEF Evidence
<1>3. failed = <<>> => Range(failed) = {}
  BY DEF Range
<1> QED BY <1>1, <1>2, <1>3 DEF Eligible

LEMMA AdviceGiven ==
    ASSUME NEW wanted \in UserLosses \cup {"auto", "unsupported"},
           NEW advice \in AutoLosses \cup {NoAdvice}
    PROVE  Resolve(wanted, advice) \in Metrics
BY AgentAssumption DEF Resolve

LEMMA CallStep_Inv == AgentInv /\ AgentNext /\ UNCHANGED registryVars => AgentInv'
<1> SUFFICES ASSUME AgentInv, AgentNext, UNCHANGED registryVars
             PROVE  AgentInv'
  OBVIOUS
<1> USE DEF Phase
<1>0. /\ TypeOK /\ RegistryTypeOK' /\ request \in Request
      /\ EnabledModels \subseteq Models
  BY AgentAssumption DEF AgentInv, TypeOK, RegistryTypeOK, registryVars, EnabledModels
<1>1. CASE Call
  <2>1. TypeOK'
    BY <1>0, <1>1 DEF Call, CallAgent, TypeOK
  <2> QED BY <1>1, <2>1 DEF Call, CallAgent, AgentInv, Ranked, Settled
<1>2. CASE BuildEngine
  <2>1. TypeOK'
    BY <1>0, <1>2 DEF BuildEngine, TypeOK
  <2> QED BY <1>2, <2>1 DEF BuildEngine, AgentInv, Ranked, Settled
<1>3. CASE Backtest
  <2>1. PICK ev \in Evidences : evidence' = [ev EXCEPT !.rankable = @ \cap Candidates]
    BY <1>3 DEF Backtest
  <2>2. evidence' \in Evidence /\ evidence'.rankable \subseteq Candidates
    BY <2>1, AgentAssumption DEF Evidence
  <2>3. TypeOK'
    BY <1>0, <1>3, <2>2 DEF Backtest, TypeOK
  <2>4. Candidates' = Candidates
    BY <1>3 DEF Backtest, Candidates, Offered, UsesAny, Members
  <2> QED BY <1>3, <2>2, <2>3, <2>4 DEF Backtest, AgentInv, Ranked, Settled
<1>4. CASE Advise
  <2>1. PICK advice \in AutoLosses \cup {NoAdvice} : ResolveLoss(advice)
    BY <1>4 DEF Advise
  <2>2. request.loss \in UserLosses \cup {"auto", "unsupported"}
    BY <1>0 DEF Request
  <2>3. Resolve(request.loss, advice) \in Metrics
    BY <2>2, AdviceGiven
  <2>4. loss' \in Metrics /\ (Known("mae") => Known(loss'))
    BY <2>1, <2>3, AgentAssumption DEF ResolveLoss, Known
  <2>5. TypeOK'
    BY <1>0, <2>1, <2>4 DEF ResolveLoss, TypeOK
  <2>6. Candidates' = Candidates /\ evidence' = evidence
    BY <2>1 DEF ResolveLoss, Candidates, Offered, UsesAny, Members
  <2>7. Known("mae")' = Known("mae") /\ Known(loss)' = Known(loss')
    BY <2>6 DEF Known
  <2>8. evidence \in Evidence /\ evidence.rankable \subseteq Candidates
    BY <2>1 DEF AgentInv, ResolveLoss
  <2> QED BY <2>1, <2>4, <2>5, <2>6, <2>7, <2>8 DEF ResolveLoss, AgentInv, Ranked, Settled
<1>5. CASE SelectForced
  <2>1. request.model \in Procs
    BY <1>5, <1>0, AgentAssumption DEF SelectForced, TypeOK
  <2>2. TypeOK'
    BY <1>0, <1>5, <2>1 DEF SelectForced, Choose, TypeOK
  <2>3. Candidates' = Candidates
    BY <1>5 DEF SelectForced, Choose, Candidates, Offered, UsesAny, Members
  <2>4. \A m : Known(m)' = Known(m)
    BY <1>5 DEF SelectForced, Choose, Known
  <2> QED BY <1>5, <2>2, <2>3, <2>4 DEF SelectForced, Choose, AgentInv, Ranked, Settled, AutoMode
<1>6. CASE SelectBest
  <2>1. PICK w \in Eligible : Wins(evidence, loss, Eligible, w) /\ Choose(w)
    BY <1>6 DEF SelectBest
  <2>2. w \in Procs
    BY <1>6, Candidacy DEF SelectBest, Ranked
  <2>3. TypeOK'
    BY <1>0, <2>1, <2>2 DEF Choose, TypeOK
  <2>4. Candidates' = Candidates /\ Eligible' = Eligible
    BY <2>1 DEF Choose, Candidates, Eligible, Offered, UsesAny, Members
  <2>5. \A m : Known(m)' = Known(m)
    BY <2>1 DEF Choose, Known
  <2>6. Wins(evidence, loss, Eligible, chosen)'
    BY <2>1, <2>4 DEF Choose
  <2> QED BY <1>6, <2>1, <2>3, <2>4, <2>5, <2>6
          DEF SelectBest, Choose, AgentInv, Ranked, Settled, AutoMode
<1>7. CASE RejectForced \/ NothingLeft \/ FitForcedFails
  <2>1. TypeOK'
    BY <1>0, <1>7 DEF RejectForced, NothingLeft, FitForcedFails, Raise, TypeOK
  <2>2. Eligible' = Eligible /\ AutoMode' = AutoMode
    BY <1>7 DEF RejectForced, NothingLeft, FitForcedFails, Raise, Eligible, AutoMode
  <2> QED BY <1>7, <2>1, <2>2 DEF RejectForced, NothingLeft, FitForcedFails, Raise,
                                  AgentInv, Ranked, Settled, AutoMode
<1>8. CASE FitFails
  <2>1. chosen \in Procs
    <3>1. Wins(evidence, loss, Eligible, chosen)
      BY <1>8 DEF FitFails, AgentInv, Settled, AutoMode
    <3>2. chosen \in Eligible
      BY <3>1 DEF Wins, Retained, BestBaseline, First
    <3> QED BY <1>8, <3>2, Candidacy DEF FitFails, Ranked
  <2>2. TypeOK'
    BY <1>0, <1>8, <2>1 DEF FitFails, TypeOK
  <2>3. Candidates' = Candidates
    BY <1>8 DEF FitFails, Candidates, Offered, UsesAny, Members
  <2>4. \A m : Known(m)' = Known(m)
    BY <1>8 DEF FitFails, Known
  <2> QED BY <1>8, <2>2, <2>3, <2>4 DEF FitFails, AgentInv, Ranked, Settled
<1>9. CASE FitSucceeds \/ Audit
  <2>1. TypeOK'
    BY <1>0, <1>9 DEF FitSucceeds, Audit, TypeOK
  <2>2. Keeping
    BY <1>9 DEF FitSucceeds, Audit, Keeping
  <2> QED BY <2>1, <2>2, Keeps
<1> QED BY <1>1, <1>2, <1>3, <1>4, <1>5, <1>6, <1>7, <1>8, <1>9 DEF AgentNext, AgentWork

LEMMA Step_Inv == AgentInv /\ [Next]_vars => AgentInv'
<1> SUFFICES ASSUME AgentInv, [Next]_vars PROVE AgentInv'
  OBVIOUS
<1>1. CASE AgentNext /\ UNCHANGED registryVars
  BY <1>1, CallStep_Inv
<1>2. CASE (RegistryNext /\ UNCHANGED agentVars) \/ UNCHANGED vars
  <2>1. RegistryTypeOK'
    <3>1. [RegistryNext]_registryVars
      BY <1>2 DEF vars
    <3> QED BY <3>1, RegistryTyped DEF AgentInv, TypeOK
  <2>2. UNCHANGED agentVars
    BY <1>2 DEF vars
  <2>3. TypeOK' /\ Keeping
    BY <2>1, <2>2 DEF AgentInv, TypeOK, Keeping, agentVars
  <2> QED BY <2>3, Keeps
<1> QED BY <1>1, <1>2 DEF Next
-----------------------------------------------------------------------------
\* The state of a call stays within its types, whatever the models and the
\* administrators do meanwhile.
THEOREM TypeCorrect == Spec => []TypeOK
<1>1. AgentInv => TypeOK
  BY DEF AgentInv
<1> QED BY <1>1, AgentInit_Inv, Step_Inv, PTL DEF Spec

\* However often a fit fails, the policy's winner among the candidates left is
\* the one that is fit.
LEMMA SettledWinner ==
    ASSUME AgentInv, Settled, AutoMode
    PROVE  /\ Wins(evidence, loss, Eligible, chosen)
           /\ evidence \in Evidence /\ loss \in Metrics /\ Eligible \in SUBSET Procs
           /\ chosen \in Eligible /\ chosen \in Candidates
           /\ failed = <<>> => Eligible = evidence.rankable
<1>1. Ranked
  BY DEF Settled, Ranked
<1>2. Wins(evidence, loss, Eligible, chosen) /\ loss \in Metrics
  BY <1>1 DEF AgentInv
<1>3. chosen \in Eligible
  BY <1>2 DEF Wins, Retained, BestBaseline, First
<1> QED BY <1>1, <1>2, <1>3, Candidacy

\* The winner passed the folds, has not failed and uses no excluded model.
THEOREM WinnerIsEligible == Spec => []WinnerEligible
<1>1. AgentInv => WinnerEligible
  <2> SUFFICES ASSUME AgentInv, Settled, AutoMode
               PROVE  /\ chosen \in evidence.rankable /\ chosen \notin Range(failed)
                      /\ {chosen, Base[chosen]} \cap request.exclude = {}
                      /\ chosen = Ensemble => Pool \cap roster \cap request.exclude = {}
    BY DEF WinnerEligible
  <2>1. chosen \in Eligible /\ chosen \in Candidates
    BY SettledWinner
  <2> QED BY <2>1 DEF Eligible, Candidates, UsesAny, Members
<1> QED BY <1>1, AgentInit_Inv, Step_Inv, PTL DEF Spec

\* No candidate that is left beats the winner by more than 1.05 * 1.10.
THEOREM WinnerIsNearBest == Spec => []NearBest
<1>1. AgentInv => NearBest
  BY SettledWinner, WinnerNearBest DEF NearBest, LossOf
<1> QED BY <1>1, AgentInit_Inv, Step_Inv, PTL DEF Spec

\* A complex winner improves on every baseline by 1.10.
THEOREM ComplexityIsEarned == Spec => []ComplexEarnsItsPlace
<1>1. AgentInv => ComplexEarnsItsPlace
  <2> SUFFICES ASSUME AgentInv, Settled, AutoMode, chosen \notin Baselines,
                      NEW b \in Eligible \cap Baselines, Present(LossOf(b))
               PROVE  100 * LossOf(b) >= 110 * LossOf(chosen)
    BY DEF ComplexEarnsItsPlace
  <2> QED BY SettledWinner, ComplexWinnerEarnsItsPlace DEF LossOf
<1> QED BY <1>1, AgentInit_Inv, Step_Inv, PTL DEF Spec

\* The winner's decision loss is known if any candidate has a MAE.
THEOREM LossIsKnown == Spec => []RankedOnKnownLoss
<1>1. AgentInv => RankedOnKnownLoss
  <2> SUFFICES ASSUME AgentInv, Settled, AutoMode, failed = <<>>,
                      NEW p \in Eligible, Present(Value(evidence, "mae", p))
               PROVE  Present(LossOf(chosen))
    BY DEF RankedOnKnownLoss
  <2>1. Known("mae")
    BY SettledWinner DEF Known
  <2>2. PICK q \in Eligible : Present(Value(evidence, loss, q))
    BY <2>1, SettledWinner DEF AgentInv, Settled, Ranked, Known
  <2> QED BY <2>2, SettledWinner, WinnerKnown DEF LossOf
<1> QED BY <1>1, AgentInit_Inv, Step_Inv, PTL DEF Spec

\* The review's bound of 1.5 is out of the policy's reach, so a deterministic
\* selection is never flagged for its loss.
THEOREM ReviewNeverDisagrees == Spec => []ReviewAgrees
<1>1. AgentInv => ReviewAgrees
  BY SettledWinner, WinnerNeverFlagged DEF ReviewAgrees, Settled
<1> QED BY <1>1, AgentInit_Inv, Step_Inv, PTL DEF Spec

\* A call that chooses for itself raises only with no candidate left.
THEOREM EveryCandidateTried == Spec => []GivesUpLast
<1>1. AgentInv => GivesUpLast
  BY DEF AgentInv, GivesUpLast, Eligible
<1> QED BY <1>1, AgentInit_Inv, Step_Inv, PTL DEF Spec

\* A forced model is fit or the call raises.
THEOREM ForcedIsFit == Spec => []ForcedNeverSubstituted
<1>1. AgentInv => ForcedNeverSubstituted
  BY DEF AgentInv, ForcedNeverSubstituted
<1> QED BY <1>1, AgentInit_Inv, Step_Inv, PTL DEF Spec
-----------------------------------------------------------------------------
(***************************************************************************)
(* The registry the agent reads: set_model_enabled keeps one model enabled *)
(* as long as one request at a time gets to it.                            *)
(***************************************************************************)

RegistryInv == RegistryTypeOK /\ AtLeastOneEnabled /\ CheckStillValid

\* One thread serves the administrators.
OneThread == \A a, b \in Admins : a = b

LEMMA RegistryInv_Init == RegistryInit => RegistryInv
BY RegistryAssumption DEF RegistryInit, RegistryInv, RegistryTypeOK, AtLeastOneEnabled,
                          CheckStillValid, Free

LEMMA RegistryInv_Step ==
    OneThread /\ RegistryInv /\ [RegistryNext]_registryVars => RegistryInv'
<1> SUFFICES ASSUME OneThread, RegistryInv, [RegistryNext]_registryVars
             PROVE  RegistryInv'
  OBVIOUS
<1> USE DEF RegistryInv, RegistryTypeOK, AtLeastOneEnabled, CheckStillValid, Free
<1>1. ASSUME NEW a \in Admins, NEW m \in Models, EnableModel(a, m)
      PROVE  RegistryInv'
  BY <1>1 DEF EnableModel, OneThread
<1>2. ASSUME NEW a \in Admins, NEW m \in Models, CheckDisable(a, m)
      PROVE  RegistryInv'
  <2>1. \A b \in Admins : b = a
    BY DEF OneThread
  <2> QED BY <1>2, <2>1 DEF CheckDisable, MayDisable, EnabledModels
<1>3. ASSUME NEW a \in Admins, ApplyDisable(a)
      PROVE  RegistryInv'
  <2>1. \A b \in Admins : b = a
    BY DEF OneThread
  <2>2. enabled # {disabling[a]}
    BY <1>3 DEF ApplyDisable, MayDisable, EnabledModels
  <2>3. RegistryTypeOK' /\ AtLeastOneEnabled'
    BY <1>3, <2>2 DEF ApplyDisable
  <2>4. CheckStillValid'
    BY <1>3, <2>1 DEF ApplyDisable
  <2> QED BY <2>3, <2>4
<1>4. CASE UNCHANGED registryVars
  BY <1>4 DEF registryVars, MayDisable, EnabledModels
<1> QED BY <1>1, <1>2, <1>3, <1>4 DEF RegistryNext

\* With one thread, the check that the model is not the last one enabled is
\* still true when its row is cleared, so some model stays enabled.
THEOREM OneThreadKeepsAModel == OneThread /\ RegistrySpec => []AtLeastOneEnabled
<1>1. RegistryInv => AtLeastOneEnabled
  BY DEF RegistryInv
<1>2. ASSUME OneThread
      PROVE  RegistrySpec => []AtLeastOneEnabled
  <2>1. RegistryInv /\ [RegistryNext]_registryVars => RegistryInv'
    BY <1>2, RegistryInv_Step
  <2> QED BY <1>1, <2>1, RegistryInv_Init, PTL DEF RegistrySpec
<1> QED BY <1>2
-----------------------------------------------------------------------------
(***************************************************************************)
(* ForecastPipeline.                                                       *)
(***************************************************************************)

\* The stages after the forecasting agent has returned.
After == {"review", "decide", "report", "write", "charts", "done"}

\* What has been decided, and about which procedure.
DecisionInv ==
    /\ request.forced = run.forced /\ request.model = run.model
    /\ stage \in After => phase = "returned"
    /\ stage \in After \cup {"forecast"} =>
         IF run.forced THEN selection = [model |-> run.model, method |-> "forced"]
                       ELSE selection.method # "forced"
    /\ stage \in After /\ ~ run.forced =>
         selection = [model |-> chosen, method |-> "deterministic"]
    /\ stage \in After \ {"review"} =>
         review.of = selection.model /\ review.method = selection.method
    /\ stage = "decide" /\ ~ run.forced => ~ review.override
    /\ passes = 2 => run.forced

\* A traditional job names its model and opens no report writer.
TraditionalInv ==
    run.trad => /\ stage \notin {"start", "failed"} => run.forced
                /\ stage # "write"
                /\ \A a \in Agents : spent[a] = 0

\* Agents that have not been asked in this attempt.
Unasked ==
    IF stage \in {"start", "validate"} THEN Agents
    ELSE IF stage = "statistics" THEN Agents \ {"validation"}
    ELSE IF stage = "select" THEN Agents \ {"validation", "statistical"}
    ELSE IF stage = "forecast" /\ phase \in {"build", "backtest", "loss"}
         THEN {"forecast", "statistical_review"}
    ELSE IF stage \in {"forecast", "review"} THEN {"statistical_review"}
    ELSE {}

\* Before the review has merged them, two attempts share the calls.
UsageInv ==
    /\ \A a \in Unasked : used[a] = 0
    /\ stage \in {"start", "validate", "statistics", "select"} =>
         \A a \in Agents : prev[a] = 0
    /\ passes < 2 => \A a \in Agents : prev[a] = 0
    /\ IF stage \in After \ {"review"}
       THEN used = spent
       ELSE stage # "failed" => \A a \in Agents : spent[a] = used[a] + prev[a]

PipelineInv ==
    /\ AgentInv /\ PipelineTypeOK
    /\ DecisionInv /\ TraditionalInv /\ UsageInv
-----------------------------------------------------------------------------
LEMMA RunTypes ==
  ASSUME PipelineTypeOK
  PROVE  /\ run \in Run /\ (run.forced => run.model \in Procs)
         /\ RunRequest({}) \in Requests
         /\ \A p \in Procs : ~ run.forced => RunRequest({p}) \in Requests
  BY PipelineAssumption DEF PipelineTypeOK, RunRequest, Run

LEMMA PipelineInitial == PipelineInit => PipelineInv
<1> SUFFICES ASSUME PipelineInit PROVE PipelineInv
  OBVIOUS
<1>1. request \in Requests
  BY PipelineAssumption DEF PipelineInit, RunRequest
<1>2. AgentInv
  BY <1>1, AgentInit_Inv DEF PipelineInit, Init
<1>3. PipelineTypeOK
  <2>1. TypeOK /\ NoReview \in Reviews
    BY <1>2 DEF AgentInv, NoReview, Reviews
  <2>2. [a \in Agents |-> 0] \in [Agents -> Nat]
    OBVIOUS
  <2>3. {spent, used, prev} \subseteq [Agents -> Nat]
    BY <2>2 DEF PipelineInit
  <2>4. late \in BOOLEAN
    BY DEF PipelineInit
  <2>5. ai \in BOOLEAN
    BY DEF PipelineInit
  <2>6. selection \in Selections
    BY DEF PipelineInit, Selections
  <2>7. passes \in 0..2 /\ left \in 0..Sections
    BY PipelineAssumption DEF PipelineInit
  <2> QED BY <2>1, <2>3, <2>4, <2>5, <2>6, <2>7 DEF PipelineInit, PipelineTypeOK
<1>4. UsageInv
  BY DEF PipelineInit, UsageInv, Unasked, After
<1> QED BY <1>2, <1>3, <1>4 DEF PipelineInit, PipelineInv, DecisionInv, TraditionalInv,
           RunRequest, RequestOf, After

\* A call of the agent starts afresh.
LEMMA CalledInv ==
  ASSUME AgentInv, NEW r \in Requests, CallAgent(r), UNCHANGED registryVars
  PROVE  AgentInv'
<1>1. TypeOK'
  BY DEF AgentInv, TypeOK, RegistryTypeOK, registryVars, CallAgent, Phase
<1> QED BY <1>1 DEF CallAgent, AgentInv, Ranked, Settled

LEMMA UntouchedInv == AgentInv /\ UNCHANGED vars => AgentInv'
  BY Step_Inv

\* What a settled agent has chosen is a procedure, and a forced one is the
\* one that was asked for.
LEMMA ChosenFacts ==
  ASSUME AgentInv, phase = "returned"
  PROVE  /\ request.forced => chosen = request.model
         /\ ~ request.forced => chosen \in Procs /\ ~ PolicyViolation(evidence, loss, Eligible, chosen)
<1>1. Settled
  BY DEF Settled
<1>2. ASSUME ~ request.forced
      PROVE  chosen \in Procs /\ ~ PolicyViolation(evidence, loss, Eligible, chosen)
  BY <1>1, <1>2, SettledWinner, WinnerNeverFlagged DEF AutoMode
<1> QED BY <1>1, <1>2 DEF AgentInv
-----------------------------------------------------------------------------
(* The agent's own invariant through a step of the pipeline. *)

\* What a retry excludes is the procedure the first attempt settled on.
LEMMA RetryExcludes ==
  ASSUME PipelineInv, stage = "decide", ~ run.forced
  PROVE  selection.model \in Procs
<1>1. selection.model = chosen /\ phase = "returned" /\ ~ request.forced
  BY DEF PipelineInv, DecisionInv, After
<1> QED BY <1>1, ChosenFacts DEF PipelineInv

LEMMA AgentKept == PipelineInv /\ [PipelineNext]_allVars => AgentInv'
<1> SUFFICES ASSUME PipelineInv, [PipelineNext]_allVars PROVE AgentInv'
  OBVIOUS
<1>0. AgentInv /\ PipelineTypeOK
  BY DEF PipelineInv
<1>1. CASE UNCHANGED vars
  BY <1>0, <1>1, UntouchedInv
<1>2. CASE AdminStep
  <2>1. Next
    BY <1>2 DEF AdminStep, Next
  <2> QED BY <1>0, <2>1, Step_Inv
<1>3. ASSUME NEW answered \in BOOLEAN, SelectModel(answered), UNCHANGED registryVars
      PROVE  AgentInv'
  BY <1>0, <1>3, RunTypes, CalledInv DEF SelectModel
<1>4. CASE Retry /\ UNCHANGED registryVars
  <2>1. RunRequest({}) \in Requests
    BY <1>0, RunTypes
  <2>2. ~ run.forced => RunRequest({selection.model}) \in Requests
    BY <1>0, <1>4, RunTypes, RetryExcludes DEF Retry
  <2> QED BY <1>0, <1>4, <2>1, <2>2, CalledInv DEF Retry
<1>5. CASE Forecast /\ UNCHANGED registryVars
  BY <1>0, <1>5, CallStep_Inv DEF Forecast, AgentNext
<1>6. ASSUME NEW answered \in BOOLEAN, NEW advice \in AutoLosses \cup {NoAdvice},
             AskForLoss(answered, advice), UNCHANGED registryVars
      PROVE  AgentInv'
  BY <1>0, <1>6, CallStep_Inv DEF AskForLoss, AgentNext, Advise
<1>7. ASSUME WorkStep, ~ UNCHANGED agentVars
      PROVE  \/ \E answered \in BOOLEAN : SelectModel(answered)
             \/ Retry \/ Forecast
             \/ \E answered \in BOOLEAN, advice \in AutoLosses \cup {NoAdvice} :
                  AskForLoss(answered, advice)
  BY <1>7 DEF WorkStep, Work, Begin, ForecastFails, ForecastReturns, Accept, CloseReport,
              Charts, Validate, Statistics, OpenReport, Review, WriteSection
<1> QED BY <1>1, <1>2, <1>3, <1>4, <1>5, <1>6, <1>7
        DEF PipelineNext, WorkStep, SwitchAi, allVars, vars
-----------------------------------------------------------------------------
(* Type correctness *)

\* A count that grows is still a count.
LEMMA AddTypes ==
  ASSUME NEW n \in [Agents -> Nat], NEW a, NEW more \in Nat
  PROVE  [n EXCEPT ![a] = @ + more] \in [Agents -> Nat]
<1>1. [n EXCEPT ![a] = @ + more] = [b \in Agents |-> IF b = a THEN n[a] + more ELSE n[b]]
  OBVIOUS
<1>2. \A b \in Agents : (IF b = a THEN n[a] + more ELSE n[b]) \in Nat
  OBVIOUS
<1> QED BY <1>1, <1>2

\* The calls of an agent's try block.
LEMMA AskTypes ==
  ASSUME PipelineTypeOK, NEW a \in Agents, NEW useLlm \in BOOLEAN,
         NEW answered \in BOOLEAN, Ask(a, useLlm, answered)
  PROVE  /\ spent' \in [Agents -> Nat] /\ used' \in [Agents -> Nat]
         /\ prev' \in [Agents -> Nat] /\ late' \in BOOLEAN
  BY DEF PipelineTypeOK, Ask, Dispatch, Usage, Count

LEMMA TypesKept == PipelineInv /\ [PipelineNext]_allVars => PipelineTypeOK'
<1> SUFFICES ASSUME PipelineInv, [PipelineNext]_allVars PROVE PipelineTypeOK'
  OBVIOUS
<1>0. AgentInv /\ PipelineTypeOK /\ TypeOK'
  BY AgentKept DEF PipelineInv, AgentInv
<1> DEFINE StageOK == stage \in {"start", "validate", "statistics", "select", "forecast",
                                 "review", "decide", "report", "write", "charts", "done",
                                 "failed"}
           Rest == /\ run \in Runs /\ StageOK /\ passes \in 0..2 /\ left \in 0..Sections
                   /\ suspects \subseteq Suspects
                   /\ selection \in Selections /\ review \in Reviews
           Calls == /\ spent \in [Agents -> Nat] /\ used \in [Agents -> Nat]
                    /\ prev \in [Agents -> Nat] /\ late \in BOOLEAN
<1>a. Rest /\ Calls /\ ai \in BOOLEAN
  BY <1>0 DEF PipelineTypeOK
<1>b. SUFFICES Rest' /\ Calls' /\ ai' \in BOOLEAN
  BY <1>0 DEF PipelineTypeOK
<1>c. UseLlm \in BOOLEAN /\ TRUE \in BOOLEAN
  BY <1>a, RunTypes, <1>0 DEF UseLlm, Run
<1>1. CASE Begin /\ UNCHANGED ai
  BY <1>a, <1>1 DEF Begin, Enter, resultVars, llmVars
<1>2. ASSUME NEW answered \in BOOLEAN, Validate(answered), UNCHANGED ai
      PROVE  Rest' /\ Calls' /\ ai' \in BOOLEAN
  <2>1. Calls'
    BY <1>0, <1>c, <1>2, AskTypes DEF Validate, Agents
  <2> QED BY <1>a, <1>2, <2>1 DEF Validate, Enter, resultVars
<1>3. ASSUME NEW answered \in BOOLEAN, Statistics(answered), UNCHANGED ai
      PROVE  Rest' /\ Calls' /\ ai' \in BOOLEAN
  <2>1. Calls'
    BY <1>0, <1>c, <1>3, AskTypes DEF Statistics, Agents
  <2> QED BY <1>a, <1>3, <2>1 DEF Statistics, Enter
<1>4. ASSUME NEW answered \in BOOLEAN, SelectModel(answered), UNCHANGED ai
      PROVE  Rest' /\ Calls' /\ ai' \in BOOLEAN
  <2>1. Calls'
    BY <1>0, <1>a, <1>c, <1>4, AskTypes DEF SelectModel, Agents, llmVars
  <2>2. selection' \in Selections
    <3>1. CASE run.forced
      BY <1>0, <1>4, <3>1, RunTypes DEF SelectModel, Selections
    <3>2. CASE ~ run.forced
      BY <1>4, <3>2, AgentAssumption DEF SelectModel, Selections
    <3> QED BY <3>1, <3>2
  <2> QED BY <1>a, <1>4, <2>1, <2>2 DEF SelectModel
<1>5. CASE Forecast /\ UNCHANGED ai
  BY <1>a, <1>5 DEF Forecast, pipelineVars, stageVars, resultVars, llmVars
<1>6. ASSUME NEW answered \in BOOLEAN, NEW advice, AskForLoss(answered, advice), UNCHANGED ai
      PROVE  Rest' /\ Calls' /\ ai' \in BOOLEAN
  <2>1. Calls'
    BY <1>0, <1>c, <1>6, AskTypes DEF AskForLoss, Agents
  <2> QED BY <1>a, <1>6, <2>1 DEF AskForLoss, stageVars, resultVars
<1>7. CASE ForecastFails /\ UNCHANGED ai
  BY <1>a, <1>7 DEF ForecastFails, Enter, resultVars, llmVars
<1>8. CASE ForecastReturns /\ UNCHANGED ai
  <2>1. Synchronized \in Selections
    BY <1>0, <1>a DEF Synchronized, Selections, TypeOK, AgentInv
  <2> QED BY <1>a, <1>8, <2>1 DEF ForecastReturns, Enter, llmVars
<1>9. ASSUME NEW answered \in BOOLEAN, NEW critical \in BOOLEAN,
             NEW verdict \in {"pass", "warn", "fail"},
             Review(answered, critical, verdict), UNCHANGED ai
      PROVE  Rest' /\ Calls' /\ ai' \in BOOLEAN
  <2>1. review' \in Reviews
    BY <1>a, <1>9 DEF Review, Reviews, Selections
  <2>2. Calls'
    <3>1. Count(answered) \in Nat /\ Usage("statistical_review", answered) \in [Agents -> Nat]
      BY <1>a DEF Count, Usage
    <3>2. MergeUsage(Usage("statistical_review", answered)) \in [Agents -> Nat]
      BY <1>a, <3>1 DEF MergeUsage
    <3>3. spent' \in [Agents -> Nat]
      BY <1>a, <1>9, <3>1, AddTypes DEF Review, Dispatch
    <3>4. UNCHANGED <<prev, late>>
      BY <1>9 DEF Review, Dispatch
    <3>5. used' \in [Agents -> Nat]
      BY <1>9, <3>2 DEF Review
    <3> QED BY <1>a, <3>3, <3>4, <3>5
  <2> QED BY <1>a, <1>9, <2>1, <2>2 DEF Review, Enter
<1>10. CASE Accept /\ UNCHANGED ai
  BY <1>a, <1>10 DEF Accept, Enter, resultVars, llmVars
<1>11. CASE Retry /\ UNCHANGED ai
  <2>1. Calls'
    BY <1>a, <1>11 DEF Retry
  <2>2. selection' \in Selections
    BY <1>a, <1>11, AgentAssumption DEF Retry, Selections
  <2> QED BY <1>a, <1>11, <2>1, <2>2 DEF Retry
<1>12. ASSUME NEW opened \in BOOLEAN, OpenReport(opened), UNCHANGED ai
       PROVE  Rest' /\ Calls' /\ ai' \in BOOLEAN
  BY <1>a, <1>12, PipelineAssumption DEF OpenReport, resultVars
<1>13. ASSUME NEW calls \in 0..2, NEW kept \in BOOLEAN, WriteSection(calls, kept), UNCHANGED ai
       PROVE  Rest' /\ Calls' /\ ai' \in BOOLEAN
  <2>1. Calls'
    <3>1. calls \in Nat
      OBVIOUS
    <3>2. ASSUME NEW n \in [Agents -> Nat]
          PROVE  [n EXCEPT !["report"] = @ + calls] \in [Agents -> Nat]
      BY <3>1, AddTypes
    <3>3. (late \/ ~ ai) \in BOOLEAN
      OBVIOUS
    <3> QED BY <1>a, <1>13, <3>2, <3>3 DEF WriteSection
  <2> QED BY <1>a, <1>13, <2>1, PipelineAssumption DEF WriteSection, resultVars
<1>14. CASE (CloseReport \/ Charts) /\ UNCHANGED ai
  BY <1>a, <1>14 DEF CloseReport, Charts, Enter, resultVars, llmVars
<1>15. CASE SwitchAi \/ AdminStep \/ UNCHANGED allVars
  BY <1>a, <1>15 DEF SwitchAi, AdminStep, allVars, pipelineVars, stageVars, resultVars, llmVars
<1> QED BY <1>1, <1>2, <1>3, <1>4, <1>5, <1>6, <1>7, <1>8, <1>9, <1>10, <1>11, <1>12, <1>13,
           <1>14, <1>15 DEF PipelineNext, WorkStep, Work
-----------------------------------------------------------------------------
(* What is decided *)

LEMMA AgentKeepsRequest ==
  /\ AgentWork => UNCHANGED request
  /\ \A advice : ResolveLoss(advice) => UNCHANGED request
  BY DEF AgentWork, ResolveLoss, BuildEngine, Backtest, SelectForced, RejectForced, SelectBest,
         NothingLeft, FitSucceeds, FitFails, FitForcedFails, Audit, Choose, Raise

\* The review has nothing to overrule a selection of the policy with.
LEMMA NothingCritical ==
  ASSUME PipelineInv, stage = "review", ~ run.forced
  PROVE  ~ CriticalPreCheck
<1>1. ~ request.forced /\ phase = "returned" /\ selection.method = "deterministic"
  BY DEF PipelineInv, DecisionInv, After
<1>2. ~ PolicyViolation(evidence, loss, Eligible, chosen)
  BY <1>1, ChosenFacts DEF PipelineInv
<1> QED BY <1>1, <1>2 DEF CriticalPreCheck

LEMMA DecisionKept == PipelineInv /\ [PipelineNext]_allVars => DecisionInv'
<1> SUFFICES ASSUME PipelineInv, [PipelineNext]_allVars PROVE DecisionInv'
  OBVIOUS
<1>0. DecisionInv
  BY DEF PipelineInv
<1> USE <1>0 DEF DecisionInv, After
<1>1. CASE Begin
  BY <1>1 DEF Begin, Enter, agentVars, resultVars
<1>2. ASSUME NEW answered \in BOOLEAN, Validate(answered) \/ Statistics(answered)
      PROVE  DecisionInv'
  BY <1>2 DEF Validate, Statistics, Enter, agentVars, resultVars
<1>3. ASSUME NEW answered \in BOOLEAN, SelectModel(answered)
      PROVE  DecisionInv'
  <2>1. request'.forced = run.forced /\ request'.model = run.model /\ UNCHANGED run
    BY <1>3 DEF SelectModel, CallAgent, RunRequest, RequestOf
  <2>2. IF run.forced THEN selection' = [model |-> run.model, method |-> "forced"]
                      ELSE selection'.method # "forced"
    <3>1. CASE run.forced
      BY <1>3, <3>1 DEF SelectModel
    <3>2. CASE ~ run.forced
      <4>1. PICK m \in Models : selection' = [model |-> m, method |-> "agent"]
        BY <1>3, <3>2 DEF SelectModel
      <4> QED BY <3>2, <4>1
    <3> QED BY <3>1, <3>2
  <2>3. stage' = "forecast" /\ passes' = 1
    BY <1>3 DEF SelectModel
  <2> QED BY <2>1, <2>2, <2>3
<1>4. CASE Forecast
  BY <1>4, AgentKeepsRequest DEF Forecast, pipelineVars, stageVars, resultVars
<1>5. ASSUME NEW answered \in BOOLEAN, NEW advice, AskForLoss(answered, advice)
      PROVE  DecisionInv'
  BY <1>5, AgentKeepsRequest DEF AskForLoss, stageVars, resultVars
<1>6. CASE ForecastFails
  BY <1>6 DEF ForecastFails, Enter, agentVars, resultVars
<1>7. CASE ForecastReturns
  BY <1>7 DEF ForecastReturns, Synchronized, Enter, agentVars
<1>8. ASSUME NEW answered \in BOOLEAN, NEW critical \in BOOLEAN,
             NEW verdict \in {"pass", "warn", "fail"}, Review(answered, critical, verdict)
      PROVE  DecisionInv'
  <2>1. ~ run.forced => ~ review'.override
    <3>1. SUFFICES ASSUME ~ run.forced PROVE ~ review'.override
      OBVIOUS
    <3>2. ~ CriticalPreCheck /\ selection.method = "deterministic"
      BY <1>8, <3>1, NothingCritical DEF Review
    <3> QED BY <1>8, <3>2 DEF Review
  <2>2. review'.of = selection.model /\ review'.method = selection.method
    BY <1>8 DEF Review
  <2>3. /\ UNCHANGED <<run, passes, request, phase, chosen, selection>>
        /\ stage = "review" /\ stage' \in {"decide", "report"}
    BY <1>8 DEF Review, Enter, agentVars
  <2> QED BY <2>1, <2>2, <2>3
<1>9. CASE Accept
  BY <1>9 DEF Accept, Enter, agentVars, resultVars
<1>10. CASE Retry
  <2>1. run.forced
    BY <1>10 DEF Retry, WantsRetry
  <2>2. request'.forced = run.forced /\ request'.model = run.model /\ UNCHANGED run
    <3>1. CallAgent(RunRequest({})) /\ UNCHANGED run
      BY <1>10, <2>1 DEF Retry
    <3> QED BY <3>1 DEF CallAgent, RunRequest, RequestOf
  <2>3. selection' = [model |-> run.model, method |-> "forced"]
    BY <1>10, <2>1 DEF Retry
  <2>4. stage' = "forecast"
    BY <1>10 DEF Retry
  <2> QED BY <2>1, <2>2, <2>3, <2>4
<1>11. ASSUME NEW opened \in BOOLEAN, OpenReport(opened)
       PROVE  DecisionInv'
  BY <1>11 DEF OpenReport, agentVars, resultVars
<1>12. ASSUME NEW calls, NEW kept, WriteSection(calls, kept)
       PROVE  DecisionInv'
  BY <1>12 DEF WriteSection, agentVars, resultVars
<1>13. CASE CloseReport \/ Charts
  BY <1>13 DEF CloseReport, Charts, Enter, agentVars, resultVars
<1>14. CASE SwitchAi \/ AdminStep \/ UNCHANGED allVars
  BY <1>14 DEF SwitchAi, AdminStep, allVars, vars, agentVars, pipelineVars, stageVars, resultVars
<1> QED BY <1>1, <1>2, <1>3, <1>4, <1>5, <1>6, <1>7, <1>8, <1>9, <1>10, <1>11, <1>12, <1>13,
           <1>14 DEF PipelineNext, WorkStep, Work
-----------------------------------------------------------------------------
(* Traditional Forecasting *)

\* Without answered calls, no agent's count moves.
LEMMA SilentAsk ==
  ASSUME NEW a, Ask(a, FALSE, FALSE) \/ Dispatch(a, FALSE, FALSE), PipelineTypeOK
  PROVE  \A b \in Agents : spent'[b] = spent[b]
<1>1. spent \in [Agents -> Nat]
  BY DEF PipelineTypeOK
<1>2. spent' = [spent EXCEPT ![a] = @ + 0]
  BY DEF Ask, Dispatch, Count
<1> QED BY <1>1, <1>2

LEMMA TraditionalKept == PipelineInv /\ [PipelineNext]_allVars => TraditionalInv'
<1> SUFFICES ASSUME PipelineInv, [PipelineNext]_allVars PROVE TraditionalInv'
  OBVIOUS
<1>0. TraditionalInv /\ PipelineTypeOK
  BY DEF PipelineInv
<1> USE <1>0 DEF TraditionalInv
<1>1. CASE Begin
  BY <1>1 DEF Begin, Refused, Enter, llmVars
<1>2. ASSUME NEW answered \in BOOLEAN, Validate(answered) \/ Statistics(answered)
      PROVE  TraditionalInv'
  <2>1. run.trad => ~ answered
    BY <1>2 DEF Validate, Statistics, Ask, Dispatch, UseLlm
  <2>2. run.trad => \A b \in Agents : spent'[b] = spent[b]
    BY <1>2, <2>1, SilentAsk DEF Validate, Statistics, UseLlm
  <2> QED BY <1>2, <2>2 DEF Validate, Statistics, Enter
<1>3. ASSUME NEW answered \in BOOLEAN, SelectModel(answered)
      PROVE  TraditionalInv'
  BY <1>3 DEF SelectModel, llmVars
<1>4. CASE Forecast
  BY <1>4 DEF Forecast, pipelineVars, stageVars, llmVars
<1>5. ASSUME NEW answered \in BOOLEAN, NEW advice, AskForLoss(answered, advice)
      PROVE  TraditionalInv'
  <2>1. run.trad => ~ answered
    BY <1>5 DEF AskForLoss, Ask, Dispatch, UseLlm
  <2>2. run.trad => \A b \in Agents : spent'[b] = spent[b]
    BY <1>5, <2>1, SilentAsk DEF AskForLoss, UseLlm
  <2> QED BY <1>5, <2>2 DEF AskForLoss, stageVars
<1>6. CASE ForecastFails \/ ForecastReturns \/ Accept \/ CloseReport \/ Charts
  BY <1>6 DEF ForecastFails, ForecastReturns, Accept, CloseReport, Charts, Enter, llmVars
<1>7. ASSUME NEW answered \in BOOLEAN, NEW critical \in BOOLEAN,
             NEW verdict \in {"pass", "warn", "fail"}, Review(answered, critical, verdict)
      PROVE  TraditionalInv'
  <2>1. run.trad => ~ answered
    BY <1>7 DEF Review, Dispatch, UseLlm
  <2>2. run.trad => \A b \in Agents : spent'[b] = spent[b]
    BY <1>7, <2>1, SilentAsk DEF Review, UseLlm
  <2> QED BY <1>7, <2>2 DEF Review, Enter
<1>8. CASE Retry
  BY <1>8 DEF Retry
<1>9. ASSUME NEW opened \in BOOLEAN, OpenReport(opened)
      PROVE  TraditionalInv'
  BY <1>9 DEF OpenReport, UseLlm
<1>10. ASSUME NEW calls, NEW kept, WriteSection(calls, kept)
       PROVE  TraditionalInv'
  BY <1>10 DEF WriteSection
<1>11. CASE SwitchAi \/ AdminStep \/ UNCHANGED allVars
  BY <1>11 DEF SwitchAi, AdminStep, allVars, pipelineVars, stageVars, llmVars
<1> QED BY <1>1, <1>2, <1>3, <1>4, <1>5, <1>6, <1>7, <1>8, <1>9, <1>10, <1>11
        DEF PipelineNext, WorkStep, Work
-----------------------------------------------------------------------------
(* The token usage *)

\* An agent that is asked for the first time keeps the account balanced.
LEMMA AskBalances ==
  ASSUME PipelineTypeOK, NEW a \in Agents, NEW useLlm, NEW answered \in BOOLEAN,
         Ask(a, useLlm, answered), used[a] = 0,
         \A b \in Agents : spent[b] = used[b] + prev[b]
  PROVE  /\ \A b \in Agents : spent'[b] = used'[b] + prev'[b]
         /\ \A b \in Agents \ {a} : used'[b] = used[b]
         /\ prev' = prev
<1>1. spent \in [Agents -> Nat] /\ used \in [Agents -> Nat] /\ prev \in [Agents -> Nat]
  BY DEF PipelineTypeOK
<1>2. PICK n \in Nat : /\ spent' = [spent EXCEPT ![a] = @ + n]
                       /\ used' = [used EXCEPT ![a] = n]
                       /\ prev' = prev
  <2>1. Count(answered) \in Nat
    BY DEF Count
  <2> QED BY <2>1 DEF Ask, Dispatch, Usage
<1> QED BY <1>1, <1>2

\* The review adds its own call and those of a first attempt.
LEMMA ReviewBalances ==
  ASSUME PipelineTypeOK, NEW answered \in BOOLEAN,
         Dispatch("statistical_review", UseLlm, answered),
         used' = MergeUsage(Usage("statistical_review", answered)),
         used["statistical_review"] = 0,
         \A b \in Agents : spent[b] = used[b] + prev[b]
  PROVE  used' = spent' /\ prev' = prev
<1>1. spent \in [Agents -> Nat] /\ used \in [Agents -> Nat] /\ prev \in [Agents -> Nat]
  BY DEF PipelineTypeOK
<1> DEFINE a == "statistical_review"
<1>2. PICK n \in Nat : /\ spent' = [spent EXCEPT ![a] = @ + n]
                       /\ used' = MergeUsage([used EXCEPT ![a] = n])
                       /\ prev' = prev
  <2>1. Count(answered) \in Nat
    BY DEF Count
  <2> QED BY <2>1 DEF Dispatch, Usage
<1>3. used' = [b \in Agents |-> prev[b] + [used EXCEPT ![a] = n][b]]
  BY <1>2 DEF MergeUsage
<1>4. ASSUME NEW b \in Agents
      PROVE  used'[b] = spent'[b]
  BY <1>1, <1>2, <1>3
<1>5. used' = [b \in Agents |-> used'[b]] /\ spent' = [b \in Agents |-> spent'[b]]
  BY <1>1, <1>2, <1>3
<1> QED BY <1>2, <1>4, <1>5

LEMMA UsageKept == PipelineInv /\ [PipelineNext]_allVars => UsageInv'
<1> SUFFICES ASSUME PipelineInv, [PipelineNext]_allVars PROVE UsageInv'
  OBVIOUS
<1>0. UsageInv /\ PipelineTypeOK
  BY DEF PipelineInv
<1> USE <1>0 DEF UsageInv, After
<1>1. CASE Begin
  BY <1>1 DEF Begin, Enter, llmVars, agentVars, Unasked
<1>2. ASSUME NEW answered \in BOOLEAN, Validate(answered)
      PROVE  UsageInv'
  <2>1. used["validation"] = 0 /\ "validation" \in Agents
    BY <1>2 DEF Validate, Unasked, Agents
  <2>2. /\ \A b \in Agents : spent'[b] = used'[b] + prev'[b]
        /\ \A b \in Agents \ {"validation"} : used'[b] = used[b]
        /\ prev' = prev
    BY <1>2, <2>1, AskBalances DEF Validate
  <2> QED BY <1>2, <2>2 DEF Validate, Enter, Unasked
<1>3. ASSUME NEW answered \in BOOLEAN, Statistics(answered)
      PROVE  UsageInv'
  <2>1. used["statistical"] = 0 /\ "statistical" \in Agents
    BY <1>3 DEF Statistics, Unasked, Agents
  <2>2. /\ \A b \in Agents : spent'[b] = used'[b] + prev'[b]
        /\ \A b \in Agents \ {"statistical"} : used'[b] = used[b]
        /\ prev' = prev
    BY <1>3, <2>1, AskBalances DEF Statistics
  <2> QED BY <1>3, <2>2 DEF Statistics, Enter, Unasked
<1>4. ASSUME NEW answered \in BOOLEAN, SelectModel(answered)
      PROVE  UsageInv'
  <2>1. used["model_selection"] = 0 /\ "model_selection" \in Agents
    BY <1>4 DEF SelectModel, Unasked, Agents
  <2>2. Ask("model_selection", TRUE, answered) \/ UNCHANGED llmVars
    BY <1>4 DEF SelectModel
  <2>3. \A b \in Agents : spent[b] = used[b] + prev[b]
    BY <1>4 DEF SelectModel
  <2>4. /\ \A b \in Agents : spent'[b] = used'[b] + prev'[b]
        /\ \A b \in Agents \ {"model_selection"} : used'[b] = used[b]
        /\ prev' = prev
    BY <2>1, <2>2, <2>3, AskBalances DEF llmVars
  <2>5. \A b \in {"forecast", "statistical_review"} : used[b] = 0 /\ b \in Agents
    BY <1>4 DEF SelectModel, Unasked, Agents
  <2> QED BY <1>4, <2>4, <2>5 DEF SelectModel, CallAgent, Unasked
<1>5. CASE Forecast
  <2>1. phase' \in {"build", "backtest", "loss"} => phase \in {"build", "backtest", "loss"}
    BY <1>5 DEF Forecast, AgentWork, BuildEngine, Backtest, SelectForced, RejectForced,
                SelectBest, NothingLeft, FitSucceeds, FitFails, FitForcedFails, Audit,
                Choose, Raise
  <2> QED BY <1>5, <2>1 DEF Forecast, pipelineVars, stageVars, llmVars, Unasked
<1>6. ASSUME NEW answered \in BOOLEAN, NEW advice, AskForLoss(answered, advice)
      PROVE  UsageInv'
  <2>0. stage = "forecast" /\ phase = "loss"
    BY <1>6 DEF AskForLoss, ResolveLoss
  <2>1. used["forecast"] = 0 /\ used["statistical_review"] = 0 /\ "forecast" \in Agents
        /\ "statistical_review" \in Agents
    <3>1. Unasked = {"forecast", "statistical_review"}
      BY <2>0 DEF Unasked
    <3> QED BY <3>1 DEF Agents
  <2>2. /\ \A b \in Agents : spent'[b] = used'[b] + prev'[b]
        /\ \A b \in Agents \ {"forecast"} : used'[b] = used[b]
        /\ prev' = prev
    BY <1>6, <2>1, AskBalances DEF AskForLoss
  <2> QED BY <1>6, <2>1, <2>2 DEF AskForLoss, ResolveLoss, stageVars, Unasked
<1>7. CASE ForecastFails \/ ForecastReturns
  BY <1>7 DEF ForecastFails, ForecastReturns, Enter, llmVars, Unasked
<1>8. ASSUME NEW answered \in BOOLEAN, NEW critical \in BOOLEAN,
             NEW verdict \in {"pass", "warn", "fail"}, Review(answered, critical, verdict)
      PROVE  UsageInv'
  <2>1. used["statistical_review"] = 0
    BY <1>8 DEF Review, Unasked
  <2>2. used' = spent' /\ prev' = prev
    BY <1>8, <2>1, ReviewBalances DEF Review
  <2> QED BY <1>8, <2>2 DEF Review, Enter, Unasked
<1>9. CASE Accept \/ CloseReport \/ Charts
  BY <1>9 DEF Accept, CloseReport, Charts, Enter, llmVars, Unasked
<1>10. CASE Retry
  <2>1. used = spent /\ UNCHANGED spent
    BY <1>10 DEF Retry
  <2>2. used \in [Agents -> Nat]
    BY DEF PipelineTypeOK
  <2>3. \A b \in Agents : spent'[b] = used'[b] + prev'[b]
    BY <1>10, <2>1, <2>2 DEF Retry
  <2>4. used'["forecast"] = 0 /\ used'["statistical_review"] = 0
    BY <1>10 DEF Retry, Retried, Agents
  <2>5. stage' = "forecast" /\ passes' = 2
    BY <1>10 DEF Retry
  <2>6. Unasked' \subseteq {"forecast", "statistical_review"}
    BY <2>5 DEF Unasked
  <2> QED BY <2>3, <2>4, <2>5, <2>6
<1>11. ASSUME NEW opened \in BOOLEAN, OpenReport(opened)
       PROVE  UsageInv'
  BY <1>11 DEF OpenReport, Unasked
<1>12. ASSUME NEW calls, NEW kept, WriteSection(calls, kept)
       PROVE  UsageInv'
  <2>1. used' = spent'
    BY <1>12 DEF WriteSection
  <2> QED BY <1>12, <2>1 DEF WriteSection, Unasked
<1>13. CASE SwitchAi \/ AdminStep \/ UNCHANGED allVars
  BY <1>13 DEF SwitchAi, AdminStep, allVars, vars, agentVars, pipelineVars, stageVars, llmVars,
               Unasked
<1> QED BY <1>1, <1>2, <1>3, <1>4, <1>5, <1>6, <1>7, <1>8, <1>9, <1>10, <1>11, <1>12, <1>13
        DEF PipelineNext, WorkStep, Work
-----------------------------------------------------------------------------
LEMMA PipelineInvariant == PipelineSpec => []PipelineInv
<1>1. PipelineInv /\ [PipelineNext]_allVars => PipelineInv'
  BY AgentKept, TypesKept, DecisionKept, TraditionalKept, UsageKept DEF PipelineInv
<1> QED BY <1>1, PipelineInitial, PTL DEF PipelineSpec

\* The state of a job stays within its types, the agent's call included.
THEOREM PipelineTypeCorrect == PipelineSpec => []PipelineTypeOK
<1> QED BY PipelineInvariant, PTL DEF PipelineInv

\* Traditional Forecasting reaches no LLM, for every job and every switch of
\* the AI features, although not every agent is told about the mode.
THEOREM NoLlmInTraditional == PipelineSpec => []TraditionalIsLlmFree
<1>1. PipelineInv => TraditionalIsLlmFree
  BY DEF PipelineInv, TraditionalInv, TraditionalIsLlmFree
<1> QED BY <1>1, PipelineInvariant, PTL

\* What is reported and reviewed is what was forecast.
THEOREM ReportIsOfTheForecast == PipelineSpec => []ReportMatchesForecast
<1>1. PipelineInv => ReportMatchesForecast
  <2> SUFFICES ASSUME PipelineInv, stage \in {"report", "write", "charts", "done"}
               PROVE  /\ selection.model = chosen
                      /\ review.of = chosen /\ review.method = selection.method
    BY DEF ReportMatchesForecast
  <2>1. /\ phase = "returned" /\ request.forced = run.forced /\ request.model = run.model
        /\ review.of = selection.model /\ review.method = selection.method
    BY DEF PipelineInv, DecisionInv, After
  <2>2. CASE run.forced
    <3>1. chosen = run.model
      BY <2>1, <2>2, ChosenFacts DEF PipelineInv
    <3>2. selection.model = run.model
      BY <2>2 DEF PipelineInv, DecisionInv, After
    <3> QED BY <2>1, <3>1, <3>2
  <2>3. CASE ~ run.forced
    BY <2>1, <2>3 DEF PipelineInv, DecisionInv, After
  <2> QED BY <2>2, <2>3
<1> QED BY <1>1, PipelineInvariant, PTL

\* Only a forced model is ever tried again: the policy's choice stands.
THEOREM PolicyIsFinal == PipelineSpec => []PolicyHasTheLastWord
<1>1. PipelineInv => PolicyHasTheLastWord
  BY DEF PipelineInv, DecisionInv, PolicyHasTheLastWord
<1> QED BY <1>1, PipelineInvariant, PTL

\* No call that was answered is missing from the token usage of the result.
THEOREM UsageIsComplete == PipelineSpec => []UsageComplete
<1>1. PipelineInv => UsageComplete
  BY DEF PipelineInv, UsageInv, After, UsageComplete
<1> QED BY <1>1, PipelineInvariant, PTL
=============================================================================
