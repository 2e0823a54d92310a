--------------------------- MODULE SelectionPolicy ---------------------------
(***************************************************************************)
(* forecasting/selection_policy.py: which procedure wins on the pooled     *)
(* rolling-origin losses, and the two numerical checks with which          *)
(* agents/statistical_review_agent.py second-guesses that choice.          *)
(*                                                                         *)
(* A loss is a natural number; Missing stands for a metric that could not  *)
(* be estimated and sorts last, as float("inf") does.  The thresholds 1.05,*)
(* 1.10 and 1.5 are compared by cross-multiplication.                      *)
(***************************************************************************)
EXTENDS Integers, Sequences

CONSTANTS Procs,       \* names of the candidate procedures
          Baselines,   \* the ones of engine.BASELINES
          Position,    \* insertion order of the candidates
          Simplicity,  \* _simplicity_index of every name
          Metrics,     \* loss metrics
          Priority,    \* _METRIC_PRIORITY: sequence of all of Metrics
          MaxLoss      \* largest loss

ASSUME PolicyAssumption ==
    /\ Baselines \subseteq Procs
    /\ Position \in [Procs -> Nat]
    /\ \A p, q \in Procs : Position[p] = Position[q] => p = q
    /\ Simplicity \in [Procs -> Int]
    /\ Priority \in Seq(Metrics)
    /\ MaxLoss \in Nat

Missing == MaxLoss + 1
Loss    == 0..Missing

\* What evaluate_candidates returns: the rankable candidates and their losses.
Evidence == [rankable : SUBSET Procs, value : [Metrics -> [Procs -> Loss]]]

Value(ev, m, p) == ev.value[m][p]
Present(v)  == v # Missing
\* "best_val and second_val and best_val > 0": 0 and None are both false.
Positive(v) == Present(v) /\ v > 0
-----------------------------------------------------------------------------
(* Ranking: a stable sort by the decision loss, then by the other metrics. *)

SameValue(ev, m, p, q) == Value(ev, m, p) = Value(ev, m, q)

TieOrder(ev, m, p, q) ==
    LET Others == {i \in DOMAIN Priority : Priority[i] # m}
        EqualUpTo(i) == \A j \in Others : j < i => SameValue(ev, Priority[j], p, q)
    IN  \/ \E i \in Others : /\ EqualUpTo(i)
                             /\ Value(ev, Priority[i], p) < Value(ev, Priority[i], q)
        \/ /\ \A i \in Others : SameValue(ev, Priority[i], p, q)
           /\ Position[p] < Position[q]

\* Mutant: the sort is reversed.
Backwards(ev, m, p, q) == Value(ev, m, p) > Value(ev, m, q)

Before(ev, m, p, q) ==
    \/ Value(ev, m, p) < Value(ev, m, q)
    \/ SameValue(ev, m, p, q) /\ TieOrder(ev, m, p, q)

\* p heads the ranking of the candidates R.
First(ev, m, R, p) == p \in R /\ \A q \in R \ {p} : Before(ev, m, p, q)
-----------------------------------------------------------------------------

\* ratio = second / best < 1.05
Negligible(best, second) == /\ Positive(best) /\ Positive(second)
                            /\ 100 * second < 105 * best

\* _apply_tie_break looks at the first two of the ranking only.
TieBroken(ev, m, R, best, second) ==
    /\ First(ev, m, R \ {best}, second)
    /\ Negligible(Value(ev, m, best), Value(ev, m, second))
    /\ Simplicity[second] < Simplicity[best]

Preferred(ev, m, R, p) ==
    \E best \in R :
        /\ First(ev, m, R, best)
        /\ \/ TieBroken(ev, m, R, best, p)
           \/ p = best /\ ~ \E q \in R : TieBroken(ev, m, R, best, q)

\* Mutant: no improvement is asked for.
AlwaysEnough(base, selected) == FALSE

\* improvement = baseline / selected < 1.10
Insufficient(base, selected) == /\ Positive(base) /\ Positive(selected)
                                /\ 100 * base < 110 * selected

\* _check_baseline_retention: min() over the ranked baselines by the decision
\* loss is the first of them in the ranking.
BestBaseline(ev, m, R, b) == First(ev, m, R \cap Baselines, b)

\* The selected complex model s gives way to the baseline b.
Retained(ev, m, R, s, b) ==
    /\ s \notin Baselines
    /\ BestBaseline(ev, m, R, b)
    /\ Insufficient(Value(ev, m, b), Value(ev, m, s))

Kept(ev, m, R, s) ==
    \/ s \in Baselines
    \/ R \cap Baselines = {}
    \/ \E b \in R : /\ BestBaseline(ev, m, R, b)
                    /\ ~ Insufficient(Value(ev, m, b), Value(ev, m, s))

\* select_model_deterministic returns w for the candidates R.
Wins(ev, m, R, w) ==
    \E s \in R : /\ Preferred(ev, m, R, s)
                 /\ \/ Retained(ev, m, R, s, w)
                    \/ w = s /\ Kept(ev, m, R, s)
-----------------------------------------------------------------------------
(* The review's checks on the numbers; R is what it compares with.         *)

Comparable(ev, m, R) == {p \in R : Present(Value(ev, m, p))}

\* _check_deterministic_policy_violation: more than 1.5 times the best
\* eligible loss.
PolicyViolation(ev, m, R, w) ==
    /\ w \in Comparable(ev, m, R)
    /\ \E b \in Comparable(ev, m, R) : 2 * Value(ev, m, w) > 3 * Value(ev, m, b)

\* _check_suboptimal_rmse: the same of a forced model, on RMSE, against the
\* best, which must not be perfect.
SuboptimalRmse(ev, R, w) ==
    LET C == Comparable(ev, "rmse", R)
        Best(b) == \A q \in C : Value(ev, "rmse", b) <= Value(ev, "rmse", q)
    IN  /\ "rmse" \in Metrics /\ w \in C
        /\ \E b \in C : /\ Best(b) /\ Value(ev, "rmse", b) > 0
                        /\ 2 * Value(ev, "rmse", w) > 3 * Value(ev, "rmse", b)
=============================================================================
