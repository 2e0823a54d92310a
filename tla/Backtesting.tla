----------------------------- MODULE Backtesting -----------------------------
(***************************************************************************)
(* forecasting/engine.py, backtesting.py and calibration.py as the         *)
(* forecasting agent drives them: the validation design is computed from   *)
(* the length of the series, every candidate procedure is fitted at every  *)
(* rolling origin through the engine's cache of fits, one procedure wins,  *)
(* is fitted on the whole series and is then audited on the reserved end.  *)
(*                                                                         *)
(* Observations are their positions 0 .. length-1 and a window is          *)
(* [from, to), as in the code's slices.  A fit is known by the method, the *)
(* horizon and the window it was made on; its numbers are left out.  Which *)
(* rankable candidate wins is SelectionPolicy's subject and is free here.  *)
(* gap is 0 and max_train_size None: no caller sets them.                  *)
(***************************************************************************)
EXTENDS Integers, Sequences, FiniteSets

CONSTANTS Contenders,     \* the procedures, in the order of engine.candidates
          Method,         \* base model and transform of a procedure
          Recent,         \* its training window, 0 for all of the history
          MembersOf,      \* the procedures an ensemble averages, <<>> for others
          None, Default,
          BacktestInputs, \* the requests
          Paths,          \* sample paths of a fit (2000)
          Floats,         \* floats the cache may hold (one million)
          Entries,        \* fits the cache may hold (64)
          MaxFailures     \* bound of the model, per request: folds whose fit raises

Procedures == {Contenders[i] : i \in DOMAIN Contenders}

BacktestRequest ==
    [length : Nat, horizon : Int, period : Nat \ {0},
     step : Int \cup {Default}, maxOrigins : Int,
     blank : SUBSET Nat, forced : Procedures \cup {None}]

ASSUME BacktestingAssumption ==
    /\ Contenders \in Seq(Procedures)
    /\ \A i, j \in DOMAIN Contenders : Contenders[i] = Contenders[j] => i = j
    /\ Recent \in [Procedures -> Nat]
    /\ MembersOf \in [Procedures -> Seq(Procedures)]
    /\ \A p \in Procedures : \A i \in DOMAIN MembersOf[p] : MembersOf[MembersOf[p][i]] = <<>>
    /\ Default \notin Int
    /\ None \notin Procedures
    /\ BacktestInputs \subseteq BacktestRequest
    /\ Paths \in Nat \ {0} /\ Entries \in Nat \ {0}
    /\ Floats \in Nat /\ MaxFailures \in [BacktestInputs -> Nat]

VARIABLES stage,     \* where evaluate/select/refit/audit stands
          input,     \* the request
          cfg,       \* BacktestConfig, None before
          origins,   \* training ends of the folds
          turn,      \* the candidate that evaluate_candidates is at
          results,   \* per candidate, the fold results so far
          fits,      \* what the current procedure's parts returned
          cache,     \* engine.cache, oldest first
          excluded, winner,
          calibration, \* folds the interval calibration used
          audit,     \* window of the final test, None before
          failures   \* fold failures so far, for the bound

backtestVars == <<stage, input, cfg, origins, turn, results, fits, cache, excluded,
                  winner, calibration, audit, failures>>

Least(a, b) == IF a <= b THEN a ELSE b
Most(a, b)  == IF a >= b THEN a ELSE b
Window(from, to) == [from |-> from, to |-> to]
-----------------------------------------------------------------------------
(* backtest_config *)

MinimumTrain(in) == Most(10, 2 * in.period)

Reserve(in) ==
    IF in.length >= MinimumTrain(in) + 3 * in.horizon THEN in.horizon ELSE 0

SelectionLength(in) == in.length - Reserve(in)

MinimumHistory(in) == Least(MinimumTrain(in), Most(2, SelectionLength(in) \div 2))

Evaluated(in) ==
    Least(in.horizon, Most(1, (SelectionLength(in) - MinimumHistory(in)) \div 2))

InitialTrain(in) ==
    Most(2, Least(Most(MinimumTrain(in), SelectionLength(in) \div 2),
                  SelectionLength(in) - 2 * Evaluated(in)))

Step(in) == IF in.step = Default THEN Evaluated(in) ELSE in.step

Config(in) == [initial |-> InitialTrain(in), horizon |-> Evaluated(in),
               step |-> Step(in), reserve |-> Reserve(in)]

Accepted(in) == in.horizon >= 1 /\ in.maxOrigins \in 2..30 /\ Step(in) >= 1

Configure ==
    /\ stage = "configure"
    /\ IF Accepted(input)
         THEN stage' = "folds" /\ cfg' = Config(input)
         ELSE stage' = "error" /\ cfg' = cfg
    /\ UNCHANGED <<input, origins, turn, results, fits, cache, excluded, winner,
                   calibration, audit, failures>>
-----------------------------------------------------------------------------
(* generate_folds *)

FinalTestSize == Most(0, Least(cfg.reserve, Most(0, input.length - 2)))

\* Mutant: the folds run to the end of the series.
WholeSeries == input.length

EndLimit == input.length - FinalTestSize

Latest   == EndLimit - cfg.horizon

Earliest == Most(1, Least(cfg.initial, Latest))

\* range(latest, initial - 1, -step), reversed
EligibleOrigins == IF Latest < Earliest THEN 0 ELSE (Latest - Earliest) \div cfg.step + 1
Origin(i) == Latest - (EligibleOrigins - 1 - i) * cfg.step

\* np.linspace(..., dtype=int): the floor of an equally spaced point.  The
\* points are multiples of a rounded quotient, so that an interior point that
\* is exactly an integer may come out one lower (those in low do).
Sampled(i, low) ==
    (i * (EligibleOrigins - 1)) \div (input.maxOrigins - 1) - (IF i \in low THEN 1 ELSE 0)

ExactPoints ==
    {i \in 1..(input.maxOrigins - 2) :
        (i * (EligibleOrigins - 1)) % (input.maxOrigins - 1) = 0}

GenerateFolds ==
    /\ stage = "folds"
    /\ IF EligibleOrigins <= input.maxOrigins
         THEN origins' = [k \in 1..EligibleOrigins |-> Origin(k - 1)]
         ELSE \E low \in SUBSET ExactPoints :
                origins' = [k \in 1..input.maxOrigins |-> Origin(Sampled(k - 1, low))]
    /\ stage' = "backtest"
    /\ UNCHANGED <<input, cfg, turn, results, fits, cache, excluded, winner,
                   calibration, audit, failures>>
-----------------------------------------------------------------------------
(* ForecastProcedure.fit and the engine's cache *)

PartsOf(p) == IF MembersOf[p] = <<>> THEN <<p>> ELSE MembersOf[p]

\* The fit that procedure p asks for with the raw series [0, end).
Wanted(p, horizon, end) ==
    [method |-> Method[p], horizon |-> horizon,
     from |-> IF Recent[p] = 0 THEN 0 ELSE Most(0, end - Recent[p]), to |-> end]

\* Mutant: the dates are not part of the key.
KeyByLength(f) == <<f.method, f.horizon, f.to - f.from>>

\* cache_key.  The hash of the values is left out: on a constant series it says
\* no more than the length.
Key(f) == <<f.method, f.horizon, f.to - f.from, f.from, f.to - 1>>

Hits(f) == {i \in DOMAIN cache : cache[i].key = Key(f)}

Capacity(horizon) == Most(1, Least(Entries, Floats \div (Paths * Most(1, horizon))))

\* Pop the oldest fits while the cache is full, then store the new one.
Stored(f) ==
    LET excess == Most(0, Len(cache) + 1 - Capacity(f.horizon))
    IN  Append(SubSeq(cache, excess + 1, Len(cache)), [key |-> Key(f), fit |-> f])

Evaluating == stage = "backtest" /\ origins # <<>> /\ turn <= Len(Contenders)

Current    == IF stage = "backtest" THEN Contenders[turn] ELSE winner
NextOrigin == origins[Len(results[Current]) + 1]

\* The training end and the horizon of the call under way.
End   == CASE stage = "backtest" -> NextOrigin
           [] stage = "produce"  -> input.length
           [] stage = "audit"    -> input.length - FinalTestSize
Ahead == CASE stage = "backtest" -> cfg.horizon
           [] stage = "produce"  -> input.horizon
           [] stage = "audit"    -> FinalTestSize

\* _process_fold wants two training observations; the production fit does not.
Fitting == \/ Evaluating /\ NextOrigin >= 2
           \/ stage = "produce"
           \/ stage = "audit" /\ FinalTestSize > 0

NextFit == Wanted(PartsOf(Current)[Len(fits) + 1], Ahead, End)

FitPart ==
    /\ Fitting
    /\ Len(fits) < Len(PartsOf(Current))
    /\ IF Hits(NextFit) # {}
         THEN /\ fits' = Append(fits, cache[CHOOSE i \in Hits(NextFit) : TRUE].fit)
              /\ cache' = cache
         ELSE /\ fits' = Append(fits, NextFit)
              /\ cache' = Stored(NextFit)
    /\ UNCHANGED <<stage, input, cfg, origins, turn, results, excluded, winner,
                   calibration, audit, failures>>
-----------------------------------------------------------------------------
(* evaluate_candidate / _process_fold *)

TestWindow(end) == Window(end, end + cfg.horizon)
Targets(w) == {t \in w.from..(w.to - 1) : t \notin input.blank}

FoldResult(status, from) == [status |-> status, fits |-> from]

Report(r) ==
    /\ results' = [results EXCEPT ![Current] = Append(@, r)]
    /\ turn' = IF Len(results[Current]) + 1 = Len(origins) THEN turn + 1 ELSE turn
    /\ fits' = <<>>
    /\ UNCHANGED <<stage, input, cfg, origins, cache, excluded, winner,
                   calibration, audit>>

ScoreFold ==
    /\ Evaluating
    /\ NextOrigin >= 2
    /\ Len(fits) = Len(PartsOf(Current))
    /\ Report(IF Targets(TestWindow(NextOrigin)) = {}
                THEN FoldResult("NOT_ESTIMABLE", <<>>) ELSE FoldResult("OK", fits))
    /\ UNCHANGED failures

SkipFold ==
    /\ Evaluating
    /\ NextOrigin < 2
    /\ Report(FoldResult("NOT_ESTIMABLE", <<>>))
    /\ UNCHANGED failures

\* Only a fit that is not cached may fail: the window adapters raise rather
\* than return numbers that are not finite.
MayFail == Len(fits) < Len(PartsOf(Current)) /\ Hits(NextFit) = {}

FailFold ==
    /\ Evaluating
    /\ NextOrigin >= 2
    /\ MayFail /\ failures < MaxFailures[input]
    /\ Report(FoldResult("FAILED", <<>>))
    /\ failures' = failures + 1

Good(p) == {k \in DOMAIN results[p] : results[p][k].status = "OK"}

\* The observations whose errors are pooled for a candidate.
Scored(p) == UNION {Targets(TestWindow(origins[k])) : k \in Good(p)}

Rankable(p) ==
    /\ Cardinality(Good(p)) >= 2
    /\ Good(p) = DOMAIN results[p]
-----------------------------------------------------------------------------
(* The forecasting agent's loop, the audit and the interval calibration *)

Eligibles == Procedures \ excluded

Select ==
    /\ stage = "backtest" /\ ~Evaluating
    /\ IF input.forced # None
         THEN winner' = input.forced /\ stage' = "produce"
         ELSE \/ \E p \in Eligibles : /\ Rankable(p)
                                      /\ winner' = p /\ stage' = "produce"
              \/ /\ \A p \in Eligibles : ~Rankable(p)
                 /\ winner' = winner /\ stage' = "error"
    /\ UNCHANGED <<input, cfg, origins, turn, results, fits, cache, excluded,
                   calibration, audit, failures>>

Produced ==
    /\ stage = "produce"
    /\ Len(fits) = Len(PartsOf(winner))
    /\ stage' = "audit" /\ fits' = <<>>
    /\ UNCHANGED <<input, cfg, origins, turn, results, cache, excluded, winner,
                   calibration, audit, failures>>

ProductionFails ==
    /\ stage = "produce"
    /\ MayFail
    /\ stage' = IF input.forced # None THEN "error" ELSE "backtest"
    /\ excluded' = excluded \cup {winner}
    /\ fits' = <<>>
    /\ UNCHANGED <<input, cfg, origins, turn, results, cache, winner, calibration,
                   audit, failures>>

\* Mutant: every successful fold counts as an independent window.
AllWindows == Good(winner)

\* fit_interval_calibration takes, in order, each successful fold whose window
\* starts after the windows taken.
FreeOf(k, taken) ==
    k \in Good(winner) /\ \A j \in taken : origins[k] >= TestWindow(origins[j]).to

Chosen[k \in 0 .. Len(results[winner])] ==
    IF k = 0 THEN {}
    ELSE IF FreeOf(k, Chosen[k - 1]) THEN Chosen[k - 1] \cup {k} ELSE Chosen[k - 1]

CalibrationFolds == Chosen[Len(results[winner])]

Audited ==
    /\ stage = "audit"
    /\ \/ /\ FinalTestSize > 0 /\ Len(fits) = Len(PartsOf(winner))
          /\ LET w == Window(input.length - FinalTestSize, input.length)
             IN  audit' = IF Targets(w) = {} THEN None ELSE w
       \/ (FinalTestSize > 0 => MayFail) /\ audit' = None
    /\ calibration' = CalibrationFolds
    /\ stage' = "done" /\ fits' = <<>>
    /\ UNCHANGED <<input, cfg, origins, turn, results, cache, excluded, winner,
                   failures>>
-----------------------------------------------------------------------------
BacktestInit ==
    /\ stage = "configure"
    /\ input \in BacktestInputs
    /\ cfg = None /\ origins = <<>> /\ turn = 1
    /\ results = [p \in Procedures |-> <<>>]
    /\ fits = <<>> /\ cache = <<>>
    /\ excluded = {} /\ winner = None
    /\ calibration = {} /\ audit = None
    /\ failures = 0

BacktestNext ==
    \/ Configure \/ GenerateFolds
    \/ FitPart \/ ScoreFold \/ SkipFold \/ FailFold
    \/ Select \/ Produced \/ ProductionFails \/ Audited

BacktestSpec == BacktestInit /\ [][BacktestNext]_backtestVars
-----------------------------------------------------------------------------
(* Properties *)

Fit == [method : {Method[p] : p \in Procedures}, horizon : Int, from : Int, to : Int]

\* Type invariant of the evaluation's state.
BacktestTypeOK ==
    /\ stage \in {"configure", "folds", "backtest", "produce", "audit", "done",
                  "error"}
    /\ input \in BacktestInputs
    /\ cfg \in [initial : Int, horizon : Int, step : Int, reserve : Int] \cup {None}
    /\ origins \in Seq(1..input.length)
    /\ turn \in 1..(Len(Contenders) + 1)
    /\ \A p \in Procedures : Len(results[p]) <= Len(origins)
    /\ fits \in Seq(Fit)
    /\ \A i \in DOMAIN cache : cache[i].fit \in Fit
    /\ excluded \subseteq Procedures /\ winner \in Procedures \cup {None}
    /\ failures \in 0..MaxFailures[input]

Configured == cfg # None
Folded     == stage \notin {"configure", "folds", "error"}

\* Nothing that ranks the candidates or calibrates the intervals, neither the
\* training nor the test part of a fold, reaches the observations that the
\* final test audits (generate_folds stops at end_limit, evaluate_final_candidate
\* starts there, each from a clamp of its own).
ReserveUntouched ==
    Configured =>
        LET sealed == input.length - cfg.reserve
        IN  /\ \A k \in DOMAIN origins : TestWindow(origins[k]).to <= sealed
            /\ \A p \in Procedures : \A k \in Good(p) : \A i \in DOMAIN results[p][k].fits :
                  results[p][k].fits[i].to <= sealed
            /\ audit # None => /\ audit = Window(sealed, input.length)
                               /\ sealed < input.length

\* Every prediction scored at an origin was made on exactly the history before
\* that origin, whatever the cache held when it was asked for.
FitsOfTheirOrigin ==
    \A p \in Procedures : \A k \in Good(p) :
        LET made == results[p][k].fits
        IN  /\ Len(made) = Len(PartsOf(p))
            /\ \A i \in DOMAIN made :
                  made[i] = Wanted(PartsOf(p)[i], cfg.horizon, origins[k])

\* When the ranking starts, all the candidates it may choose were scored on the
\* same observations, and on some (is_rankable, "all_folds_finite_predictions").
CommonTargets ==
    \A p, q \in Procedures :
        stage = "produce" /\ Rankable(p) /\ Rankable(q) =>
            Scored(p) = Scored(q) /\ Scored(p) # {}

\* The folds rise strictly from one to the next, are never more than the
\* maximum, keep the requested cadence, and include the latest origin and the
\* earliest of the cadence, also after the sampling by np.linspace.
OriginsSpread ==
    Folded /\ origins # <<>> =>
        /\ Len(origins) <= input.maxOrigins
        /\ \A j, k \in DOMAIN origins : j < k => origins[j] < origins[k]
        /\ \A k \in DOMAIN origins : (Latest - origins[k]) % cfg.step = 0
        /\ origins[Len(origins)] = Latest
        /\ origins[1] \in Earliest..(Earliest + cfg.step - 1)

\* A final test is only reserved when the requested horizon can be evaluated in
\* full before it, so that the audit is of the horizon that was selected on.
FullHorizonAudit ==
    Configured /\ cfg.reserve > 0 =>
        cfg.reserve = input.horizon /\ cfg.horizon = input.horizon

\* No origin has less history than the procedure promises: two seasons, or half
\* of the selection part when the series is short.
EnoughHistory ==
    Folded /\ SelectionLength(input) >= 4 =>
        \A k \in DOMAIN origins : origins[k] >= MinimumHistory(input)

\* With the default cadence there are two origins, without which no candidate
\* can be ranked, as soon as there are four observations.
TwoOriginsByDefault ==
    Folded /\ input.step = Default /\ SelectionLength(input) >= 4 =>
        Len(origins) >= 2

\* The cache never holds more sampled numbers than its budget, unless a single
\* fit does, although it holds fits of several horizons and its capacity is
\* computed from the horizon of the fit that comes in.
CacheWithinBudget ==
    Len(cache) > 1 =>
        \A i \in DOMAIN cache : Len(cache) * Paths * cache[i].fit.horizon <= Floats

\* The windows that calibrate the intervals are successful folds, none of them
\* shares an observation with another, and none that fits between them is left.
CalibrationDisjoint ==
    stage = "done" =>
        /\ calibration \subseteq Good(winner)
        /\ \A j, k \in calibration : j < k => TestWindow(origins[j]).to <= origins[k]
        /\ \A k \in Good(winner) \ calibration : \E j \in calibration :
              j < k /\ origins[k] < TestWindow(origins[j]).to

==============================================================================
