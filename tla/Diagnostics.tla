----------------------------- MODULE Diagnostics -----------------------------
(***************************************************************************)
(* forecasting/diagnostics.py and the flattening of its evidence in        *)
(* agents/statistical_analysis_agent.py: what is known of a series, which  *)
(* tests were switched off, which could not be run, and what a reader of   *)
(* StatisticalResult can still tell of that.                               *)
(*                                                                         *)
(* The statistics themselves (p-values, spectra, permutation thresholds)   *)
(* are given; what the code decides from them is not.                      *)
(***************************************************************************)
EXTENDS Naturals, Sequences, FiniteSets, SequencesExt, FiniteSetsExt

\* _FREQ_PERIOD_MAP without the anchored and the old spellings.
PeriodOf == [D |-> 7, B |-> 5, W |-> 52, M |-> 12, Q |-> 4, H |-> 24, A |-> 1]
FreqPeriod(freq) == IF freq \in DOMAIN PeriodOf THEN PeriodOf[freq] ELSE 0

MinLength      == [periodogram |-> 10, stationarity |-> 10, trend |-> 5,
                   anomalies |-> 5, change_points |-> 20]
MinSegment     == 5
MaxCandidates  == 5
CrowdedPercent == 5  \* outlier_ratio above which values are called frequent
-----------------------------------------------------------------------------
\* _is_harmonic_of_existing: within 15 % of an integer multiple of at least 2.
Harmonic(p, q) ==
    LET lo == Min({p, q})
        hi == Max({p, q})
    IN  \E k \in 2 .. hi : /\ 20 * (hi - k * lo) < 3 * lo
                           /\ 20 * (k * lo - hi) < 3 * lo

\* _periodogram_candidates: the periods by falling power, without harmonics.
CandidatePeriods(spectrum, n) ==
    LET Take(found, p) ==
            IF /\ 2 <= p /\ 2 * p <= n /\ Len(found) < MaxCandidates
               /\ \A q \in Range(found) : ~ Harmonic(p, q)
            THEN Append(found, p) ELSE found
    IN  IF n < MinLength.periodogram THEN <<>> ELSE FoldLeft(Take, <<>>, spectrum)

\* The first usable period, or 0.
FirstPeriod(periods, Usable(_)) ==
    LET usable == SelectSeq(periods, Usable)
    IN  IF usable = <<>> THEN 0 ELSE usable[1]

\* _select_stl_period: two full cycles are needed to measure a strength.
StlPeriod(freq, meta, found, n) ==
    FirstPeriod(<<freq, meta>> \o found, LAMBDA p : 2 <= p /\ 2 * p <= n)

\* _select_seasonal_period: with a strength of at least 0.1 the frequency comes
\* first, whichever period the strength was measured at.
SeasonalPeriod(freq, meta, found, stl, strength) ==
    IF strength # "supported" THEN 1
    ELSE LET p == FirstPeriod(<<freq, meta>> \o found \o <<stl>>, LAMBDA q : 2 <= q)
         IN  IF p = 0 THEN 1 ELSE p

\* detect_seasonality.  A strength is measured at the STL period, unless the
\* decomposition fails; a constant series has none.
Seasonality(off, s, measured) ==
    LET found == IF s.constant THEN <<>> ELSE CandidatePeriods(s.spectrum, s.n)
        meta  == IF s.constant THEN 0 ELSE s.meta
        stl   == StlPeriod(FreqPeriod(s.freq), meta, found, s.n)
        strength == IF stl = 0 THEN "unknown" ELSE measured
        status   == CASE {"periodogram", "stl"} \cap off # {} -> "disabled"
                      [] s.n < MinLength.periodogram -> "not_estimable"
                      [] OTHER -> "ok"
    IN  [status |-> status,
         period |-> IF status # "ok" \/ s.constant THEN 1
                    ELSE SeasonalPeriod(FreqPeriod(s.freq), meta, found, stl, strength)]
-----------------------------------------------------------------------------
\* _classify_stationarity, of the four rejections.
Classified(adf, adfTrend, kpss, kpssTrend) ==
    CASE adf /\ ~ kpss                   -> "stationary"
      [] adfTrend /\ ~ kpssTrend /\ kpss -> "trend_stationary"
      [] ~ adf /\ kpss                   -> "difference_stationary"
      [] adf # (~ kpss)                  -> "conflicting"
      [] OTHER                           -> "not_estimable"

\* assess_stationarity.  A test that fails has no p-value and rejects nothing.
\* One test alone cannot be switched off.
Stationarity(off, s, tests) ==
    IF {"adf", "kpss"} \subseteq off
    THEN [status |-> "disabled", adf |-> "none", kpss |-> "none", class |-> "not_estimable"]
    ELSE IF s.n < MinLength.stationarity
    THEN [status |-> "not_estimable", adf |-> "none", kpss |-> "none", class |-> "not_estimable"]
    ELSE [status |-> "ok", adf |-> tests.adf, kpss |-> tests.kpss,
          class |-> Classified(tests.adf = "rejects", tests.adfTrend = "rejects",
                               tests.kpss = "rejects", tests.kpssTrend = "rejects")]

\* assess_trend
Trend(off, s, fit) ==
    CASE "trend" \in off         -> [status |-> "disabled", found |-> FALSE]
      [] s.n < MinLength.trend   -> [status |-> "not_estimable", found |-> FALSE]
      [] fit = "fails"           -> [status |-> "failed", found |-> FALSE]
      [] OTHER                   -> [status |-> "ok", found |-> fit = "significant"]
-----------------------------------------------------------------------------
\* The k-th smallest of a sequence of numbers.
Smallest(k, xs) ==
    CHOOSE v \in Range(xs) : /\ Cardinality({i \in DOMAIN xs : xs[i] < v}) < k
                             /\ Cardinality({i \in DOMAIN xs : xs[i] <= v}) >= k
TwiceMedian(xs) == Smallest((Len(xs) + 1) \div 2, xs) + Smallest(Len(xs) \div 2 + 1, xs)
Apart(a, b) == IF a < b THEN b - a ELSE a - b

\* detect_anomalies: further from the median than 3.5 times the scaled median
\* distance; when that distance is zero, any distance at all.
Unusual(residuals) ==
    LET mid == TwiceMedian(residuals)
        far == [i \in DOMAIN residuals |-> Apart(2 * residuals[i], mid)]
        mad == TwiceMedian(far)
    IN  {i \in DOMAIN far : IF mad = 0 THEN far[i] > 0
                            ELSE 20000 * far[i] > 51891 * mad}

Anomalies(off, s) ==
    CASE "outliers" \in off        -> [status |-> "disabled", count |-> 0]
      [] s.n < MinLength.anomalies -> [status |-> "not_estimable", count |-> 0]
      [] OTHER -> [status |-> "ok", count |-> Cardinality(Unusual(s.residuals))]

\* detect_change_points_calibrated: binary segmentation splits segments of at
\* least two minimal lengths, anywhere in them; _enforce_min_spacing then drops
\* the points that follow another too closely.
Splits(points, n) ==
    LET split[P \in SUBSET points, from \in 0 .. n, to \in 0 .. n] ==
            \/ P = {}
            \/ /\ to - from >= 2 * MinSegment
               /\ P \subseteq from .. to - 1
               /\ \E p \in P : /\ split[{q \in P : q < p}, from, p + 1]
                              /\ split[{q \in P : q > p}, p + 1, to]
    IN  split[points, 0, n]

Spaced(points) ==
    LET Keep(kept, p) == IF kept = <<>> THEN <<p>>
                         ELSE IF p - kept[Len(kept)] >= MinSegment THEN Append(kept, p)
                         ELSE kept
    IN  FoldLeft(Keep, <<>>, SetToSortSeq(points, <))

ChangePoints(off, s) ==
    CASE "change_points" \in off       -> [status |-> "disabled", points |-> <<>>]
      [] s.n < MinLength.change_points -> [status |-> "not_estimable", points |-> <<>>]
      [] OTHER -> [status |-> "ok",
                   points |-> Spaced(IF Splits(s.breaks, s.n) THEN s.breaks ELSE {})]

\* test_white_noise, and the three ways in which it is not white noise.
WhiteNoise(off, outcome) == "white_noise" \notin off /\ outcome = "random"
-----------------------------------------------------------------------------
\* run_statistical_agent: the flat result the other agents read.
StatisticalResult(off, s, outcome) ==
    LET season == Seasonality(off, s, outcome.strength)
        roots  == Stationarity(off, s, outcome)
        trend  == Trend(off, s, outcome.trend)
        odd    == Anomalies(off, s)
        shifts == ChangePoints(off, s)
    IN  [period      |-> season.period,
         stationary  |-> roots.adf = "rejects",
         level       |-> roots.kpss = "keeps",
         adf         |-> roots.adf,
         class       |-> roots.class,
         trend       |-> trend.found,
         outliers    |-> odd.count,
         crowded     |-> 100 * odd.count > CrowdedPercent * s.n,
         noise       |-> WhiteNoise(off, outcome.noise),
         remediation |-> shifts.points # <<>>,
         statuses    |-> [seasonality |-> season.status, stationarity |-> roots.status,
                          trend |-> trend.status, anomalies |-> odd.status,
                          change_points |-> shifts.status]]

-----------------------------------------------------------------------------
\* residual_diagnostics.py.  Each answer is "yes", "no" or, when the test was
\* switched off or had too few errors, "unknown".
Verdict(off, name, enough, holds) ==
    IF name \in off \/ ~ enough THEN "unknown" ELSE IF holds THEN "yes" ELSE "no"

\* analyze_innovations, of n fitted one-step errors.
Innovations(off, n, truth) ==
    [unbiased     |-> Verdict(off, "residual_zero_mean", n >= 2, truth.unbiased),
     uncorrelated |-> Verdict(off, "residual_autocorrelation", n >= 3, truth.uncorrelated),
     normal       |-> Verdict(off, "residual_normality", 3 <= n /\ n <= 5000, truth.normal)]

\* analyze_backtest_errors tells the bias only, from at least eight origins.
BacktestErrors(off, folds, truth) ==
    [unbiased     |-> Verdict(off, "residual_zero_mean", folds >= 8, truth.unbiased),
     uncorrelated |-> "unknown",
     normal       |-> "unknown"]

\* _run_residual_diagnostics: the bias of the folds, the rest of the fit's own
\* errors; without folds everything comes from those, without either nothing.
ResidualChecks(off, folds, n, truth) ==
    IF folds = 0 THEN Innovations(off, n, truth)
    ELSE IF n = 0 THEN BacktestErrors(off, folds, truth)
    ELSE [Innovations(off, n, truth) EXCEPT
             !.unbiased = BacktestErrors(off, folds, truth).unbiased]
=============================================================================
