--------------------------- MODULE DataPreparation ---------------------------
(***************************************************************************)
(* One table on its way from the upload to a model's training window:      *)
(* POST /upload (main.py, utils/data_parser.py), POST /preflight and the   *)
(* preparation of the series (utils/preflight.py, utils/data_cleaning.py), *)
(* and the cleaning of each training window (forecasting/preprocessing.py).*)
(*                                                                         *)
(* A timestamp is a number of days.  Week and month are both a length and  *)
(* an anchor: week periods end, month periods start, on a multiple.        *)
(***************************************************************************)
EXTENDS Integers, FiniteSetsExt, SequencesExt, Functions, TLC

CONSTANTS Uploads,     \* files: [refuse, rows], a row being [t, v]
          OptionSets,     \* preflight_options the user may send
          Week, Month, \* days of a period
          Missing      \* NaN, NaT

Table == Seq([t : Nat \cup {Missing}, v : Int \cup {Missing}])

ASSUME PreparationAssumption ==
    /\ Week \in Nat \ {0, 1} /\ Month \in Nat \ {0, 1} /\ Week # Month
    /\ Missing \notin Int
    /\ \A u \in Uploads : u.rows \in Table

VARIABLES file, stage, tmp, answer, options, asked, frame, window, training
prepVars == <<file, stage, tmp, answer, options, asked, frame, window, training>>

Stage == {"new", "streamed", "stored", "prepared", "failed"}
NoFrame == <<>>

PrepTypeOK ==
    /\ file \in Uploads /\ stage \in Stage /\ tmp \in 0 .. 1
    /\ answer \in {0, 200, 400, 500, 503}
    /\ options \in OptionSets
    /\ asked \subseteq {"duplicate_strategy", "missing_strategy", "frequency"}
    /\ window \in Nat

\* Fractions are kept whole: quartiles are quarters and the IQR fences halves of those, and
\* an interpolated gap of up to three periods divides by at most four.
Scale == 96
-----------------------------------------------------------------------------
(***************************************************************************)
(* The observations.                                                       *)
(***************************************************************************)

\* Selected rows have a timestamp; a value that is no number is Missing.
Selected == {i \in DOMAIN file.rows : file.rows[i].t # Missing}
Day(i) == file.rows[i].t
Amount(i) == file.rows[i].v
Stamps == {Day(i) : i \in Selected}
FirstDay == Min(Stamps)
FinalDay == Max(Stamps)
RowsAt(t) == {i \in Selected : Day(i) = t}
Known(I) == {i \in I : Amount(i) # Missing}
Demand == [i \in Selected |-> IF Amount(i) = Missing THEN 0 ELSE Amount(i)]
SumOf(I) == SumFunctionOnSet(Demand, I)

Duplicated == {t \in Stamps : Cardinality(RowsAt(t)) > 1}

\* pd.infer_freq of unique stamps: at least three, evenly spaced.
Even(k) == Cardinality(Stamps) >= 3 /\ Stamps = {FirstDay + k * i : i \in 0 .. (FinalDay - FirstDay) \div k}
                                  /\ (FinalDay - FirstDay) % k = 0
Spacing == {k \in 1 .. FinalDay - FirstDay : Even(k)}

\* The median of the day differences of all rows, doubled.
Increasing(q) == SortSeq(q, LAMBDA a, b : a < b)
Ordered == LET q == SetToSeq(Selected) IN Increasing([n \in DOMAIN q |-> Day(q[n])])
Deltas == Increasing([i \in 1 .. Len(Ordered) - 1 |-> Ordered[i + 1] - Ordered[i]])
Median2 == LET n == Len(Deltas) IN Deltas[(n + 1) \div 2] + Deltas[n \div 2 + 1]

\* A frequency: periods of `step` days that hold the days congruent to `anchor`, labelled at
\* their end (weeks) or at their start.
Daily   == [step |-> 1, anchor |-> 0, ends |-> FALSE]
Weekly  == [step |-> Week, anchor |-> 0, ends |-> TRUE]
Monthly == [step |-> Month, anchor |-> 0, ends |-> FALSE]
Every(k) == [step |-> k, anchor |-> FirstDay % k, ends |-> FALSE]

\* _normalize_frequency drops the anchor of a week ("W-MON") and of a month ("ME").
Normalized(k) == CASE k = 1 -> Daily [] k = Week -> Weekly [] k = Month -> Monthly
                   [] OTHER -> Every(k)

\* preflight._infer_frequency; pandas infers nothing from repeated stamps.
Inferred ==
    IF Duplicated = {} /\ Spacing # {} THEN Normalized(Min(Spacing))
    ELSE IF Len(Ordered) < 2 THEN Monthly
    ELSE IF Median2 <= 2 THEN Daily ELSE IF Median2 <= 2 * Week THEN Weekly ELSE Monthly

\* pd.date_range, and the period a day falls into.
Grid(f) == {t \in FirstDay .. FinalDay : t % f.step = f.anchor}
Floor(t, f) == t - ((t - f.anchor) % f.step)
Period(t, f) == IF f.ends /\ Floor(t, f) # t THEN Floor(t, f) + f.step ELSE Floor(t, f)
Periods(f) == {t \in Period(FirstDay, f) .. Period(FinalDay, f) : t % f.step = f.anchor}

\* time_index_quality: evenly spaced stamps are regular whatever day they start on.
Regular == \/ Cardinality(Stamps) < 2
           \/ Spacing # {}
           \/ Spacing = {} /\ Grid(Inferred) = Stamps
-----------------------------------------------------------------------------
(***************************************************************************)
(* prepare_series_frame                                                    *)
(***************************************************************************)
Frequency == IF options.frequency = "auto" THEN Inferred
             ELSE IF options.frequency = "W" THEN Weekly ELSE Daily

Mean(I) == SumOf(Known(I)) \div Cardinality(Known(I))

\* resolve_duplicates: a series without a repeated stamp is left alone; otherwise each of its
\* stamps is resolved, the single ones too, and a sum of nothing known is 0.  The rows of a
\* stamp come out of an unstable sort, so the first and the latest may be any of them.
Resolved(t, how) ==
    IF Duplicated = {} \/ how \in {"keep-first", "latest"} THEN {Amount(i) : i \in RowsAt(t)}
    ELSE IF how = "sum" THEN {SumOf(RowsAt(t))}
    ELSE {IF Known(RowsAt(t)) = {} THEN Missing ELSE Mean(RowsAt(t))}

\* One observation per stamp, for each way the rows may have been sorted.
Series == LET all == [t \in Stamps |-> Resolved(t, options.duplicates)]
          IN  {s \in [Stamps -> UNION Range(all)] : \A t \in Stamps : s[t] \in all[t]}

\* Mutant: resample(...).sum() without min_count.
SummedZero(s, T) == SumFunctionOnSet([t \in DOMAIN s |-> IF s[t] = Missing THEN 0 ELSE s[t]], T)
\* sum(min_count=1), mean, first and last skip what is missing.
Summed(s, T) ==
    LET seen == {t \in T : s[t] # Missing}
    IN  IF seen = {} THEN Missing ELSE SumFunctionOnSet(s, seen)

Aggregate(s, T, how) ==
    LET seen == {t \in T : s[t] # Missing}
    IN  IF how = "sum" THEN Summed(s, T)
        ELSE IF seen = {} THEN Missing
        ELSE CASE how = "mean" -> SumFunctionOnSet(s, seen) \div Cardinality(seen)
               [] how = "last" -> s[Max(seen)]
               [] OTHER -> s[Min(seen)]

\* Without an aggregation the stamps must be on the grid, and its gaps are missing.
OnGrid == Stamps \subseteq Grid(Frequency)

Framed(s) ==
    LET f == Frequency
    IN  IF options.aggregation = "As provided"
        THEN [t \in Grid(f) |-> IF t \in Stamps THEN s[t] ELSE Missing]
        ELSE [p \in Periods(f) |->
                Aggregate(s, {t \in Stamps : Period(t, f) = p}, options.aggregation)]
-----------------------------------------------------------------------------
(***************************************************************************)
(* prepare_training_series: outliers, then gaps, then noise of one window. *)
(***************************************************************************)
Ascending(W) == LET q == SetToSeq(DOMAIN W) IN Increasing([i \in DOMAIN q |-> W[q[i]]])
TotalOf(x) == SumFunctionOnSet(x, DOMAIN x)

\* Series.quantile(k / 4) of sorted values, linear between neighbours, times four.
Quartile(x, k) ==
    LET at == (Len(x) - 1) * k
        i  == at \div 4 + 1
    IN  x[i] * (4 - (at % 4)) + (IF at % 4 = 0 THEN 0 ELSE x[i + 1] * (at % 4))

\* What a fit at cutoff c may look at.
UpTo(g, c) == {q \in DOMAIN g : q <= c}
\* Mutant: a window that has something to learn from learns from the whole series.
WholeSeries(g, c) ==
    LET seen == {q \in DOMAIN g : g[q] # Missing}
    IN  [p \in (IF seen \cap UpTo(g, c) = {} THEN {} ELSE seen) |-> g[p]]
Observed(g, c) == [p \in {q \in UpTo(g, c) : g[q] # Missing} |-> g[p]]

\* std(ddof = 0) of sorted values, rounded up.
Deviation(x) ==
    LET n == Len(x)
        variance == n * TotalOf([i \in DOMAIN x |-> x[i] * x[i]]) - TotalOf(x) * TotalOf(x)
    IN  Min({d \in 0 .. x[n] - x[1] : d * d * n * n >= variance})

\* FoldSafeOutlierTreatment: the bounds of the window, in units of 1/Scale: three deviations
\* around the mean, or the IQR fences.
Fence(g, c, how, sign) ==
    LET x  == Ascending(Observed(g, c))
        q1 == Quartile(x, 1)
        q3 == Quartile(x, 3)
    IN  IF how = "zscore" THEN (Scale * TotalOf(x)) \div Len(x) + sign * 3 * Scale * Deviation(x)
        ELSE (Scale \div 8) * (IF sign < 0 THEN 2 * q1 - 3 * (q3 - q1) ELSE 2 * q3 + 3 * (q3 - q1))

Treated(g, c, how) ==
    LET lo == Fence(g, c, how, -1)
        hi == Fence(g, c, how, 1)
    IN  [p \in UpTo(g, c) |->
            IF g[p] = Missing THEN Missing
            ELSE IF how = "none" \/ g[p] * Scale \in lo .. hi THEN g[p] * Scale
            ELSE IF how = "remove" THEN Missing
            ELSE IF g[p] * Scale < lo THEN lo ELSE hi]

\* FoldSafeImputer: linear inside, nearest outside; forward-fill: previous, else next.
Imputed(w, how) ==
    [p \in DOMAIN w |->
        IF w[p] # Missing THEN w[p]
        ELSE LET before == {q \in DOMAIN w : q < p /\ w[q] # Missing}
                 after  == {q \in DOMAIN w : q > p /\ w[q] # Missing}
             IN  IF before \cup after = {} THEN Missing
                 ELSE IF before = {} THEN w[Min(after)]
                 ELSE IF after = {} \/ how = "forward-fill" THEN w[Max(before)]
                 ELSE LET a == Max(before)
                          b == Min(after)
                      IN  w[a] + ((w[b] - w[a]) * (p - a)) \div (b - a)]

\* ewm(span = 6, adjust = False)
Averaged(x) ==
    LET y[i \in DOMAIN x] == IF i = 1 THEN x[1] ELSE y[i - 1] + (2 * (x[i] - y[i - 1])) \div 7
    IN  y

\* savgol_filter: at each place the parabola fitted to the 2 m + 1 values around it, at most
\* eleven, which near the ends are the first or the last ones.
Fitted(x) ==
    LET m == (Min({11, Len(x)}) - 1) \div 2
        u == m * (m + 1)
        Weight(s, j) == (u + 3 * s * j) * (2 * m - 1) * (2 * m + 3)
                            + 5 * (3 * s * s - u) * (3 * j * j - u)
        Centre(i) == Max({m + 1, Min({i, Len(x) - m})})
        Around(i) == [j \in -m .. m |-> Weight(i - Centre(i), j) * x[Centre(i) + j]]
    IN  IF Len(x) < 3 THEN x
        ELSE [i \in DOMAIN x |-> TotalOf(Around(i)) \div (u * (2 * m - 1) * (2 * m + 1) * (2 * m + 3))]

\* smooth_training_series
Smoothed(w, how) ==
    LET Place(p) == Cardinality({q \in DOMAIN w : q <= p})
        x == [i \in 1 .. Cardinality(DOMAIN w) |-> w[CHOOSE p \in DOMAIN w : Place(p) = i]]
        y == IF how = "ewma" THEN Averaged(x) ELSE Fitted(x)
    IN  IF how = "none" THEN w ELSE [p \in DOMAIN w |-> y[Place(p)]]

Training(g, c) ==
    Smoothed(Imputed(Treated(g, c, options.outliers), options.missing), options.smoothing)
-----------------------------------------------------------------------------
PrepInit ==
    /\ file \in Uploads /\ options \in OptionSets
    /\ stage = "new" /\ tmp = 0 /\ answer = 0 /\ asked = {}
    /\ frame = NoFrame /\ window = 0 /\ training = NoFrame

\* _stream_upload_to_disk: a failing write removes the temporary file again.
Stream ==
    /\ stage = "new"
    /\ \/ stage' = "streamed" /\ tmp' = 1 /\ UNCHANGED answer
       \/ stage' = "failed" /\ answer' = 500 /\ UNCHANGED tmp
    /\ UNCHANGED <<file, options, asked, frame, window, training>>

\* Metadata, signature and content are checked, in this order; a file is refused for what
\* is wrong with it, or because every stored file is in use.  The temporary file goes.
Receive ==
    /\ stage = "streamed"
    /\ \/ /\ file.refuse = "no" /\ stage' = "stored" /\ answer' = 200
       \/ /\ stage' = "failed"
          /\ answer' = CASE file.refuse = "parser" -> 500 [] file.refuse = "no" -> 503
                         [] OTHER -> 400
    /\ \/ tmp' = 0
       \/ UNCHANGED tmp
    /\ UNCHANGED <<file, options, asked, frame, window, training>>

\* run_preflight_checks: what the user is asked to decide.
Preflight ==
    /\ stage = "stored" /\ Stamps # {}
    /\ asked' = (IF Duplicated # {} THEN {"duplicate_strategy"} ELSE {})
                \cup (IF Known(Selected) # Selected THEN {"missing_strategy"} ELSE {})
                \cup (IF Regular THEN {} ELSE {"frequency"})
    /\ UNCHANGED <<file, stage, tmp, answer, options, frame, window, training>>

\* Nothing to forecast, the user's "stop", or observations off the grid.
Refused == \/ Stamps = {} \/ options.short = "stop"
           \/ options.aggregation = "As provided" /\ ~OnGrid

\* The job runs: it fails, or has the series on its calendar.
Prepare ==
    /\ stage = "stored"
    /\ IF Refused THEN stage' = "failed" /\ UNCHANGED frame
       ELSE stage' = "prepared" /\ \E s \in Series : frame' = Framed(s)
    /\ UNCHANGED <<file, tmp, answer, options, asked, window, training>>

\* ForecastProcedure.fit on the window up to the cutoff; nothing to impute from fails it.
Train(c) ==
    /\ stage = "prepared" /\ c \in DOMAIN frame /\ c > window
    /\ window' = c
    /\ training' = IF DOMAIN Observed(frame, c) = {} THEN NoFrame ELSE Training(frame, c)
    /\ UNCHANGED <<file, stage, tmp, answer, options, asked, frame>>

PrepNext == Stream \/ Receive \/ Preflight \/ Prepare \/ (\E c \in DOMAIN frame : Train(c))

PrepSpec == PrepInit /\ [][PrepNext]_prepVars
-----------------------------------------------------------------------------
(***************************************************************************)
(* Properties.                                                             *)
(***************************************************************************)

\* Something was observed in the period.
SeenIn(p) == \E i \in Known(Selected) : Period(Day(i), Frequency) = p

\* resolve_duplicates("sum") once a stamp repeats: stamps without a known value become zeros.
FalseZero(p) == /\ options.duplicates = "sum" /\ Duplicated # {}
                /\ \E t \in Stamps : Known(RowsAt(t)) = {} /\ Period(t, Frequency) = p

\* The calendar says what the table says (prepare_series_frame): a period has a value where
\* something was observed in it and nowhere else, but for the false zeros of a sum, and a
\* period without a row is missing even then; what was observed is not lost, unless one row
\* was picked among several; and summing moves no demand.
NothingInvented ==
    stage = "prepared" =>
      /\ \A p \in DOMAIN frame :
            /\ frame[p] # Missing => SeenIn(p) \/ FalseZero(p)
            /\ frame[p] = Missing => ~SeenIn(p) \/ options.duplicates \in {"keep-first", "latest"}
      /\ options.duplicates = "sum" /\ options.aggregation \in {"sum", "As provided"} =>
            Summed(frame, DOMAIN frame) \in {SumOf(Selected), Missing}

\* "Empty periods remain missing rather than becoming false zero demand"
\* (docs/architecture-and-methodology.md:54, of summing): a period has a value only if
\* something was observed in it.  A run expects the violation: once any stamp repeats, the
\* sum of resolve_duplicates makes every stamp whose value is missing a zero.
NoFalseDemand ==
    stage = "prepared" => \A p \in DOMAIN frame : frame[p] # Missing => SeenIn(p)

\* A training window knows nothing of later periods (prepare_training_series): whatever is
\* observed after its cutoff, the cleaned window is the same.
TrainingIsBlind ==
    training # NoFrame =>
      \A p \in DOMAIN frame \ UpTo(frame, window) :
        \A v \in {Missing, 0, 500} : Training([frame EXCEPT ![p] = v], window) = training
=============================================================================
