---------------------------- MODULE KnownContext ----------------------------
(***************************************************************************)
(* forecasting/known_context.py: what a model may know of predictors and   *)
(* events at a training cutoff.  The user declares values, or revisions    *)
(* with the day they were published; one declaration serves every origin   *)
(* of a backtest and the final fit.                                        *)
(***************************************************************************)
EXTENDS Integers, FiniteSetsExt

CONSTANTS Declarations, \* preflight_options: [cov, ahead, events, holidays]
          Predictors,
          Present,      \* the last observed stamp
          Horizon,
          NoValue       \* absent, or no finite number


VARIABLES declared,  \* what the user sent
          engine,    \* ForecastEngine.options
          fit        \* the inputs of the latest fit
contextVars == <<declared, engine, fit>>

\* A predictor has at a stamp nothing, one plain number, or dated versions.
Nothing == [kind |-> "none", value |-> NoValue, versions |-> {}]
Plain(v) == [kind |-> "plain", value |-> v, versions |-> {}]
Versions(set) == [kind |-> "versions", value |-> NoValue, versions |-> set]

\* Every predictor has an entry at every stamp up to the last forecast.
ASSUME ContextAssumption ==
    /\ Present \in Nat /\ Horizon \in Nat \ {0}
    /\ \A d \in Declarations : \A n \in Predictors :
         /\ 0 .. Present + Horizon \subseteq DOMAIN d.cov[n]
         /\ \A t \in DOMAIN d.cov[n] :
               LET e == d.cov[n][t]
               IN  e \in {Nothing, Plain(e.value), Versions(e.versions)}

NoFit == [cutoff |-> -1, ok |-> FALSE, cov |-> <<>>, events |-> {}]
Refusal(c) == [NoFit EXCEPT !.cutoff = c]

\* The training stamps up to the cutoff and the horizon after it.
Required(c) == 0 .. c + Horizon

\* Mutant: every published version counts.
AnyVersion(e, c) == e.versions
\* Versions published by the cutoff; the latest of them wins, and two that disagree on
\* the same day are refused rather than ordered.
Eligible(e, c) == {r \in e.versions : r.at <= c}
Latest(e, c) == LET day == Max({r.at : r \in Eligible(e, c)})
                IN  {r.value : r \in {x \in Eligible(e, c) : x.at = day}}

WellFormed(e) == \A r \in e.versions : r.at # NoValue /\ r.value # NoValue

\* The value at a stamp, or none when the fit must be refused: a version that cannot be
\* read, none published yet, a conflict, or a plain number nobody declared known.
Value(d, n, t, c) ==
    LET e == d.cov[n][t] IN
    CASE e.kind = "versions" ->
            IF WellFormed(e) /\ Eligible(e, c) # {} /\ Cardinality(Latest(e, c)) = 1
            THEN CHOOSE v \in Latest(e, c) : TRUE ELSE NoValue
      [] e.kind = "plain" /\ d.ahead -> e.value
      [] OTHER -> NoValue

\* An event is known from the day given, or from its own.
KnownSince(v) == IF v.at = NoValue THEN v.date ELSE v.at
KnownEvents(d, c) == {v \in d.events : KnownSince(v) <= c}

\* to_event_dummies, expand_holidays: the stamps with an effect, by kind.
Dummies(d, events, c) ==
    {<<v.kind, v.date>> : v \in {x \in events : x.date \in Required(c)}}
        \cup {<<"holiday", t>> : t \in d.holidays \cap Required(c)}

\* options_as_of
AsOf(d, c) ==
    LET values == [n \in Predictors |-> [t \in Required(c) |-> Value(d, n, t, c)]]
        used   == {n \in Predictors : \E t \in DOMAIN d.cov[n] : d.cov[n][t] # Nothing}
    IN  IF \E n \in used : \E t \in Required(c) : values[n][t] = NoValue THEN Refusal(c)
        ELSE [cutoff |-> c, ok |-> TRUE, cov |-> [n \in used |-> values[n]],
              events |-> Dummies(d, KnownEvents(d, c), c)]
-----------------------------------------------------------------------------
NoEngine == <<>>

ContextInit == declared \in Declarations /\ engine = NoEngine /\ fit = NoFit

\* prepare_exog_options aligns predictors to the whole series for the report and keeps
\* the declaration itself under _declared_context, which every fit starts from.
DeclaredContext(d) == d

PrepareOptions ==
    /\ engine = NoEngine
    /\ engine' = DeclaredContext(declared)
    /\ UNCHANGED <<declared, fit>>

\* ForecastProcedure.fit of Dynamic Regression or Prophet at an origin, or at the end.
Fit(c) ==
    /\ engine # NoEngine /\ c > fit.cutoff
    /\ fit' = AsOf(engine, c)
    /\ UNCHANGED <<declared, engine>>

ContextNext == PrepareOptions \/ \E c \in 0 .. Present : Fit(c)

ContextSpec == ContextInit /\ [][ContextNext]_contextVars
-----------------------------------------------------------------------------
\* What could be read on the day of the cutoff: later versions and events cut away.
PublishedEntry(e, c) ==
    [kind |-> e.kind, value |-> e.value, versions |-> {r \in e.versions : r.at <= c}]
Published(d, c) ==
    [cov      |-> [n \in Predictors |-> [t \in DOMAIN d.cov[n] |-> PublishedEntry(d.cov[n][t], c)]],
     ahead    |-> d.ahead,
     events   |-> {v \in d.events : KnownSince(v) <= c},
     holidays |-> d.holidays]

Readable(d) == \A n \in Predictors : \A t \in DOMAIN d.cov[n] : WellFormed(d.cov[n][t])

\* No look-ahead (options_as_of): whatever was revised or announced after a cutoff, a fit
\* there gets what it would have got that day.  An unreadable version is the exception: it
\* refuses the fits of origins before its publication too.
NoLookAhead ==
    fit.cutoff >= 0 /\ Readable(declared) =>
        fit = AsOf(Published(declared, fit.cutoff), fit.cutoff)
=============================================================================
