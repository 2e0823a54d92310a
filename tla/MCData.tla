------------------------------- MODULE MCData -------------------------------
(***************************************************************************)
(* What the deployment knows of its data, on small instances: the store of *)
(* uploads, the preparation of one series, the context a fit may use and   *)
(* the forecasts it has issued and monitors.  They share no state, so each *)
(* behaviour moves one of them.                                            *)
(***************************************************************************)
EXTENDS FileStore, DataPreparation, KnownContext, ForecastMonitoring

CONSTANTS f1, f2, f3, r1, r2,
          Parts   \* which of "files", "series", "context", "monitoring" move

VARIABLE part

\* Daily; weekly off the anchor; repeated days with a gap; every other day; an unreadable
\* date; repeated days of one period; no date at all.
MCStamps == {<<0, 1, 2, 3>>, <<1, 4, 7>>, <<3, 3, 0, 6>>, <<0, 2, 4>>, <<0, Missing, 7>>,
             <<5, 5, 11>>, <<Missing>>}
File(ts) == {[refuse |-> "no", rows |-> [i \in DOMAIN ts |-> [t |-> ts[i], v |-> vs[i]]]] :
                vs \in [DOMAIN ts -> {12, 60, Missing}]}
Refused_(why) == [refuse |-> why, rows |-> <<>>]
MCUploads == UNION {File(ts) : ts \in MCStamps}
                \cup {Refused_(why) : why \in {"type", "empty", "signature", "content",
                                               "columns", "parser"}}

Options(f, d, a, m, o, k, s) ==
    [frequency |-> f, duplicates |-> d, aggregation |-> a, missing |-> m,
     outliers |-> o, smoothing |-> k, short |-> s]
MCOptions ==
    {Options("auto", "sum", "As provided", "forward-fill", "clip", "none", "continue"),
     Options("W", "sum", "sum", "drop", "remove", "ewma", "continue"),
     Options("D", "latest", "mean", "interpolate", "clip", "none", "continue"),
     Options("W", "mean", "last", "interpolate", "none", "none", "stop"),
     Options("W", "mean", "first", "interpolate", "none", "none", "continue"),
     Options("D", "keep-first", "last", "interpolate", "zscore", "savgol", "continue")}

Revision(v, day) == [value |-> v, at |-> day]
Entries == {Nothing, Plain(1), Versions({Revision(1, 0)}),
            Versions({Revision(1, 0), Revision(2, 1)}),
            Versions({Revision(1, 1), Revision(2, 1), Revision(3, 2)}),
            Versions({Revision(1, 0), Revision(NoValue, 2)})}
Steady(e) == [t \in 0 .. Present + Horizon |-> e]
Event(k, day, at) == [kind |-> k, date |-> day, at |-> at]
MCEvents == {{}, {Event("promotion", 3, 1), Event("outage", 1, NoValue)},
             {Event("promotion", 2, NoValue), Event("spike", 1, 2)}}
MCDeclarations ==
    {[cov |-> [n \in Predictors |-> [Steady(e) EXCEPT ![3] = x, ![1] = y]],
      ahead |-> b, events |-> s, holidays |-> h] :
        e, x, y \in Entries, b \in BOOLEAN, s \in MCEvents, h \in {{}, {1, 3}}}

Issue(o, h, p) == [series |-> "s", terms |-> "t", origin |-> o, horizon |-> h,
                   point |-> p, naive |-> 2, width |-> 1]
\* Four origins; a revised origin; mixed lengths; overlapping dates; a purge while two jobs
\* are compared; terms that differ.
MCPlans == {[jobs |-> <<Issue(1, 1, 1), Issue(2, 1, 4), Issue(3, 1, 1), Issue(4, 1, 2)>>,
             ids |-> <<>>, purge |-> FALSE],
            [jobs |-> <<Issue(1, 2, 1), Issue(2, 1, 3), Issue(2, 1, 0)>>,
             ids |-> <<>>, purge |-> FALSE],
            [jobs |-> <<Issue(1, 2, 1), Issue(2, 2, 3), Issue(3, 2, 2)>>,
             ids |-> <<>>, purge |-> FALSE],
            [jobs |-> <<Issue(1, 1, 1), Issue(2, 2, 3)>>, ids |-> <<2, 1>>, purge |-> TRUE],
            [jobs |-> <<Issue(1, 1, 1), [Issue(2, 1, 3) EXCEPT !.terms = "u"]>>,
             ids |-> <<1, 2>>, purge |-> FALSE]}

MCInit ==
    /\ part \in Parts
    /\ IF part = "series" THEN file \in Uploads /\ options \in OptionSets
       ELSE file = Refused_("empty") /\ options = CHOOSE o \in OptionSets : TRUE
    /\ IF part = "context" THEN declared \in Declarations
       ELSE declared = CHOOSE d \in Declarations : TRUE
    /\ IF part = "monitoring" THEN plan \in Plans ELSE plan = CHOOSE p \in Plans : TRUE
    /\ Init /\ PrepInit /\ ContextInit /\ MonitorInit

MCNext ==
    /\ UNCHANGED part
    /\ \/ /\ part = "files" /\ Next
          /\ UNCHANGED <<prepVars, contextVars, monitorVars>>
       \/ /\ part = "series" /\ PrepNext
          /\ UNCHANGED <<vars, contextVars, monitorVars>>
       \/ /\ part = "context" /\ ContextNext
          /\ UNCHANGED <<vars, prepVars, monitorVars>>
       \/ /\ part = "monitoring" /\ MonitorNext
          /\ UNCHANGED <<vars, prepVars, contextVars>>

MCSpec == MCInit /\ [][MCNext]_<<part, vars, prepVars, contextVars, monitorVars>>
=============================================================================
