----------------------------- MODULE MCFrontend -----------------------------
(***************************************************************************)
(* The frontend on small instances.  Its three stateful parts share        *)
(* nothing but the process, so each behaviour moves one of them: what the  *)
(* user does in two tabs, who is signed in, whom the backend admits.       *)
(***************************************************************************)
EXTENDS ReportSession, UserSessions, ApiUsers, TLC

CONSTANTS t1, t2, p1, p2, n1, n2,
          Parts   \* which of "reports", "sessions", "keys", "owners" move

VARIABLE part

MCTabs == {t1, t2}
MCPasswords == {p1, p2}
MCNames == {n1, n2}

Use(a, b, files, njobs) ==
    [ops |-> (t1 :> a) @@ (t2 :> b), files |-> files, jobs |-> njobs]

Forecast == {"upload", "analyze", "poll"}

\* A second job beside a slow chat, a deletion and a new limit; a second upload while both
\* tabs poll; two jobs polled by both tabs; both tabs editing one report.
MCUses == {Use(Forecast, {"chat", "delete", "limit"}, 1, 2),
           Use(Forecast \cup {"clear"}, {"poll", "chat"}, 2, 1),
           Use(Forecast, {"poll"}, 1, 2),
           Use(Forecast \cup {"report", "edit"}, {"report", "edit"}, 1, 1)}

MCInit ==
    /\ part \in Parts
    /\ ReportInit /\ SessionsInit /\ AccessInit
    /\ limit = 1
    /\ part # "reports" => uses = CHOOSE u \in Uses : TRUE
    /\ part # "sessions" => account.password = p1
    /\ creds.name = n1

MCNext ==
    /\ UNCHANGED part
    /\ \/ part = "reports"  /\ ReportNext   /\ UNCHANGED <<sessionVars, accessVars>>
       \/ part = "sessions" /\ SessionsNext /\ UNCHANGED <<reportVars, accessVars>>
       \/ part = "keys"     /\ Manage       /\ UNCHANGED <<reportVars, sessionVars>>
       \/ /\ part = "owners"
          /\ AccessNext /\ Cardinality({w \in Pages : page'[w] # NoPage}) <= 1
          /\ nextKey' <= 3 /\ UNCHANGED <<reportVars, sessionVars>>

MCVars == <<part, reportVars, sessionVars, accessVars>>

MCSpec == MCInit /\ [][MCNext]_MCVars /\ ReportFairness
=============================================================================
