---------------------------- MODULE ModelRegistry ----------------------------
(***************************************************************************)
(* forecasting/registry.py over the model_config table.  PUT /models/{name}*)
(* is a sync endpoint: requests run in threadpool threads, each reading the*)
(* enabled models on one connection and updating its row on another.       *)
(***************************************************************************)
EXTENDS Naturals, FiniteSets

CONSTANTS Models,   \* names in registry.MODELS
          Admins,   \* threads serving PUT /models/{name}
          NoModel   \* "no value" marker

ASSUME RegistryAssumption == Models # {} /\ NoModel \notin Models

VARIABLES enabled,   \* rows with enabled = 1
          disabling  \* the model each thread has checked it may disable

registryVars == <<enabled, disabling>>

RegistryTypeOK == /\ enabled \subseteq Models
                  /\ disabling \in [Admins -> Models \cup {NoModel}]

\* init_database seeds every model enabled.
RegistryInit == /\ enabled = Models
                /\ disabling = [a \in Admins |-> NoModel]

\* get_enabled_models: a table without an enabled row counts as every model.
EnabledModels == IF enabled = {} THEN Models ELSE enabled

Free(a) == disabling[a] = NoModel

EnableModel(a, m) ==
    /\ Free(a)
    /\ enabled' = enabled \cup {m}
    /\ UNCHANGED disabling

\* set_model_enabled(m, False) refuses the last enabled model, ...
MayDisable(m) == EnabledModels # {m}

CheckDisable(a, m) ==
    /\ Free(a) /\ MayDisable(m)
    /\ disabling' = [disabling EXCEPT ![a] = m]
    /\ UNCHANGED enabled

\* ... and otherwise clears the row.
ApplyDisable(a) ==
    /\ ~ Free(a)
    /\ enabled' = enabled \ {disabling[a]}
    /\ disabling' = [disabling EXCEPT ![a] = NoModel]

RegistryNext ==
    \E a \in Admins :
        \/ \E m \in Models : EnableModel(a, m) \/ CheckDisable(a, m)
        \/ ApplyDisable(a)

RegistrySpec == RegistryInit /\ [][RegistryNext]_registryVars
-----------------------------------------------------------------------------
\* The at-least-one invariant of set_model_enabled.  It takes one administrator
\* at a time: two threads can pass the check before either writes.
AtLeastOneEnabled == enabled # {}

\* A check that has passed stays valid until its write.
CheckStillValid == \A a \in Admins : ~ Free(a) => MayDisable(disabling[a])
=============================================================================
