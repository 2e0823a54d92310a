------------------------------ MODULE MCBackend ------------------------------
(***************************************************************************)
(* The backend process on small instances: the job scheduler beside what   *)
(* two operators in the setup wizard leave behind, the secrets and the     *)
(* first user.  They share no state, so each behaviour moves one of them.  *)
(***************************************************************************)
EXTENDS MCJobService, FirstRunSetup

CONSTANTS s1, s2, b1, old

VARIABLE part   \* "scheduler" or "setup": which of them moves

MCSessions == {s1, s2}

BackendSymmetry == Symmetry \cup Permutations(MCSessions)

MCInit ==
    /\ part \in {"scheduler", "setup"}
    /\ Init /\ SetupInit
    /\ part = "setup" => cap = 1 /\ cleanup /\ llm
    /\ part = "scheduler" => users = {}

MCNext ==
    /\ UNCHANGED part
    /\ \/ part = "scheduler" /\ Next /\ UNCHANGED setupVars
       \/ part = "setup" /\ SetupNext /\ UNCHANGED vars

MCSpec == MCInit /\ [][MCNext]_<<part, vars, setupVars>>
=============================================================================
