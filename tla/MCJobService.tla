---------------------------- MODULE MCJobService ----------------------------
(***************************************************************************)
(* Small instances of JobService for TLC.                                  *)
(***************************************************************************)
EXTENDS JobService, TLC

CONSTANTS j1, j2, j3, u1, u2, f1, f2, w1, w2

\* Of one user: an Auto request, and an administrator's that asks for
\* Traditional Forecasting; and two named models of ordinary users.
AnyModel(u, f) == [user |-> u, admin |-> FALSE, file |-> f, forced |-> FALSE, trad |-> FALSE]
Named(u, f)    == [user |-> u, admin |-> FALSE, file |-> f, forced |-> TRUE, trad |-> FALSE]
AdminTrad(u, f) == [user |-> u, admin |-> TRUE, file |-> f, forced |-> TRUE, trad |-> TRUE]

OneUserRequests == {AnyModel(u1, f1), AdminTrad(u1, f2)}
CappedRequests  == {Named(u1, f1)}
TwoUserRequests == {Named(u1, f1), Named(u2, f1)}

JobSymmetry    == Permutations({j1, j2, j3})
WorkerSymmetry == Permutations({w1, w2})
Symmetry       == JobSymmetry \cup WorkerSymmetry
=============================================================================
