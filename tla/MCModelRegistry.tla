--------------------------- MODULE MCModelRegistry ---------------------------
(***************************************************************************)
(* Small instances of ModelRegistry for TLC.                               *)
(***************************************************************************)
EXTENDS ModelRegistry, TLC

CONSTANTS m1, m2, m3, m4, m5, t1, t2

Symmetry == Permutations({m1, m2, m3, m4, m5}) \cup Permutations({t1, t2})
=============================================================================
