--------------------------- MODULE MCIsolatedRuns ---------------------------
(* Model values and symmetry for checking IsolatedRuns with TLC. *)
EXTENDS IsolatedRuns, TLC

Symmetry == Permutations(Runs)
=============================================================================
