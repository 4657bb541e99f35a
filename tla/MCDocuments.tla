------------------------------ MODULE MCDocuments ------------------------------
(* Two documents, one of them without text, a conference and two requests  *)
(* at a time.                                                               *)
EXTENDS Documents, TLC

Symmetry == Permutations(Slots)
=============================================================================
