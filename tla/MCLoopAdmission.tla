--------------------------- MODULE MCLoopAdmission ---------------------------
(* Three dispatchers and two trigger events.                                 *)
EXTENDS LoopAdmission, TLC

\* Dispatchers are interchangeable.
Symmetry == Permutations(Dispatcher)
=============================================================================
