------------------------- MODULE MCAsyncTaskManager -------------------------
(* Instances of AsyncTaskManager for TLC.                                  *)
EXTENDS AsyncTaskManager

Symmetry == Permutations(Tasks) \cup Permutations(Workers)
=============================================================================
