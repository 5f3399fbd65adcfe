---------------------------- MODULE MCTrainingRun ----------------------------
(* Workers that share a platform root; they and the run ids are  *)
(* interchangeable.                                                          *)
EXTENDS TrainingRun, TLC

Symmetry == Permutations(Runs) \cup Permutations(Workers)
=============================================================================
