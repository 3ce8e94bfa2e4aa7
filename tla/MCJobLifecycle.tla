----------------------------- MODULE MCJobLifecycle -----------------------------
(* Instance of JobLifecycle for TLC.                                        *)
EXTENDS JobLifecycle, TLC

(* Workers run the same code.  Humans are ordered by the registry's map, so *)
(* they are not symmetric.                                                  *)
WorkerSymmetry == Permutations(Workers)
=============================================================================
