---------------------------- MODULE MCStoreCache ----------------------------
(* Instances of StoreCache for TLC.                                        *)
EXTENDS StoreCache, TLC

\* No action and no property tells processes, handlers or builds apart.
Symmetry == Permutations(Procs) \cup Permutations(Workers) \cup Permutations(Builds)
=============================================================================
