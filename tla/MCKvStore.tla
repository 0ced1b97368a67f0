----------------------------- MODULE MCKvStore -----------------------------
(* The runners and the keys are interchangeable. *)
EXTENDS KvStore, TLC
Symmetry == Permutations(Runner) \cup Permutations(Key)
============================================================================
