---------------------------- MODULE MCRetryGate ----------------------------
(* RetryGate on a small instance.  Runners, inputs and reasons are
   interchangeable: no definition tells two of them apart. *)
EXTENDS RetryGate, TLC

Symmetry == Permutations(Runner) \cup Permutations(Fingerprint)
                \cup Permutations(Reason)
============================================================================
