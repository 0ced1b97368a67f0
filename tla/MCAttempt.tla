----------------------------- MODULE MCAttempt -----------------------------
(* A module that keeps its state and may ask for an operator, and one without a
   contract; a manifest with another id, window and way to end it; outcomes that
   the host treats differently. *)
EXTENDS Attempt

Outcome(status, reason, retry, expiry) ==
    [status |-> status, reason |-> reason, retry |-> retry, window |-> NoTime,
     expiry |-> expiry]

SomeReports ==
    {Outcome("published", "done", NoTime, "none"),
     Outcome("retryable", "done", NoTime, "none"),
     Outcome("terminal", "acquisition_timeout", NoTime, "none"),
     Outcome("operator", "done", NoTime, "terminal")}

Keeper ==
    [id |-> "own", persisted |-> TRUE, budget |-> 1, window |-> 1, expiry |-> "retryable",
     strategy |-> [kind |-> "exponential", base |-> 1, max |-> 2]]
SomeModules == {Keeper, NoContract}
SomeManifests ==
    {[id |-> "other", persisted |-> TRUE, budget |-> 0, window |-> 2,
      expiry |-> "terminal", strategy |-> NoStrategy]}
============================================================================
