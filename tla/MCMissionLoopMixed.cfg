CONSTANTS
    Capacity = 1
    Outcome = {"published", "retryable_failure", "terminal_failure"}
SPECIFICATION Spec
INVARIANT OneAttemptPerRecord
CHECK_DEADLOCK FALSE
