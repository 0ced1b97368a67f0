CONSTANTS
    Capacity = 1
    Outcome = {"published", "retryable_failure", "terminal_failure"}
SPECIFICATION FairSpec
INVARIANTS TypeOK ResultBeforeRest WaitsAreVisible OverrideIsPaid
           StatusAgreesWithResult
PROPERTIES FullChannelDrains AbortEnds ImplementsLifecycle
CHECK_DEADLOCK FALSE
