CONSTANTS
    Reason = {"done"}
    DefaultRetry = 1
    MaxFailures = 1
    Module <- SomeModules
    Manifests = {}
    Reports <- SomeReports
    Naps = {1}
    Endings = {"ok"}
    RunnerDefault = 1
    CommandDefault = 1
    Grace = 1
    Override = FALSE
    MaxTime = 4
    MaxRuns = 1
    MaxEvents = 1
SPECIFICATION Spec
INVARIANT LedgerKeepsOutcomes
CHECK_DEADLOCK FALSE
