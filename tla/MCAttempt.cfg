CONSTANTS
    Reason = {"done"}
    DefaultRetry = 1
    MaxFailures = 1
    Module <- SomeModules
    Manifests <- SomeManifests
    Reports <- SomeReports
    Naps = {1}
    Endings = {"ok", "timeout", "panic"}
    RunnerDefault = 1
    CommandDefault = 1
    Grace = 1
    Override = TRUE
    MaxTime = 4
    MaxRuns = 2
    MaxEvents = 2
SPECIFICATION FairSpec
INVARIANTS TypeOK CompletionIsOwn EveryRunIsRecorded RescueIsBounded RetryWaits
PROPERTY RunEnds

CHECK_DEADLOCK FALSE
