\* One runner after the other, as an orchestrator starts them.
CONSTANTS
    Runner = {r1}
    Fingerprint = {f1}
    Reason = {a, b}
    Limit = 2
    MaxCount = 3
SPECIFICATION Spec
PROPERTY OverrideIsOneRetry
