\* Two runners whose attempts overlap in every way, one failing reason, two
\* sets of inputs; the streak saturates at the limit.
CONSTANTS
    Runner = {r1, r2}
    Fingerprint = {f1, f2}
    Reason = {a}
    Limit = 2
    MaxCount = 2
SYMMETRY Symmetry
SPECIFICATION Spec
INVARIANTS TypeOK RepeatBound GateEvidence
PROPERTY GateHolds
