SPECIFICATION Spec
CONSTANTS
    Proc = {p, q}
    MaxRelease = 3
    WithRuntime = {2}
    FirstCanonical = 3
    MaxTx = 3
    MaxRollbacks = 1
    MaxCrashes = 1
    MaxFaults = 1
    Nobody = Nobody
INVARIANT ReleaseKept
CHECK_DEADLOCK FALSE
