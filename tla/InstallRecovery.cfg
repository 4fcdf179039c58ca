SPECIFICATION FairSpec
CONSTANTS
    Proc = {p, q}
    MaxRelease = 2
    WithRuntime = {2}
    FirstCanonical = 3
    MaxTx = 2
    MaxRollbacks = 1
    MaxCrashes = 1
    MaxFaults = 1
    Nobody = Nobody
PROPERTY Recovered
CHECK_DEADLOCK FALSE
