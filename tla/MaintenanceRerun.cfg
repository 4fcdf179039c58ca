SPECIFICATION Spec
CONSTANTS
    Wake = {w1, w2}
    Nobody = Nobody
    TTL = 1
    Cooldown = 1
    MaxClock = 4
    MaxCrashes = 1
PROPERTY SucceededNotRerun
CHECK_DEADLOCK FALSE
