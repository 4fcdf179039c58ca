SPECIFICATION FairSpec
CONSTANTS
    Wake = {w1, w2}
    Nobody = Nobody
    TTL = 1
    Cooldown = 1
    MaxClock = 4
    MaxCrashes = 1
INVARIANT Fenced
PROPERTY FenceLifted
CHECK_DEADLOCK FALSE
