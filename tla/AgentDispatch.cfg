CONSTANTS
    MaxPacket = 3
    MaxRequests = 1
    MaxCrashes = 1
    MaxFaults = 1
    MaxExpiries = 1
SPECIFICATION Spec
INVARIANT RestartReadsTruth
CHECK_DEADLOCK FALSE
