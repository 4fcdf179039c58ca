SPECIFICATION InstallSpec
CONSTANTS
    Installer = {i1, i2}
    InstallPlan = {"p1"}
    MaxAttempts = 2
    MaxInstallCrashes = 0
INVARIANT InstallationKept
CHECK_DEADLOCK FALSE
