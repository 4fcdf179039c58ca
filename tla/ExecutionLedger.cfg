CONSTANTS
    Proc = {p1, p2}
    ArtifactCriteria = {artifact}
    CommandCriteria = {}
    RequireYodaReview = FALSE
    MaxRevision = 5
    MaxCrashes = 0
    MaxEdits = 0
SPECIFICATION Spec
SYMMETRY Symmetry
INVARIANT LockedWrites
PROPERTIES
    ItemSpec
CHECK_DEADLOCK FALSE
