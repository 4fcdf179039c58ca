CONSTANTS
    Proc = {p1, p2}
    ArtifactCriteria = {artifact}
    CommandCriteria = {}
    RequireYodaReview = FALSE
    MaxRevision = 5
    MaxCrashes = 0
    MaxEdits = 0
SPECIFICATION Spec
SYMMETRY Symmetry
INVARIANT DeletedStaysDeleted
CHECK_DEADLOCK FALSE
