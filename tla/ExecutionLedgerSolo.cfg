CONSTANTS
    Proc = {p1}
    ArtifactCriteria = {artifact}
    CommandCriteria = {}
    RequireYodaReview = TRUE
    MaxRevision = 5
    MaxCrashes = 1
    MaxEdits = 1
SPECIFICATION FairSpec
INVARIANT TypeOK
PROPERTIES
    CompletionFresh
    LockFreed
CHECK_DEADLOCK FALSE
