CONSTANTS
    JobList <- MCJobList
    MaxCrashes = 0
SPECIFICATION Spec
INVARIANT PruneExact
CHECK_DEADLOCK FALSE
