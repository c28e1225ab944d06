CONSTANTS
    JobList <- MCJobList
    MaxCrashes = 0
SPECIFICATION Spec
INVARIANT OneOutcomePerRun
CHECK_DEADLOCK FALSE
