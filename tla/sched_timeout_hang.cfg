CONSTANTS
    JobList <- MCJobList
    MaxCrashes = 0
SPECIFICATION FairSpec
PROPERTY TimeoutTerminatesJob
CHECK_DEADLOCK FALSE
