CONSTANTS
    JobTools <- MCJobToolsCrash
    MaxTries = 2
    MaxCrashes = 1
SPECIFICATION FairSpec
INVARIANT TypeOK
INVARIANT SamplesBelongToTheirJob
PROPERTY WatchersEnd
\* The main thread ends after the last job; the run stops there.
CHECK_DEADLOCK FALSE
