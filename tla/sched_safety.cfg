CONSTANTS
    JobList <- MCJobList4
    MaxCrashes = 3
SPECIFICATION FairSpec
INVARIANT TypeOK
INVARIANT CheckpointFaithful
INVARIANT AtMostOneJobLostPerCrash
INVARIANT QueueInSpecOrder
PROPERTY EveryJobSettledIfScriptsEnd
PROPERTY ImplementsJobQueue
CHECK_DEADLOCK FALSE
