CONSTANTS
    NRow <- MCGoodNRow
    Joins <- MCJoins
    Sel <- MCSel
    Tools <- MCTools
    Families <- MCFamilies
    MaxCrashes = 2
    UseHackResume = TRUE
SPECIFICATION FairSpec
INVARIANT TypeOK
INVARIANT FinishedRunCompletedAllJobs
PROPERTY PipelineTerminates
\* A run ends finished or dead of an unreadable checkpoint.
CHECK_DEADLOCK FALSE
