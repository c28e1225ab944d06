CONSTANTS
    NRow <- MCGoodNRow
    Joins <- MCJoins
    Sel <- MCSel
    Tools <- MCTools
    Families <- MCFamilies
    MaxCrashes = 1
    UseHackResume = FALSE
SPECIFICATION Spec
INVARIANT ResumeFindsItsCheckpoint
CHECK_DEADLOCK FALSE
