CONSTANTS
    NRow <- MCLabelsNRow
    Joins <- MCJoins
    Sel <- MCSel
    Tools <- MCTools
    Families <- MCFamilies
    MaxCrashes = 1
    UseHackResume = TRUE
SPECIFICATION Spec
INVARIANT JoinLabelsMatchTables
CHECK_DEADLOCK FALSE
