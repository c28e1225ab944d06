CONSTANTS
    JobTools <- MCJobTools
    MaxTries = 2
    MaxCrashes = 1
SPECIFICATION Spec
INVARIANT ScriptsRunOneAtATime
CHECK_DEADLOCK FALSE
