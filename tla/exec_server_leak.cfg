CONSTANTS
    JobTools <- MCJobTools
    MaxTries = 2
    MaxCrashes = 0
SPECIFICATION Spec
INVARIANT ServerOwnedByCurrentJob
CHECK_DEADLOCK FALSE
