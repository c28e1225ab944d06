CONSTANTS
    JobTools <- MCJobTools
    MaxTries = 2
    MaxCrashes = 0
SPECIFICATION Spec
INVARIANT SamplerPerSink
CHECK_DEADLOCK FALSE
