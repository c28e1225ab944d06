CONSTANTS
    Ag <- MCAg
    Existing <- MCExisting
    MaxFrames = 4
SPECIFICATION Spec
INVARIANT TypeOK
 
INVARIANT AcoutListsWalk
\* The script ends, finished or on an exception.
CHECK_DEADLOCK FALSE
