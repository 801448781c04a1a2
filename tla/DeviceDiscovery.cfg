SPECIFICATION Spec
CONSTANTS
    Device = {"d1", "d2"}
    MaxChange = 4
    MaxStop = 1
INVARIANTS
    ListMatches
    PresentIsListed
    SharedController
PROPERTIES
    ReleaseCompletes
CHECK_DEADLOCK FALSE
