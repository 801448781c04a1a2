SPECIFICATION StoreSpec
CONSTANTS
    Caller = {c1, c2}
    Profile <- MCProfile
    MaxAdd = 4
    MaxCrash = 1
SYMMETRY Symmetry
INVARIANTS
    DurableStays
PROPERTIES
    UnreadableStays
CHECK_DEADLOCK FALSE
