SPECIFICATION Spec
CONSTANTS
    None = None
    Handler = {"h1", "h2"}
    Lines <- MCLines
    Options <- MCOptions
INVARIANTS
    WaitedForAll
    QuietIsConsistent
PROPERTIES
    StopEnds
    SessionEndReturns
CHECK_DEADLOCK FALSE
