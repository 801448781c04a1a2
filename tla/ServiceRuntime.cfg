CONSTANTS
    MaxStart = 4
    SpuriousCAS = TRUE
SPECIFICATION RuntimeSpec
INVARIANTS
    NoLoopAfterDestruction
PROPERTIES
    StartReturns
    StopWakesWaiter
