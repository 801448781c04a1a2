CONSTANTS
    Client = {c1, c2}
    Worker = worker
    Task = {k1, k2, k3}
    MaxStop = 2
SPECIFICATION Spec
INVARIANTS
    DrainedAtJoin
    NoLostWakeup
PROPERTIES
    JoinReturns
    ImplementsSerialExecutor
