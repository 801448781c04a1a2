CONSTANTS
    a = a
    b = b
    Client = {c1, c2}
    Worker = worker
    NearObject = {a, b}
    Initial <- MCInitial
    Batch <- MCBatch
    SupportsRanging = TRUE
    MaxEvents = 3
SPECIFICATION Spec
INVARIANTS
    MembershipStream
    RangingStream
    NoCallbackAfterDestruction
    EndedBeforeDestruction
PROPERTIES
    DestructionCompletes
