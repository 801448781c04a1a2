CONSTANTS
    Caller = {c1, c2}
    Object = {o1, o2}
    Address = {a1, a2, a3}
    Stray = {stray}
    Copied = 2
    Configured <- MCConfigured
    MaxSession = 2
    None = None
SYMMETRY MCSymmetry
SPECIFICATION SessionSpec
INVARIANTS
    SharedObject
    CommandsMatchFlag
    NoneLeftDeinitialized
    AddedKept
