SPECIFICATION Spec
CONSTANTS
    Client = {c1, c2}
    SessionId = {i1}
    Slot = {s1, s2}
    Generator = {g1, g2, g3}
    Listener = {}
    Code = {"SESSION_INIT", "SESSION_DEINIT", "SIM_TRIGGER_SESSION_EVENT"}
    MaxParameters = 0
    None = None
INVARIANTS
    OneGenerator
PROPERTIES
    CallReturns
