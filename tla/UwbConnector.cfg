CONSTANTS
    c1 = c1
    c2 = c2
    s1 = s1
    status1 = status1
    ended1 = ended1
    device1 = device1
    device2 = device2
    Client = {c1, c2}
    SessionId = {s1}
    Token = {status1, ended1, device1, device2}
    SlotOf <- MCSlotOf
    MaxTasks = 1
    MayFail = TRUE
SYMMETRY MCSymmetry
SPECIFICATION ConnectorSpec
INVARIANTS
    DeviceDeregistered
    ServedWhileRegistered
