CONSTANTS
    n1 = n1
    n2 = n2
    n3 = n3
    Notification = {n1, n2, n3}
    Size <- MCSize
    minimumNotificationSize = 1
    NoRequest = NoRequest
SPECIFICATION Spec
INVARIANTS
    Conservation
PROPERTIES
    PushedIsReceived
    CanceledWaitEnds
