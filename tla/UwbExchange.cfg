SPECIFICATION Spec
CONSTANTS
    None = None
    Host = {h1, h2}
    SessionIds = {258}
    Ends = {1, 2, 4, 5, 9, 40, 100, 275}
    MaxObjects = 2
    Messages <- MCMessages
    Configurations <- MCConfigurations
    SessionData <- MCSessionData
    Capabilities <- MCCapabilities
SYMMETRY Symmetry
INVARIANTS
    Stable
    WritesInside
    ObjectArrives
    PeersAgree
CHECK_DEADLOCK FALSE
