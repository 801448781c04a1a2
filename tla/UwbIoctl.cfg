SPECIFICATION Spec
CONSTANTS
    Client = {c1, c2}
    SessionId = {i1}
    Slot = {s1, s2}
    Generator = {}
    Listener = {f1}
    Code = {"DEVICE_RESET", "GET_DEVICE_INFO", "GET_DEVICE_CAPABILITIES", "GET_SESSION_COUNT",
            "SESSION_INIT", "SESSION_DEINIT", "GET_SESSION_STATE", "START_RANGING_SESSION",
            "STOP_RANGING_SESSION", "SESSION_UPDATE_CONTROLLER_MULTICAST_LIST",
            "GET_APP_CONFIG_PARAMS", "SET_APP_CONFIG_PARAMS", "SIM_GET_CAPABILITIES"}
    MaxParameters = 2
    None = None
INVARIANTS
    LastNotificationIsState
    OkMatchesTable
PROPERTIES
    AnsweredUnlessGrown
