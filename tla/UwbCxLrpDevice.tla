--------------------------- MODULE UwbCxLrpDevice ---------------------------
(***************************************************************************)
(* The driver interface of windows/drivers/uwb/cx/.../UwbCxLrpDevice.h:    *)
(* the numbers of its enumerations and the sizes of its structures.        *)
(*                                                                         *)
(* A structure is the sequence of its fields' layouts, in the order of the *)
(* header, from which the compiler's padding follows.  An array of any     *)
(* size is one element long.                                               *)
(***************************************************************************)
EXTENDS FiraDevice, SequencesExt

---------------------------------------------------------------------------
(* Enumerations. *)

UWB_STATUS ==
    Over(Enumeration(<<"OK", "REJECTED", "FAILED", "SYNTAX_ERROR", "INVALID_PARAM",
            "INVALID_RANGE", "INVALID_MESSAGE_SIZE", "UNKNOWN_GID", "UNKNOWN_OID",
            "READ_ONLY", "COMMAND_RETRY">>, 0),
    Over(Enumeration(<<"ERROR_SESSION_NOT_EXIST", "ERROR_SESSION_DUPLICATE",
            "ERROR_SESSION_ACTIVE", "ERROR_MAX_SESSIONS_EXCEEDED",
            "ERROR_SESSION_NOT_CONFIGURED", "ERROR_ACTIVE_SESSIONS_ONGOING",
            "ERROR_MULTICAST_LIST_FULL", "ERROR_ADDRESS_NOT_FOUND",
            "ERROR_ADDRESS_ALREADY_PRESENT">>, 17),
         Enumeration(<<"RANGING_TX_FAILED", "RANGING_RX_TIMEOUT", "RANGING_RX_PHY_DEC_FAILED",
            "RANGING_RX_PHY_TOA_FAILED", "RANGING_RX_PHY_STS_FAILED",
            "RANGING_RX_MAC_DEC_FAILED", "RANGING_RX_MAC_IE_DEC_FAILED",
            "RANGING_RX_MAC_IE_MISSING">>, 32)))
UWB_CAPABILITY_PARAM_TYPE == Enumeration(
    <<"PHY_VERSION_RANGE", "MAC_VERSION_RANGE", "DEVICE_ROLES", "RANGING_METHOD", "STS_CONFIG",
      "MULTI_NODE_MODE", "RANGING_TIME_STRUCT", "SCHEDULED_MODE", "HOPPING_MODE",
      "BLOCK_STRIDING", "UWB_INITIATION_TIME", "CHANNELS", "RFRAME_CONFIG",
      "CC_CONSTRAINT_LENGTH", "BPRF_PARAMETER_SETS", "HPRF_PARAMETER_SETS", "AOA_SUPPORT",
      "EXTENDED_MAC_ADDRESS", "DEVICE_CLASS">>, 0)
UWB_DEVICE_CONFIG_PARAM_TYPE == Enumeration(<<"DEVICE_STATE", "LOW_POWER_MODE">>, 0)
UWB_DEVICE_STATE == [READY |-> 1, ACTIVE |-> 2, ERROR |-> 255]
UWB_SESSION_TYPE == [RANGING_SESSION |-> 0, DEVICE_TEST_MODE |-> 208]
UWB_APP_CONFIG_PARAM_TYPE ==
    Over(Enumeration(<<"DEVICE_TYPE", "RANGING_ROUND_USAGE", "STS_CONFIG", "MULTI_NODE_MODE",
            "CHANNEL_NUMBER", "NUMBER_OF_CONTROLEES", "DEVICE_MAC_ADDRESS", "DST_MAC_ADDRESS",
            "SLOT_DURATION", "RANGING_INTERVAL", "STS_INDEX", "MAC_FCS_TYPE",
            "RANGING_ROUND_CONTROL", "AOA_RESULT_REQ", "RANGE_DATA_NTF_CONFIG",
            "RANGE_DATA_NTF_PROXIMITY_NEAR", "RANGE_DATA_NTF_PROXIMITY_FAR", "DEVICE_ROLE",
            "RFRAME_CONFIG">>, 0),
    Over(Enumeration(<<"PREAMBLE_CODE_INDEX", "SFD_ID", "PSDU_DATA_RATE",
            "PREAMBLE_DURATION">>, 20),
    Over(Enumeration(<<"RANGING_TIME_STRUCT", "SLOTS_PER_RR",
            "TX_ADAPTIVE_PAYLOAD_POWER">>, 26),
    Over(Enumeration(<<"RESPONDER_SLOT_INDEX", "PRF_MODE">>, 30),
    Over(Enumeration(<<"SCHEDULED_MODE", "KEY_ROTATION", "KEY_ROTATION_RATE",
            "SESSION_PRIORITY", "MAC_ADDRESS_MODE", "VENDOR_ID", "STATIC_STS_IV",
            "NUMBER_OF_STS_SEGMENTS", "MAX_RR_RETRY", "UWB_INITIATION_TIME", "HOPPING_MODE",
            "BLOCK_STRIDE_LENGTH", "RESULT_REPORT_CONFIG",
            "IN_BAND_TERMINATION_ATTEMPT_COUNT", "SUB_SESSION_ID", "BPRF_PHR_DATA_RATE",
            "MAX_NUMBER_OF_MEASUREMENTS">>, 34),
         [STS_LENGTH |-> 53])))))
UWB_SESSION_STATE == Enumeration(<<"INIT", "DEINIT", "ACTIVE", "IDLE">>, 0)
UWB_SESSION_REASON_CODE ==
    Over(Enumeration(<<"STATE_CHANGE_WITH_SESSION_MANAGEMENT_COMMANDS",
            "MAX_RANGING_ROUND_RETRY_COUNT_REACHED",
            "MAX_NUMBER_OF_MEASUREMENTS_REACHED">>, 0),
         Enumeration(<<"ERROR_SLOT_LENGTH_NOT_SUPPORTED", "ERROR_INSUFFICIENT_SLOTS_PER_RR",
            "ERROR_MAC_ADDRESS_MODE_NOT_SUPPORTED", "ERROR_INVALID_RANGING_INTERVAL",
            "ERROR_INVALID_STS_CONFIG", "ERROR_INVALID_RFRAME_CONFIG">>, 32))
UWB_MULTICAST_ACTION == Enumeration(<<"ADD_SHORT_ADDRESS", "DELETE_SHORT_ADDRESS">>, 0)
UWB_MULTICAST_STATUS == Enumeration(
    <<"OK_MULTICAST_LIST_UPDATE", "ERROR_MULTICAST_LIST_FULL", "ERROR_KEY_FETCH_FAIL",
      "ERROR_SUB_SESSION_ID_NOT_FOUND">>, 0)
UWB_RANGING_MEASUREMENT_TYPE == [TWO_WAY |-> 1]
UWB_MAC_ADDRESS_MODE_INDICATOR == Enumeration(<<"SHORT", "EXTENDED">>, 0)
UWB_LINE_OF_SIGHT_INDICATOR ==
    [LINE_OF_SIGHT |-> 0, NON_LINE_OF_SIGHT |-> 1, UNABLE_TO_DETERMINE |-> 255]
UWB_NOTIFICATION_TYPE == Enumeration(
    <<"DEVICE_STATUS", "GENERIC_ERROR", "SESSION_STATUS",
      "SESSION_UPDATE_CONTROLLER_MULTICAST_LIST", "RANGING_DATA">>, 0)

---------------------------------------------------------------------------
(* Layout. *)

\* A field: its size and its alignment.
u8 == [size |-> 1, align |-> 1]
u16 == [size |-> 2, align |-> 2]
u32 == [size |-> 4, align |-> 4]     \* and every enumeration
ArrayOf(field, n) == [field EXCEPT !.size = n * @]

RoundUp(n, align) == ((n + align - 1) \div align) * align
\* Where the n-th field of a structure begins.
OffsetOf(struct, n) ==
    LET end[i \in 0..n - 1] ==
            IF i = 0 THEN 0 ELSE RoundUp(end[i - 1], struct[i].align) + struct[i].size
    IN  RoundUp(end[n - 1], struct[n].align)
AlignOf(struct) == Max({struct[i].align : i \in DOMAIN struct})
SizeOf(struct) ==
    RoundUp(OffsetOf(struct, Len(struct)) + struct[Len(struct)].size, AlignOf(struct))
\* A structure as a field of another.
Nested(struct) == [size |-> SizeOf(struct), align |-> AlignOf(struct)]
Union(structs) == [size |-> Max({SizeOf(s) : s \in structs}),
                   align |-> Max({AlignOf(s) : s \in structs})]
\* The array of any size is the last field of a structure that has one.
FlexOffset(struct) == OffsetOf(struct, Len(struct))
FlexElement(struct) == struct[Len(struct)].size

---------------------------------------------------------------------------
(* Structures. *)

UWB_DEVICE_INFO == <<u32, u32, u8, u8, u8, u8, u8, u8, u8, u8, u32, u8>>
UWB_CAPABILITY_PARAM == <<u32, u32, u32, u8>>
UWB_DEVICE_CAPABILITIES == <<u32, u32, u32, Nested(UWB_CAPABILITY_PARAM)>>
UWB_DEVICE_STATUS == <<u32, u32>>
UWB_APP_CONFIG_PARAM == <<u32, u32, u32, u8>>
UWB_SET_APP_CONFIG_PARAMS == <<u32, u32, u32, Nested(UWB_APP_CONFIG_PARAM)>>
UWB_APP_CONFIG_PARAM_STATUS == <<u32, u32, u32>>
UWB_SET_APP_CONFIG_PARAMS_STATUS == <<u32, u32, u32, Nested(UWB_APP_CONFIG_PARAM_STATUS)>>
UWB_GET_APP_CONFIG_PARAMS == <<u32, u32, u32, u32>>
UWB_APP_CONFIG_PARAMS == <<u32, u32, u32, Nested(UWB_APP_CONFIG_PARAM)>>
UWB_MULTICAST_CONTROLEE_LIST_ENTRY == <<u32, u16, u32>>
UWB_SESSION_STATUS == <<u32, u32, u32, u32>>
UWB_SESSION_UPDATE_CONTROLLER_MULTICAST_LIST ==
    <<u32, u32, u32, u32, Nested(UWB_MULTICAST_CONTROLEE_LIST_ENTRY)>>
UWB_MULTICAST_LIST_STATUS == <<u32, u16, u32, u32>>
UWB_SESSION_UPDATE_CONTROLLER_MULTICAST_LIST_NTF ==
    <<u32, u32, u32, u32, Nested(UWB_MULTICAST_LIST_STATUS)>>
UWB_MAC_ADDRESS == <<u32, u32, ArrayOf(u8, 8)>>
UWB_RANGING_MEASUREMENT ==
    <<u32, Nested(UWB_MAC_ADDRESS), u32, u32, u16, u16, u8, u16, u8, u16, u8, u16, u8, u8>>
UWB_RANGING_DATA == <<u32, u32, u32, u32, u32, u32, Nested(UWB_RANGING_MEASUREMENT)>>
UWB_NOTIFICATION_DATA ==
    <<u32, u32, Union({UWB_DEVICE_STATUS, <<u32>>, UWB_SESSION_STATUS, UWB_RANGING_DATA,
                       UWB_SESSION_UPDATE_CONTROLLER_MULTICAST_LIST_NTF})>>
=============================================================================
