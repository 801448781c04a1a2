--------------------------- MODULE DdiEnumerations ---------------------------
(***************************************************************************)
(* The tables by which windows/devices/uwb/UwbCxAdapterDdiLrp.cxx converts *)
(* an enumeration of FiraDevice to one of the driver interface, and back.  *)
(* The two directions have tables of their own in the code, and here.      *)
(***************************************************************************)
EXTENDS UwbCxLrpDevice

---------------------------------------------------------------------------
(* Neutral to driver. *)

FromStatus ==
    [Ok |-> "OK", Rejected |-> "REJECTED", Failed |-> "FAILED",
     SyntaxError |-> "SYNTAX_ERROR", InvalidParameter |-> "INVALID_PARAM",
     InvalidRange |-> "INVALID_RANGE", InvalidMessageSize |-> "INVALID_MESSAGE_SIZE",
     UnknownGid |-> "UNKNOWN_GID", UnknownOid |-> "UNKNOWN_OID",
     ReadOnly |-> "READ_ONLY", CommandRetry |-> "COMMAND_RETRY",
     NotExist |-> "ERROR_SESSION_NOT_EXIST", Duplicate |-> "ERROR_SESSION_DUPLICATE",
     Active |-> "ERROR_SESSION_ACTIVE",
     MaxSessionsExceeded |-> "ERROR_MAX_SESSIONS_EXCEEDED",
     NotConfigured |-> "ERROR_SESSION_NOT_CONFIGURED",
     ActiveSessionsOngoing |-> "ERROR_ACTIVE_SESSIONS_ONGOING",
     MulticastListFull |-> "ERROR_MULTICAST_LIST_FULL",
     AddressNotFound |-> "ERROR_ADDRESS_NOT_FOUND",
     AddressAlreadyPresent |-> "ERROR_ADDRESS_ALREADY_PRESENT",
     TxFailed |-> "RANGING_TX_FAILED", RxTimeout |-> "RANGING_RX_TIMEOUT",
     RxPhyDecodingFailed |-> "RANGING_RX_PHY_DEC_FAILED",
     RxPhyToaFailed |-> "RANGING_RX_PHY_TOA_FAILED",
     RxPhyStsFailed |-> "RANGING_RX_PHY_STS_FAILED",
     MacDecodingFailed |-> "RANGING_RX_MAC_DEC_FAILED",
     RxMacIeDecodingFailed |-> "RANGING_RX_MAC_IE_DEC_FAILED",
     RxMacIeMissing |-> "RANGING_RX_MAC_IE_MISSING"]
FromDeviceState == [Ready |-> "READY", Active |-> "ACTIVE", Error |-> "ERROR"]
FromSessionType ==
    [RangingSession |-> "RANGING_SESSION", TestMode |-> "DEVICE_TEST_MODE"]
FromLineOfSightIndicator ==
    [LineOfSight |-> "LINE_OF_SIGHT", NonLineOfSight |-> "NON_LINE_OF_SIGHT",
     Indeterminant |-> "UNABLE_TO_DETERMINE"]
FromMulticastAction ==
    [AddShortAddress |-> "ADD_SHORT_ADDRESS",
     DeleteShortAddress |-> "DELETE_SHORT_ADDRESS"]
FromStatusMulticast ==
    [OkUpdate |-> "OK_MULTICAST_LIST_UPDATE",
     ErrorListFull |-> "ERROR_MULTICAST_LIST_FULL",
     ErrorKeyFetchFail |-> "ERROR_KEY_FETCH_FAIL",
     ErrorSubSessionIdNotFound |-> "ERROR_SUB_SESSION_ID_NOT_FOUND"]
FromRangingMeasurementType == [TwoWay |-> "TWO_WAY"]
FromSessionReasonCode ==
    [
     StateChangeWithSessionManagementCommands |-> "STATE_CHANGE_WITH_SESSION_MANAGEMENT_COMMANDS",
     MaxRangignRoundRetryCountReached |-> "MAX_RANGING_ROUND_RETRY_COUNT_REACHED",
     MaxNumberOfMeasurementsReached |-> "MAX_NUMBER_OF_MEASUREMENTS_REACHED",
     ErrorSlotLengthNotSupported |-> "ERROR_SLOT_LENGTH_NOT_SUPPORTED",
     ErrorInsufficientSlotsPerRangingRound |-> "ERROR_INSUFFICIENT_SLOTS_PER_RR",
     ErrorMacAddressModeNotSupported |-> "ERROR_MAC_ADDRESS_MODE_NOT_SUPPORTED",
     ErrorInvalidRangingInterval |-> "ERROR_INVALID_RANGING_INTERVAL",
     ErrorInvalidStsConfiguration |-> "ERROR_INVALID_STS_CONFIG",
     ErrorInvalidRFrameConfiguration |-> "ERROR_INVALID_RFRAME_CONFIG"]
FromDeviceConfigurationParameterType ==
    [DeviceState |-> "DEVICE_STATE", LowPowerMode |-> "LOW_POWER_MODE"]
FromParameterType ==
    [DeviceType |-> "DEVICE_TYPE", RangingRoundUsage |-> "RANGING_ROUND_USAGE",
     StsConfiguration |-> "STS_CONFIG", MultiNodeMode |-> "MULTI_NODE_MODE",
     ChannelNumber |-> "CHANNEL_NUMBER", NumberOfControlees |-> "NUMBER_OF_CONTROLEES",
     DeviceMacAddress |-> "DEVICE_MAC_ADDRESS",
     DestinationMacAddresses |-> "DST_MAC_ADDRESS", SlotDuration |-> "SLOT_DURATION",
     RangingInterval |-> "RANGING_INTERVAL", StsIndex |-> "STS_INDEX",
     MacFcsType |-> "MAC_FCS_TYPE", RangingRoundControl |-> "RANGING_ROUND_CONTROL",
     AoAResultRequest |-> "AOA_RESULT_REQ",
     RangeDataNotificationConfig |-> "RANGE_DATA_NTF_CONFIG",
     RangeDataNotificationProximityNear |-> "RANGE_DATA_NTF_PROXIMITY_NEAR",
     RangeDataNotificationProximityFar |-> "RANGE_DATA_NTF_PROXIMITY_FAR",
     DeviceRole |-> "DEVICE_ROLE", RFrameConfiguration |-> "RFRAME_CONFIG",
     PreambleCodeIndex |-> "PREAMBLE_CODE_INDEX", SfdId |-> "SFD_ID",
     PsduDataRate |-> "PSDU_DATA_RATE", PreambleDuration |-> "PREAMBLE_DURATION",
     RangingTimeStruct |-> "RANGING_TIME_STRUCT",
     SlotsPerRangingRound |-> "SLOTS_PER_RR",
     TxAdaptivePayloadPower |-> "TX_ADAPTIVE_PAYLOAD_POWER",
     ResponderSlotIndex |-> "RESPONDER_SLOT_INDEX", PrfMode |-> "PRF_MODE",
     ScheduledMode |-> "SCHEDULED_MODE", KeyRotation |-> "KEY_ROTATION",
     KeyRotationRate |-> "KEY_ROTATION_RATE", SessionPriority |-> "SESSION_PRIORITY",
     MacAddressMode |-> "MAC_ADDRESS_MODE", VendorId |-> "VENDOR_ID",
     StaticStsIv |-> "STATIC_STS_IV", NumberOfStsSegments |-> "NUMBER_OF_STS_SEGMENTS",
     MaxRangingRoundRetry |-> "MAX_RR_RETRY",
     UwbInitiationTime |-> "UWB_INITIATION_TIME", HoppingMode |-> "HOPPING_MODE",
     BlockStrideLength |-> "BLOCK_STRIDE_LENGTH",
     ResultReportConfig |-> "RESULT_REPORT_CONFIG",
     InBandTerminationAttemptCount |-> "IN_BAND_TERMINATION_ATTEMPT_COUNT",
     SubSessionId |-> "SUB_SESSION_ID", BprfPhrDataRate |-> "BPRF_PHR_DATA_RATE",
     MaxNumberOfMeasurements |-> "MAX_NUMBER_OF_MEASUREMENTS",
     StsLength |-> "STS_LENGTH"]
FromSessionState ==
    [Initialized |-> "INIT", Deinitialized |-> "DEINIT", Active |-> "ACTIVE",
     Idle |-> "IDLE"]
FromMacAddressType == [Short |-> "SHORT", Extended |-> "EXTENDED"]

---------------------------------------------------------------------------
(* Driver to neutral. *)

ToStatusGeneric ==
    [OK |-> "Ok", REJECTED |-> "Rejected", FAILED |-> "Failed",
     SYNTAX_ERROR |-> "SyntaxError", INVALID_PARAM |-> "InvalidParameter",
     INVALID_RANGE |-> "InvalidRange", INVALID_MESSAGE_SIZE |-> "InvalidMessageSize",
     UNKNOWN_GID |-> "UnknownGid", UNKNOWN_OID |-> "UnknownOid",
     READ_ONLY |-> "ReadOnly", COMMAND_RETRY |-> "CommandRetry"]
ToStatusRanging ==
    [RANGING_TX_FAILED |-> "TxFailed", RANGING_RX_TIMEOUT |-> "RxTimeout",
     RANGING_RX_PHY_DEC_FAILED |-> "RxPhyDecodingFailed",
     RANGING_RX_PHY_TOA_FAILED |-> "RxPhyToaFailed",
     RANGING_RX_PHY_STS_FAILED |-> "RxPhyStsFailed",
     RANGING_RX_MAC_DEC_FAILED |-> "MacDecodingFailed",
     RANGING_RX_MAC_IE_DEC_FAILED |-> "RxMacIeDecodingFailed",
     RANGING_RX_MAC_IE_MISSING |-> "RxMacIeMissing"]
ToStatusSession ==
    [ERROR_SESSION_NOT_EXIST |-> "NotExist", ERROR_SESSION_DUPLICATE |-> "Duplicate",
     ERROR_SESSION_ACTIVE |-> "Active",
     ERROR_MAX_SESSIONS_EXCEEDED |-> "MaxSessionsExceeded",
     ERROR_SESSION_NOT_CONFIGURED |-> "NotConfigured",
     ERROR_ACTIVE_SESSIONS_ONGOING |-> "ActiveSessionsOngoing",
     ERROR_MULTICAST_LIST_FULL |-> "MulticastListFull",
     ERROR_ADDRESS_NOT_FOUND |-> "AddressNotFound",
     ERROR_ADDRESS_ALREADY_PRESENT |-> "AddressAlreadyPresent"]
ToStatusDevice == [READY |-> "Ready", ACTIVE |-> "Active", ERROR |-> "Error"]
ToDeviceState == [READY |-> "Ready", ACTIVE |-> "Active", ERROR |-> "Error"]
ToSessionType == [RANGING_SESSION |-> "RangingSession", DEVICE_TEST_MODE |-> "TestMode"]
ToDeviceConfigurationParameterType ==
    [DEVICE_STATE |-> "DeviceState", LOW_POWER_MODE |-> "LowPowerMode"]
ToLineOfSightIndicator ==
    [LINE_OF_SIGHT |-> "LineOfSight", NON_LINE_OF_SIGHT |-> "NonLineOfSight",
     UNABLE_TO_DETERMINE |-> "Indeterminant"]
ToMulticastAction ==
    [ADD_SHORT_ADDRESS |-> "AddShortAddress",
     DELETE_SHORT_ADDRESS |-> "DeleteShortAddress"]
ToStatusMulticast ==
    [OK_MULTICAST_LIST_UPDATE |-> "OkUpdate",
     ERROR_MULTICAST_LIST_FULL |-> "ErrorListFull",
     ERROR_KEY_FETCH_FAIL |-> "ErrorKeyFetchFail",
     ERROR_SUB_SESSION_ID_NOT_FOUND |-> "ErrorSubSessionIdNotFound"]
ToSessionState ==
    [INIT |-> "Initialized", DEINIT |-> "Deinitialized", ACTIVE |-> "Active",
     IDLE |-> "Idle"]
ToRangingMeasurementType == [TWO_WAY |-> "TwoWay"]
ToSessionReasonCode ==
    [
     STATE_CHANGE_WITH_SESSION_MANAGEMENT_COMMANDS |-> "StateChangeWithSessionManagementCommands",
     MAX_RANGING_ROUND_RETRY_COUNT_REACHED |-> "MaxRangignRoundRetryCountReached",
     MAX_NUMBER_OF_MEASUREMENTS_REACHED |-> "MaxNumberOfMeasurementsReached",
     ERROR_SLOT_LENGTH_NOT_SUPPORTED |-> "ErrorSlotLengthNotSupported",
     ERROR_INSUFFICIENT_SLOTS_PER_RR |-> "ErrorInsufficientSlotsPerRangingRound",
     ERROR_MAC_ADDRESS_MODE_NOT_SUPPORTED |-> "ErrorMacAddressModeNotSupported",
     ERROR_INVALID_RANGING_INTERVAL |-> "ErrorInvalidRangingInterval",
     ERROR_INVALID_STS_CONFIG |-> "ErrorInvalidStsConfiguration",
     ERROR_INVALID_RFRAME_CONFIG |-> "ErrorInvalidRFrameConfiguration"]
ToParameterType ==
    [DEVICE_TYPE |-> "DeviceType", RANGING_ROUND_USAGE |-> "RangingRoundUsage",
     STS_CONFIG |-> "StsConfiguration", MULTI_NODE_MODE |-> "MultiNodeMode",
     CHANNEL_NUMBER |-> "ChannelNumber", NUMBER_OF_CONTROLEES |-> "NumberOfControlees",
     DEVICE_MAC_ADDRESS |-> "DeviceMacAddress",
     DST_MAC_ADDRESS |-> "DestinationMacAddresses", SLOT_DURATION |-> "SlotDuration",
     RANGING_INTERVAL |-> "RangingInterval", STS_INDEX |-> "StsIndex",
     MAC_FCS_TYPE |-> "MacFcsType", RANGING_ROUND_CONTROL |-> "RangingRoundControl",
     AOA_RESULT_REQ |-> "AoAResultRequest",
     RANGE_DATA_NTF_CONFIG |-> "RangeDataNotificationConfig",
     RANGE_DATA_NTF_PROXIMITY_NEAR |-> "RangeDataNotificationProximityNear",
     RANGE_DATA_NTF_PROXIMITY_FAR |-> "RangeDataNotificationProximityFar",
     DEVICE_ROLE |-> "DeviceRole", RFRAME_CONFIG |-> "RFrameConfiguration",
     PREAMBLE_CODE_INDEX |-> "PreambleCodeIndex", SFD_ID |-> "SfdId",
     PSDU_DATA_RATE |-> "PsduDataRate", PREAMBLE_DURATION |-> "PreambleDuration",
     RANGING_TIME_STRUCT |-> "RangingTimeStruct",
     SLOTS_PER_RR |-> "SlotsPerRangingRound",
     TX_ADAPTIVE_PAYLOAD_POWER |-> "TxAdaptivePayloadPower",
     RESPONDER_SLOT_INDEX |-> "ResponderSlotIndex", PRF_MODE |-> "PrfMode",
     SCHEDULED_MODE |-> "ScheduledMode", KEY_ROTATION |-> "KeyRotation",
     KEY_ROTATION_RATE |-> "KeyRotationRate", SESSION_PRIORITY |-> "SessionPriority",
     MAC_ADDRESS_MODE |-> "MacAddressMode", VENDOR_ID |-> "VendorId",
     STATIC_STS_IV |-> "StaticStsIv", NUMBER_OF_STS_SEGMENTS |-> "NumberOfStsSegments",
     MAX_RR_RETRY |-> "MaxRangingRoundRetry",
     UWB_INITIATION_TIME |-> "UwbInitiationTime", HOPPING_MODE |-> "HoppingMode",
     BLOCK_STRIDE_LENGTH |-> "BlockStrideLength",
     RESULT_REPORT_CONFIG |-> "ResultReportConfig",
     IN_BAND_TERMINATION_ATTEMPT_COUNT |-> "InBandTerminationAttemptCount",
     SUB_SESSION_ID |-> "SubSessionId", BPRF_PHR_DATA_RATE |-> "BprfPhrDataRate",
     MAX_NUMBER_OF_MEASUREMENTS |-> "MaxNumberOfMeasurements",
     STS_LENGTH |-> "StsLength"]
ToMacAddressType == [SHORT |-> "Short", EXTENDED |-> "Extended"]

---------------------------------------------------------------------------
(* The conversions.  at() throws for an entry that a table does not have.  *)

From(table, numbers, x) == numbers[table[x]]
To(table, numbers, n) == table[NameOf(numbers, n)]

FromUwbStatus(status) == From(FromStatus, UWB_STATUS, status)
\* The number decides which of the three tables is searched.
ToUwbStatus(n) ==
    LET table == IF n < UWB_STATUS.ERROR_SESSION_NOT_EXIST THEN ToStatusGeneric
                 ELSE IF n < UWB_STATUS.RANGING_TX_FAILED THEN ToStatusSession
                 ELSE ToStatusRanging
    IN  To(table, UWB_STATUS, n)
FromUwbParameterType(t) == From(FromParameterType, UWB_APP_CONFIG_PARAM_TYPE, t)
ToUwbParameterType(n) == To(ToParameterType, UWB_APP_CONFIG_PARAM_TYPE, n)

\* The enumerations that are converted on their own: both tables, and the
\* numbers between them.
Tables ==
    [UwbSessionType |-> [from |-> FromSessionType, to |-> ToSessionType,
                         numbers |-> UWB_SESSION_TYPE],
     UwbDeviceState |-> [from |-> FromDeviceState, to |-> ToDeviceState,
                         numbers |-> UWB_DEVICE_STATE],
     UwbLineOfSightIndicator |-> [from |-> FromLineOfSightIndicator,
             to |-> ToLineOfSightIndicator, numbers |-> UWB_LINE_OF_SIGHT_INDICATOR],
     UwbMulticastAction |-> [from |-> FromMulticastAction, to |-> ToMulticastAction,
                             numbers |-> UWB_MULTICAST_ACTION],
     UwbStatusMulticast |-> [from |-> FromStatusMulticast, to |-> ToStatusMulticast,
                             numbers |-> UWB_MULTICAST_STATUS],
     UwbRangingMeasurementType |-> [from |-> FromRangingMeasurementType,
             to |-> ToRangingMeasurementType, numbers |-> UWB_RANGING_MEASUREMENT_TYPE],
     UwbSessionReasonCode |-> [from |-> FromSessionReasonCode, to |-> ToSessionReasonCode,
                               numbers |-> UWB_SESSION_REASON_CODE],
     UwbDeviceConfigurationParameterType |-> [from |-> FromDeviceConfigurationParameterType,
             to |-> ToDeviceConfigurationParameterType,
             numbers |-> UWB_DEVICE_CONFIG_PARAM_TYPE],
     UwbSessionState |-> [from |-> FromSessionState, to |-> ToSessionState,
                          numbers |-> UWB_SESSION_STATE],
     UwbMacAddressType |-> [from |-> FromMacAddressType, to |-> ToMacAddressType,
                            numbers |-> UWB_MAC_ADDRESS_MODE_INDICATOR]]
Number(e, x) == From(Tables[e].from, Tables[e].numbers, x)
Name(e, n) == To(Tables[e].to, Tables[e].numbers, n)
=============================================================================
