----------------------------- MODULE FiraDevice -----------------------------
(***************************************************************************)
(* The device-neutral types of lib/uwb/.../fira/FiraDevice.hxx and the     *)
(* parts of UwbMacAddress and UwbVersion that the conversions use.         *)
(*                                                                         *)
(* An enumeration whose numbers reach a wire is a function from the names  *)
(* of its enumerators to their numbers; one that is only ever converted by *)
(* a table is the set of its names.                                        *)
(***************************************************************************)
EXTENDS Integers, FiniteSets, SequencesExt

CONSTANT None       \* std::nullopt

\* A function, and another one where it has no value.
Over(f, g) ==
    [x \in DOMAIN f \cup DOMAIN g |-> IF x \in DOMAIN f THEN f[x] ELSE g[x]]
\* The elements of a sequence that pass a test.
Those(s, Test(_)) == FlattenSeq([i \in DOMAIN s |-> IF Test(s[i]) THEN <<s[i]>> ELSE << >>])

\* The enumerators in order, numbered from the first one's number.
Enumeration(names, first) ==
    [n \in Range(names) |-> first - 1 + CHOOSE i \in DOMAIN names : names[i] = n]
\* An enumerator of a number, for numbers that have one.
NameOf(enumeration, number) == CHOOSE n \in DOMAIN enumeration : enumeration[n] = number
\* Some of the names, in the order of their numbers.
InOrder(names, enumeration) ==
    LET numbers == [i \in 1..1 + Max(Range(enumeration)) |-> i - 1]
        ofNames == Those(numbers, LAMBDA k : \E n \in names : enumeration[n] = k)
    IN  [i \in DOMAIN ofNames |-> NameOf(enumeration, ofNames[i])]

---------------------------------------------------------------------------
(* Enumerations with numbers of their own. *)

DeviceRole == Enumeration(<<"Responder", "Initiator">>, 0)
DeviceType == Enumeration(<<"Controlee", "Controller">>, 0)
RangingRoundUsage == Enumeration(
    <<"Rfu", "SingleSidedTwoWayRangingWithDeferredMode",
      "DoubleSidedTwoWayRangingWithDeferredMode", "SingleSidedTwoWayRangingNonDeferredMode",
      "DoubleSidedTwoWayRangingNonDeferredMode">>, 0)
StsConfiguration == Enumeration(<<"Static", "Dynamic", "DynamicWithResponderSubSessionKey">>, 0)
RFrameConfiguration == Enumeration(<<"SP0", "SP1", "SP2", "SP3">>, 0)
RangingDirection == Enumeration(<<"OneWay", "SingleSidedTwoWay", "DoubleSidedTwoWay">>, 0)
MultiNodeMode == Enumeration(<<"Unicast", "OneToMany", "ManyToMany">>, 0)
SchedulingMode == Enumeration(<<"Contention", "Time">>, 0)
RangingMode == Enumeration(<<"Interval", "Block">>, 0)
MeasurementReportMode == Enumeration(<<"None", "Deferred", "NonDeferred">>, 0)
AngleOfArrival == {"Azimuth90", "Azimuth180", "Elevation"}
ConvolutionalCodeConstraintLength == Enumeration(<<"K3", "K7">>, 0)
Channel == [C5 |-> 5, C6 |-> 6, C8 |-> 8, C9 |-> 9, C10 |-> 10, C12 |-> 12, C13 |-> 13,
            C14 |-> 14]
PrfMode == Enumeration(<<"Bprf", "Hprf">>, 0)
\* Set1 and so on, by number.
BprfParameter == 1..6
HprfParameter == 1..35
ResultReportConfiguration ==
    [TofReport |-> 1, AoAAzimuthReport |-> 2, AoAElevationReport |-> 4, AoAFoMReport |-> 8]
RangingRoundControl ==
    [RangingResultReportMessage |-> 1, ControlMessage |-> 2, MeasurementReportMessage |-> 128]
AoAResult == Enumeration(<<"Disable", "Enable">>, 0)
RangeDataNotificationConfiguration ==
    Enumeration(<<"Disable", "Enable", "EnableInProximityRange">>, 0)
PreambleDuration == Enumeration(<<"Symbols32", "Symbols64">>, 0)
TxAdaptivePayloadPower == Enumeration(<<"Disable", "Enable">>, 0)
PrfModeDetailed == Enumeration(<<"Bprf62MHz", "Hprf124MHz", "Hprf249MHz">>, 0)
KeyRotation == Enumeration(<<"Disable", "Enable">>, 0)
PsduDataRate == Enumeration(
    <<"Rate6810kbps", "Rate7800kbps", "Rate2720kbps", "Rate3120kbps", "Rate850kbps">>, 0)
BprfPhrDataRate == Enumeration(<<"Rate850kbps", "Rate6Mbps">>, 0)
StsLength == Enumeration(<<"Symbols32", "Symbols64", "Symbols128">>, 0)
UwbMacAddressFcsType == Enumeration(<<"Crc16", "Crc32">>, 0)
UwbMacAddressType == [Short |-> 0, Extended |-> 2]

---------------------------------------------------------------------------
(* Enumerations that only tables convert, and the structures of them. *)

UwbStatusSession ==
    {"NotExist", "Duplicate", "Active", "MaxSessionsExceeded", "NotConfigured",
     "ActiveSessionsOngoing", "MulticastListFull", "AddressNotFound", "AddressAlreadyPresent"}
UwbStatusRanging ==
    {"TxFailed", "RxTimeout", "RxPhyDecodingFailed", "RxPhyToaFailed", "RxPhyStsFailed",
     "MacDecodingFailed", "RxMacIeDecodingFailed", "RxMacIeMissing"}
UwbStatusGeneric ==
    {"Ok", "Rejected", "Failed", "SyntaxError", "InvalidParameter", "InvalidRange",
     "InvalidMessageSize", "UnknownGid", "UnknownOid", "ReadOnly", "CommandRetry"}
\* A variant of the three, whose enumerators have different names.
UwbStatus == UwbStatusGeneric \cup UwbStatusSession \cup UwbStatusRanging
UwbStatusMulticast ==
    {"OkUpdate", "ErrorListFull", "ErrorKeyFetchFail", "ErrorSubSessionIdNotFound"}
UwbDeviceState == {"Ready", "Active", "Error", "Uninitialized"}
UwbSessionType == {"RangingSession", "TestMode"}
UwbSessionState == {"Initialized", "Deinitialized", "Active", "Idle"}
UwbSessionReasonCode ==
    {"StateChangeWithSessionManagementCommands", "MaxRangignRoundRetryCountReached",
     "MaxNumberOfMeasurementsReached", "ErrorSlotLengthNotSupported",
     "ErrorInsufficientSlotsPerRangingRound", "ErrorMacAddressModeNotSupported",
     "ErrorInvalidRangingInterval", "ErrorInvalidStsConfiguration",
     "ErrorInvalidRFrameConfiguration"}
UwbLineOfSightIndicator == {"LineOfSight", "NonLineOfSight", "Indeterminant"}
UwbRangingMeasurementType == {"TwoWay"}
UwbDeviceConfigurationParameterType == {"DeviceState", "LowPowerMode"}
UwbMulticastAction == {"AddShortAddress", "DeleteShortAddress"}

---------------------------------------------------------------------------
(* Application configuration parameters. *)

\* The identifiers of the UWB command interface, with the gaps it has.
UwbApplicationConfigurationParameterType ==
    Over(Enumeration(<<"DeviceType", "RangingRoundUsage", "StsConfiguration", "MultiNodeMode",
            "ChannelNumber", "NumberOfControlees", "DeviceMacAddress", "DestinationMacAddresses",
            "SlotDuration", "RangingInterval", "StsIndex", "MacFcsType", "RangingRoundControl",
            "AoAResultRequest", "RangeDataNotificationConfig",
            "RangeDataNotificationProximityNear", "RangeDataNotificationProximityFar",
            "DeviceRole", "RFrameConfiguration">>, 0),
    Over(Enumeration(<<"PreambleCodeIndex", "SfdId", "PsduDataRate", "PreambleDuration">>, 20),
    Over(Enumeration(<<"RangingTimeStruct", "SlotsPerRangingRound",
            "TxAdaptivePayloadPower">>, 26),
    Over(Enumeration(<<"ResponderSlotIndex", "PrfMode">>, 30),
    Over(Enumeration(<<"ScheduledMode", "KeyRotation", "KeyRotationRate", "SessionPriority",
            "MacAddressMode", "VendorId", "StaticStsIv", "NumberOfStsSegments",
            "MaxRangingRoundRetry", "UwbInitiationTime", "HoppingMode", "BlockStrideLength",
            "ResultReportConfig", "InBandTerminationAttemptCount", "SubSessionId",
            "BprfPhrDataRate", "MaxNumberOfMeasurements">>, 34),
         [StsLength |-> 53])))))

ParameterType == DOMAIN UwbApplicationConfigurationParameterType

\* The alternative of the variant that holds a parameter: an enumeration, an
\* integer of some width, or one of the larger types.  An enumerator is held as
\* its number, a truth value as 0 or 1.
UwbApplicationConfigurationParameterValue ==
    [t \in ParameterType |->
        CASE t \in {"SlotDuration", "RangeDataNotificationProximityNear", "VendorId",
                    "RangeDataNotificationProximityFar", "MaxRangingRoundRetry",
                    "MaxNumberOfMeasurements"} -> "uint16"
          [] t \in {"RangingInterval", "StsIndex", "UwbInitiationTime", "SubSessionId"} -> "uint32"
          [] t \in {"NumberOfControlees", "PreambleCodeIndex", "SfdId", "SlotsPerRangingRound",
                    "ResponderSlotIndex", "KeyRotationRate", "SessionPriority",
                    "NumberOfStsSegments", "BlockStrideLength",
                    "InBandTerminationAttemptCount"} -> "uint8"
          [] t = "HoppingMode" -> "bool"
          [] t = "DeviceMacAddress" -> "address"
          [] t = "DestinationMacAddresses" -> "addresses"
          [] t = "StaticStsIv" -> "vector"
          [] t = "ResultReportConfig" -> "reports"
          [] OTHER -> "enum"]

\* The enumerations of the alternatives that are enumerations.
ParameterEnumeration ==
    [DeviceType |-> DeviceType, RangingRoundUsage |-> RangingRoundUsage,
     StsConfiguration |-> StsConfiguration, MultiNodeMode |-> MultiNodeMode,
     ChannelNumber |-> Channel, MacFcsType |-> UwbMacAddressFcsType,
     RangingRoundControl |-> RangingRoundControl, AoAResultRequest |-> AoAResult,
     RangeDataNotificationConfig |-> RangeDataNotificationConfiguration,
     DeviceRole |-> DeviceRole, RFrameConfiguration |-> RFrameConfiguration,
     PsduDataRate |-> PsduDataRate, PreambleDuration |-> PreambleDuration,
     RangingTimeStruct |-> RangingMode, TxAdaptivePayloadPower |-> TxAdaptivePayloadPower,
     PrfMode |-> PrfModeDetailed, ScheduledMode |-> SchedulingMode,
     KeyRotation |-> KeyRotation, MacAddressMode |-> UwbMacAddressType,
     BprfPhrDataRate |-> BprfPhrDataRate, StsLength |-> StsLength]

\* sizeof an alternative that is a number.  An enumeration has one byte unless
\* it leaves its underlying type to the compiler.
AlternativeBytes(alternative, t) ==
    CASE alternative = "uint16" -> 2
      [] alternative = "uint32" -> 4
      [] alternative = "enum" /\ t \in {"ChannelNumber", "ScheduledMode"} -> 4
      [] OTHER -> 1
\* A parameter with the alternative that belongs to its type.
Parameter(t, value) ==
    [Type |-> t, Alternative |-> UwbApplicationConfigurationParameterValue[t], Value |-> value]

StaticStsInitializationVectorLength == 6

\* A set of reports as the byte it is sent as.
Bits(reports) ==
    LET bit(r) == IF r \in reports THEN ResultReportConfiguration[r] ELSE 0
    IN  bit("TofReport") + bit("AoAAzimuthReport") + bit("AoAElevationReport")
        + bit("AoAFoMReport")
Reports(bits) ==
    {r \in DOMAIN ResultReportConfiguration : (bits \div ResultReportConfiguration[r]) % 2 = 1}

\* An integer in the memory of a host.
LittleEndian(n, bytes) == [i \in 1..bytes |-> (n \div 256 ^ (i - 1)) % 256]
FromLittleEndian(bytes) ==
    LET sum[i \in 0..Len(bytes)] ==
            IF i = 0 THEN 0 ELSE sum[i - 1] + bytes[i] * 256 ^ (i - 1)
    IN  sum[Len(bytes)]

---------------------------------------------------------------------------
(* Addresses (sequences of bytes) and versions. *)

UwbMacAddressLength == [Short |-> 2, Extended |-> 8]
GetType(address) == NameOf(UwbMacAddressLength, Len(address))
GetValueShort(address) == address[2] * 256 + address[1]

\* The bits of two bytes.
BitOr(a, b) ==
    LET bit(n) == IF (a \div n) % 2 = 1 \/ (b \div n) % 2 = 1 THEN n ELSE 0
    IN  bit(1) + bit(2) + bit(4) + bit(8) + bit(16) + bit(32) + bit(64) + bit(128)
\* Minor and maintenance share a byte.
FromUci(major, minorAndMaintenance) ==
    [Major |-> major, Minor |-> minorAndMaintenance \div 16,
     Maintenance |-> minorAndMaintenance % 16]
=============================================================================
