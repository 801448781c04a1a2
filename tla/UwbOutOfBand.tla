---------------------------- MODULE UwbOutOfBand ----------------------------
(***************************************************************************)
(* The objects that two devices exchange out of band before they range:    *)
(* UwbSessionData with UwbConfiguration, StaticRangingInfo,                *)
(* SecureRangingInfo and UwbRegulatoryInformation, and the conversions of  *)
(* UwbOobConversions between them and the parameters of a driver.          *)
(*                                                                         *)
(* A configuration is a function from the tags that have a value to the    *)
(* values, and so is each of the other structures.  A decoder is the set   *)
(* of its outcomes: none if it throws, several if it depends on memory     *)
(* that it no longer owns.                                                 *)
(***************************************************************************)
EXTENDS TlvBer, FiraDevice

\* An object of primitive ones, in the order of their tags.
ObjectOf(tag, numbers, bytes) ==
    LET names == InOrder(DOMAIN bytes, numbers)
    IN  Constructed(tag, [i \in DOMAIN names |-> Primitive(<<numbers[names[i]]>>, bytes[names[i]])])
\* The objects in an object, by the names of their tags; the last one of a tag
\* counts, and those that are to be skipped do not.
Found(tlv, numbers, Skip(_)) ==
    LET places(n) == {i \in DOMAIN tlv.values :
                         tlv.values[i].tag = <<numbers[n]>> /\ ~Skip(tlv.values[i])}
    IN  [n \in {m \in DOMAIN numbers : places(m) # {}} |-> tlv.values[Max(places(n))]]
Empty(tlv) == tlv.value = << >>
Kept(tlv) == FALSE

---------------------------------------------------------------------------
(* UwbConfiguration. *)

ConfigurationTag == Enumeration(
    <<"FiraPhyVersion", "FiraMacVersion", "DeviceRole", "RangingMethod", "StsConfig",
      "MultiNodeMode", "RangingTimeStruct", "ScheduledMode", "HoppingMode", "BlockStriding",
      "UwbInitiationTime", "ChannelNumber", "RFrameConfig", "CcConstraintLength", "PrfMode",
      "Sp0PhySetNumber", "Sp1PhySetNumber", "Sp3PhySetNumber", "PreambleCodeIndex",
      "ResultReportConfig", "MacAddressMode", "ControleeShortMacAddress",
      "ControllerMacAddress", "SlotsPerRr", "MaxContentionPhaseLength", "SlotDuration",
      "RangingInterval", "KeyRotationRate", "MacFcsType", "MaxRrRetry">>, 128)

Booleans == {"HoppingMode", "BlockStriding"}
Integers8 == {"KeyRotationRate", "MaxContentionPhaseLength", "PreambleCodeIndex", "SlotsPerRr",
              "Sp0PhySetNumber", "Sp1PhySetNumber", "Sp3PhySetNumber"}
Integers16 == {"FiraMacVersion", "FiraPhyVersion", "MaxRrRetry", "RangingInterval",
               "SlotDuration"}
Integers32 == {"UwbInitiationTime"}
Addresses == {"ControleeShortMacAddress", "ControllerMacAddress"}
ConfigurationEnumeration ==
    [DeviceRole |-> DeviceRole, StsConfig |-> StsConfiguration, MultiNodeMode |-> MultiNodeMode,
     RangingTimeStruct |-> RangingMode, ScheduledMode |-> SchedulingMode, PrfMode |-> PrfMode,
     RFrameConfig |-> RFrameConfiguration, ChannelNumber |-> Channel,
     CcConstraintLength |-> ConvolutionalCodeConstraintLength,
     MacAddressMode |-> UwbMacAddressType, MacFcsType |-> UwbMacAddressFcsType]
\* Nothing, or one of the four ways of two-way ranging, by its usage's number.
RangingMethods == Range(RangingRoundUsage)

\* A ranging method has no case of its own and leaves its value empty.
ConfigurationValue(tag, value) ==
    CASE tag = "RangingMethod" -> << >>
      [] tag \in Addresses -> value
      [] tag = "ResultReportConfig" -> <<Bits(value)>>
      [] tag \in Integers16 -> GetBytesBigEndianFromBitMap(value, 2)
      [] tag \in Integers32 -> GetBytesBigEndianFromBitMap(value, 4)
      [] OTHER -> <<value>>
ToConfigurationObject(configuration) ==
    ObjectOf(<<163>>, ConfigurationTag,
             [t \in DOMAIN configuration |-> ConfigurationValue(t, configuration[t])])

\* Faulty variant: compares an enumerator's number with how many there are.
AcceptsByCount(tag, bytes) ==
    tag \in DOMAIN ConfigurationEnumeration =>
        bytes[1] < Cardinality(DOMAIN ConfigurationEnumeration[tag])
\* The values that the switch sets anything for.
Accepts(tag, bytes) ==
    CASE tag \in DOMAIN ConfigurationEnumeration ->
            bytes[1] \in Range(ConfigurationEnumeration[tag])
      [] tag = "RangingMethod" -> bytes[1] \in RangingMethods
      [] tag = "ResultReportConfig" -> Reports(bytes[1]) # {}
      [] tag = "ControllerMacAddress" -> Len(bytes) \in Range(UwbMacAddressLength)
      [] OTHER -> TRUE
\* The integers of several bytes are copied into memory as they are.
DecodedValue(tag, bytes) ==
    CASE tag \in Booleans -> IF bytes[1] # 0 THEN 1 ELSE 0
      [] tag \in Integers16 \cup Integers32 -> FromLittleEndian(bytes)
      [] tag = "ResultReportConfig" -> Reports(bytes[1])
      [] tag = "ControleeShortMacAddress" -> [i \in 1..UwbMacAddressLength.Short |-> bytes[i]]
      [] tag = "ControllerMacAddress" -> [i \in 1..Len(bytes) |-> bytes[i]]
      [] OTHER -> bytes[1]
\* The setters of the 8- and 16-bit integers refer to the builder of the first
\* call in the process: in a later call it may be where the present one is.
FromConfigurationObject(tlv, decodedBefore) ==
    LET found == Found(tlv, ConfigurationTag, Empty)
        accepted == {t \in DOMAIN found : Accepts(t, found[t].value)}
        decoded == [t \in accepted |-> DecodedValue(t, found[t].value)]
    IN  {decoded} \cup
        (IF decodedBefore THEN {Restrict(decoded, accepted \ (Integers8 \cup Integers16))} ELSE {})

---------------------------------------------------------------------------
(* StaticRangingInfo, SecureRangingInfo and UwbRegulatoryInformation. *)

StaticTag == Enumeration(<<"VendorId", "StaticStsIv">>, 128)
ToStaticObject(info) ==
    ObjectOf(<<164>>, StaticTag,
             [VendorId |-> GetBytesBigEndianFromBitMap(info.VendorId, 2),
              StaticStsIv |-> info.StaticStsIv])
FromStaticObject(tlv) ==
    LET found == Found(tlv, StaticTag, Empty) IN
    IF DOMAIN found # DOMAIN StaticTag THEN {}
    ELSE {[VendorId |-> ReadSizeTFromBytesBigEndian(found["VendorId"].value),
           StaticStsIv |-> SubSeq(found["StaticStsIv"].value, 1,
                                  StaticStsInitializationVectorLength)]}

SecureTag == Enumeration(
    <<"UwbSessionKeyInfo", "ResponderSpecificSubSessionKeyInfo", "SusAdditionalParameters">>, 128)
ToSecureObject(info) == ObjectOf(<<165>>, SecureTag, info)
\* Faulty variant: skips empty values, as the other decoders do.
FromSecureObjectSkipping(tlv) ==
    LET found == Found(tlv, SecureTag, Empty) IN
    IF DOMAIN found # DOMAIN SecureTag THEN {} ELSE {[t \in DOMAIN found |-> found[t].value]}
\* An empty value is a value here.
FromSecureObject(tlv) ==
    LET found == Found(tlv, SecureTag, Kept) IN
    IF DOMAIN found # DOMAIN SecureTag THEN {} ELSE {[t \in DOMAIN found |-> found[t].value]}

RegulatoryTag ==
    Over(Enumeration(<<"InformationSource", "OutdoorPermitted", "CountryCode", "Timestamp">>, 128),
         Enumeration(<<"Channel5", "Channel6", "Channel8", "Channel9", "Channel10", "Channel12",
                       "Channel13", "Channel14">>, 134))
InformationSource == Enumeration(<<"UserDefined", "Satellite", "Cellular", "OtherFiraDevice">>, 0)
RegulatoryWidth(tag) == CASE tag = "CountryCode" -> 2 [] tag = "Timestamp" -> 4 [] OTHER -> 1
ToRegulatoryObject(info) ==
    ObjectOf(<<166>>, RegulatoryTag,
             [t \in DOMAIN RegulatoryTag |->
                GetBytesBigEndianFromBitMap(info[t], RegulatoryWidth(t))])
FromRegulatoryObject(tlv) ==
    LET found == Found(tlv, RegulatoryTag, Empty)
        value(t) == CASE t \in {"CountryCode", "Timestamp"} ->
                            ReadSizeTFromBytesBigEndian(found[t].value)
                      [] t = "OutdoorPermitted" -> IF found[t].value[1] # 0 THEN 1 ELSE 0
                      [] OTHER -> found[t].value[1]
    IN  IF \/ DOMAIN found # DOMAIN RegulatoryTag
           \/ found["InformationSource"].value[1] \notin Range(InformationSource)
        THEN {} ELSE {[t \in DOMAIN found |-> value(t)]}

---------------------------------------------------------------------------
(* UwbSessionData. *)

SessionDataTag ==
    Over(Enumeration(<<"SessionDataVersion", "SessionId", "SubSessionId">>, 128),
    Over([UwbConfigAvailable |-> 135],
         Enumeration(<<"ConfigurationParameters", "StaticRangingInfo", "SecureRangingInfo",
                       "RegulatoryInformation">>, 163)))
Version_1_1 == 257
DefaultSessionData ==
    [SessionDataVersion |-> Version_1_1, SessionId |-> 0, SubSessionId |-> 0,
     ConfigurationParameters |-> << >>, UwbConfigAvailable |-> 0,
     StaticRangingInfo |-> None, SecureRangingInfo |-> None, RegulatoryInformation |-> None]

ToSessionDataObject(data) ==
    LET number(t, width) ==
            <<Primitive(<<SessionDataTag[t]>>, GetBytesBigEndianFromBitMap(data[t], width))>>
        optional(info, ToObject(_)) == IF info = None THEN << >> ELSE <<ToObject(info)>>
    IN  Constructed(<<191, 120>>,
            number("SessionDataVersion", 2) \o number("SessionId", 4) \o number("SubSessionId", 4)
            \o <<ToConfigurationObject(data.ConfigurationParameters)>>
            \o number("UwbConfigAvailable", 1)
            \o optional(data.StaticRangingInfo, ToStaticObject)
            \o optional(data.SecureRangingInfo, ToSecureObject)
            \o optional(data.RegulatoryInformation, ToRegulatoryObject))

SessionDataRequired == {"SessionDataVersion", "SessionId", "SubSessionId", "ConfigurationParameters"}
EmptyPrimitive(tlv) == ~IsConstructed(tlv) /\ Empty(tlv)
\* An exception of one of the parts is one of the whole.
FromSessionDataObject(tlv, decodedBefore) ==
    LET found == Found(tlv, SessionDataTag, EmptyPrimitive)
        number(t) == ReadSizeTFromBytesBigEndian(found[t].value)
        part(t, contents) == IF t \in DOMAIN found THEN contents ELSE {None}
        available == "UwbConfigAvailable" \in DOMAIN found /\ number("UwbConfigAvailable") # 0
    IN  IF ~(SessionDataRequired \subseteq DOMAIN found) THEN {}
        ELSE {[SessionDataVersion |-> number("SessionDataVersion"),
               SessionId |-> number("SessionId"), SubSessionId |-> number("SubSessionId"),
               ConfigurationParameters |-> configuration,
               UwbConfigAvailable |-> IF available THEN 1 ELSE 0,
               StaticRangingInfo |-> static, SecureRangingInfo |-> secure,
               RegulatoryInformation |-> regulatory] :
              configuration \in FromConfigurationObject(found["ConfigurationParameters"],
                                                        decodedBefore),
              static \in part("StaticRangingInfo", FromStaticObject(found["StaticRangingInfo"])),
              secure \in part("SecureRangingInfo", FromSecureObject(found["SecureRangingInfo"])),
              regulatory \in part("RegulatoryInformation",
                                   FromRegulatoryObject(found["RegulatoryInformation"]))}

---------------------------------------------------------------------------
(* UwbOobConversions. *)

\* The parameters that are one of the configuration's values, by another name.
Corresponding ==
    [DeviceRole |-> "DeviceRole", StsConfiguration |-> "StsConfig",
     MultiNodeMode |-> "MultiNodeMode", ChannelNumber |-> "ChannelNumber",
     SlotDuration |-> "SlotDuration", RangingInterval |-> "RangingInterval",
     MacFcsType |-> "MacFcsType", RFrameConfiguration |-> "RFrameConfig",
     PreambleCodeIndex |-> "PreambleCodeIndex", RangingTimeStruct |-> "RangingTimeStruct",
     SlotsPerRangingRound |-> "SlotsPerRr", ScheduledMode |-> "ScheduledMode",
     KeyRotationRate |-> "KeyRotationRate", MacAddressMode |-> "MacAddressMode",
     MaxRangingRoundRetry |-> "MaxRrRetry", UwbInitiationTime |-> "UwbInitiationTime"]

\* The values by type for a device of a type.  The mode of the addresses must
\* be known for any address, and a controlee's address is short.
UciValues(configuration, deviceType) ==
    LET has(t) == t \in DOMAIN configuration
        controlee == has("MacAddressMode") /\ has("ControleeShortMacAddress")
                     /\ configuration["MacAddressMode"] = UwbMacAddressType.Short
        controller == has("MacAddressMode") /\ has("ControllerMacAddress")
        own == IF deviceType = DeviceType.Controller THEN "ControllerMacAddress"
               ELSE "ControleeShortMacAddress"
        others == IF deviceType = DeviceType.Controller THEN "ControleeShortMacAddress"
                  ELSE "ControllerMacAddress"
        available(t) == IF t = "ControllerMacAddress" THEN controller ELSE controlee
        generated(t) ==
            CASE t \in DOMAIN Corresponding -> has(Corresponding[t])
              [] t \in {"DeviceType", "PrfMode", "ResultReportConfig"} -> TRUE
              [] t = "HoppingMode" -> has("HoppingMode")
              [] t = "RangingRoundUsage" ->
                    has("RangingMethod") /\ configuration["RangingMethod"] # RangingRoundUsage.Rfu
              [] t = "DeviceMacAddress" -> available(own)
              [] t = "DestinationMacAddresses" -> available(others)
              [] OTHER -> FALSE
        value(t) ==
            CASE t \in DOMAIN Corresponding -> configuration[Corresponding[t]]
              [] t = "DeviceType" -> deviceType
              [] t = "PrfMode" ->
                    IF has("PrfMode") /\ configuration["PrfMode"] = PrfMode.Bprf
                    THEN PrfModeDetailed.Bprf62MHz ELSE PrfModeDetailed.Hprf124MHz
              [] t = "ResultReportConfig" ->
                    IF has("ResultReportConfig") THEN configuration["ResultReportConfig"] ELSE {}
              [] t = "HoppingMode" -> configuration["HoppingMode"]
              [] t = "RangingRoundUsage" -> configuration["RangingMethod"]
              [] t = "DeviceMacAddress" -> configuration[own]
              [] t = "DestinationMacAddresses" -> configuration[others]
    IN  [t \in {u \in ParameterType : generated(u)} |-> value(t)]
\* The interval keeps its 16 bits and the destination is a single address.
GetUciConfigParams(configuration, deviceType) ==
    LET values == UciValues(configuration, deviceType) IN
    [t \in DOMAIN values |->
        [Parameter(t, values[t]) EXCEPT
            !.Alternative = CASE t = "RangingInterval" -> "uint16"
                              [] t = "DestinationMacAddresses" -> "address"
                              [] OTHER -> @]]

\* The addresses of the controller and of the controlee, of which one is the
\* device's own.  The one that was set while the parameters were gone through
\* stays if the controlee's is not short.
DestinationOf(parameters) == CHOOSE a \in parameters["DestinationMacAddresses"].Value : TRUE
AddressOf(parameters, deviceType) ==
    IF parameters["DeviceType"].Value = deviceType
    THEN parameters["DeviceMacAddress"].Value ELSE DestinationOf(parameters)
ControleeAddress(parameters) ==
    LET controlee == AddressOf(parameters, DeviceType.Controlee) IN
    IF Len(controlee) = UwbMacAddressLength.Short THEN controlee ELSE DestinationOf(parameters)

\* The configuration of a driver's parameters.
ReportsOf(parameters) ==
    IF "ResultReportConfig" \in DOMAIN parameters THEN parameters["ResultReportConfig"].Value ELSE {}
DirectValue(t, value) == IF t = "RangingInterval" THEN value % 65536 ELSE value
TagsOf(parameters) ==
    {Corresponding[t] : t \in DOMAIN parameters \cap DOMAIN Corresponding}
    \cup {"ControllerMacAddress"}
    \cup (IF Len(ControleeAddress(parameters)) = UwbMacAddressLength.Short
          THEN {"ControleeShortMacAddress"} ELSE {})
    \cup (IF ReportsOf(parameters) # {} THEN {"ResultReportConfig"} ELSE {})
ValueOf(parameters, tag) ==
    CASE tag = "ControllerMacAddress" -> AddressOf(parameters, DeviceType.Controller)
      [] tag = "ControleeShortMacAddress" -> ControleeAddress(parameters)
      [] tag = "ResultReportConfig" -> ReportsOf(parameters)
      [] OTHER -> LET type == CHOOSE t \in DOMAIN parameters \cap DOMAIN Corresponding :
                                Corresponding[t] = tag
                  IN  DirectValue(type, parameters[type].Value)

\* The session data of a driver's parameters, by type; the parameters are of a
\* configured session and have the device's type and the addresses.  A mode of
\* the pulse repetition is read as a scheduling mode, too, which throws.  Vendor
\* and vector are written to static information that is not there.
GetUwbSessionData(parameters) ==
    IF "PrfMode" \in DOMAIN parameters THEN {}
    ELSE {[DefaultSessionData EXCEPT
            !.SubSessionId = IF "SubSessionId" \in DOMAIN parameters
                             THEN parameters["SubSessionId"].Value ELSE 0,
            !.ConfigurationParameters = [tag \in TagsOf(parameters) |-> ValueOf(parameters, tag)],
            !.UwbConfigAvailable = 1]}
=============================================================================
