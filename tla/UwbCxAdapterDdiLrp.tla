------------------------- MODULE UwbCxAdapterDdiLrp -------------------------
(***************************************************************************)
(* The conversions of windows/devices/uwb/UwbCxAdapterDdiLrp.cxx between   *)
(* the neutral types and the structures of the driver interface.           *)
(*                                                                         *)
(* A structure of fixed layout is the record of its fields; what matters   *)
(* of its bytes is in its sizes.  The array of parameters, whose elements  *)
(* have different lengths, is a sequence of bytes.  A byte read where none *)
(* was written is Unknown.                                                 *)
(***************************************************************************)
EXTENDS DdiEnumerations

Unknown == -1

\* n bytes of memory behind the first `at' ones.
Read(memory, at, n) ==
    [i \in 1..n |-> IF at + i <= Len(memory) THEN memory[at + i] ELSE Unknown]

---------------------------------------------------------------------------
(* flextype_wrapper: a buffer for a structure with an array of any size.   *)

\* Faulty variant: room for the elements alone.
RequiredSizeOfElements(struct, n) == FlexElement(struct) * n
\* from_num_elements: one element is in the structure already.
RequiredSize(struct, n) == SizeOf(struct) + FlexElement(struct) * (n - 1)
\* What is allocated for a total size, and the size of the default value that
\* the constructor assigns.
Allocated(struct, total) == AlignOf(struct) + total
DefaultSize(struct) == SizeOf(struct)

\* A structure in a buffer of its own: its total size, which its size member
\* and the IOCTL repeat, and the end of what is written of it.
Wrapper(struct, total, end, content) ==
    [struct |-> struct, total |-> total, end |-> end, content |-> content]

---------------------------------------------------------------------------
(* Notifications. *)

FromMulticastListStatus(s) ==
    [controleeMacAddress |-> GetValueShort(s.ControleeMacAddress),
     subSessionId |-> s.SubSessionId, status |-> Number("UwbStatusMulticast", s.Status)]
ToMulticastListStatus(w) ==
    [ControleeMacAddress |-> <<w.controleeMacAddress % 256, w.controleeMacAddress \div 256>>,
     SubSessionId |-> w.subSessionId, Status |-> Name("UwbStatusMulticast", w.status)]

FromMulticastListEntry(e) ==
    [shortAddress |-> GetValueShort(e.ControleeMacAddress), subSessionId |-> e.SubSessionId]
ToMulticastListEntry(w) ==
    [ControleeMacAddress |-> <<w.shortAddress % 256, w.shortAddress \div 256>>,
     SubSessionId |-> w.subSessionId]

\* A list of short addresses, with as many elements as it has controlees.
FromMulticastList(m) ==
    LET struct == UWB_SESSION_UPDATE_CONTROLLER_MULTICAST_LIST
        n == Len(m.Controlees)
    IN  Wrapper(struct, RequiredSize(struct, n), FlexOffset(struct) + n * FlexElement(struct),
            [sessionId |-> m.SessionId, action |-> Number("UwbMulticastAction", m.Action),
             numberOfControlees |-> n,
             controleeList |-> [i \in 1..n |-> FromMulticastListEntry(m.Controlees[i])]])
ToMulticastList(w) ==
    [SessionId |-> w.sessionId, Action |-> Name("UwbMulticastAction", w.action),
     Controlees |-> [i \in 1..w.numberOfControlees |->
                        ToMulticastListEntry(w.controleeList[i])]]

FromMulticastListNotification(m) ==
    LET struct == UWB_SESSION_UPDATE_CONTROLLER_MULTICAST_LIST_NTF
        n == Len(m.Status)
    IN  Wrapper(struct, RequiredSize(struct, n), FlexOffset(struct) + n * FlexElement(struct),
            [sessionId |-> m.SessionId, numberOfControlees |-> n,
             remainingMulticastListSize |-> 0,
             statusList |-> [i \in 1..n |-> FromMulticastListStatus(m.Status[i])]])
ToMulticastListNotification(w) ==
    [SessionId |-> w.sessionId,
     Status |-> [i \in 1..w.numberOfControlees |-> ToMulticastListStatus(w.statusList[i])]]

\* Without a reason, the member keeps its zero.
FromSessionStatus(s) ==
    [sessionId |-> s.SessionId, state |-> Number("UwbSessionState", s.State),
     reasonCode |-> IF s.ReasonCode = None THEN 0
                    ELSE Number("UwbSessionReasonCode", s.ReasonCode)]
ToSessionStatus(w) ==
    [SessionId |-> w.sessionId, State |-> Name("UwbSessionState", w.state),
     ReasonCode |-> Name("UwbSessionReasonCode", w.reasonCode)]

FromStatusDeviceMessage(s) == [deviceState |-> Number("UwbDeviceState", s.State)]
ToStatusDeviceMessage(w) == [State |-> To(ToStatusDevice, UWB_DEVICE_STATE, w.deviceState)]

\* The union is as long as the longer form, of which a short address fills a part.
FromMacAddress(address) ==
    [addressType |-> Number("UwbMacAddressType", GetType(address)),
     address |-> address \o [i \in 1..UwbMacAddressLength.Extended - Len(address) |-> 0]]
\* Faulty variant: the whole union.
ToMacAddressWhole(w) == w.address
ToMacAddress(w) ==
    SubSeq(w.address, 1, UwbMacAddressLength[Name("UwbMacAddressType", w.addressType)])

Angle == {"AoAAzimuth", "AoAElevation", "AoaDestinationAzimuth", "AoaDestinationElevation"}
\* A figure of merit of 0 stands for none.
FromRangingMeasurement(m) ==
    [macAddrPeer |-> FromMacAddress(m.PeerMacAddress), status |-> FromUwbStatus(m.Status),
     lineOfSightIndicator |-> Number("UwbLineOfSightIndicator", m.LineOfSightIndicator),
     distance |-> m.Distance, slotIndex |-> m.SlotIndex,
     aoa |-> [a \in Angle |-> m.AoA[a].Result],
     figureOfMerit |-> [a \in Angle |-> IF m.AoA[a].FigureOfMerit = None THEN 0
                                        ELSE m.AoA[a].FigureOfMerit]]
ToRangingMeasurement(w) ==
    [PeerMacAddress |-> ToMacAddress(w.macAddrPeer), Status |-> ToUwbStatus(w.status),
     LineOfSightIndicator |-> Name("UwbLineOfSightIndicator", w.lineOfSightIndicator),
     Distance |-> w.distance, SlotIndex |-> w.slotIndex,
     AoA |-> [a \in Angle |->
                [Result |-> w.aoa[a],
                 FigureOfMerit |-> IF w.figureOfMerit[a] = 0 THEN None ELSE w.figureOfMerit[a]]]]

FromRangingData(d) ==
    LET struct == UWB_RANGING_DATA
        n == Len(d.RangingMeasurements)
    IN  Wrapper(struct, RequiredSize(struct, n), FlexOffset(struct) + n * FlexElement(struct),
            [sequenceNumber |-> d.SequenceNumber, sessionId |-> d.SessionId,
             currentRangingInterval |-> d.CurrentRangingInterval,
             rangingMeasurementType |->
                Number("UwbRangingMeasurementType", d.RangingMeasurementType),
             numberOfRangingMeasurements |-> n,
             rangingMeasurements |->
                [i \in 1..n |-> FromRangingMeasurement(d.RangingMeasurements[i])]])
ToRangingData(w) ==
    [SequenceNumber |-> w.sequenceNumber, SessionId |-> w.sessionId,
     CurrentRangingInterval |-> w.currentRangingInterval,
     RangingMeasurementType |-> Name("UwbRangingMeasurementType", w.rangingMeasurementType),
     RangingMeasurements |-> [i \in 1..w.numberOfRangingMeasurements |->
                                ToRangingMeasurement(w.rangingMeasurements[i])]]

\* A variant of the five.  The size is that of the whole structure, with its
\* longest alternative, and of the alternative once more.
FromNotificationData(alternative, value) ==
    LET struct == UWB_NOTIFICATION_DATA
        \* The structures of fixed size are assigned, the others copied.
        fixed(type, size, content) ==
            Wrapper(struct, SizeOf(struct) + size, OffsetOf(struct, 3) + size,
                    [notificationType |-> UWB_NOTIFICATION_TYPE[type], union |-> content])
        copied(type, w) ==
            Wrapper(struct, SizeOf(struct) + w.total, OffsetOf(struct, 3) + w.total,
                    [notificationType |-> UWB_NOTIFICATION_TYPE[type], union |-> w.content])
    IN  CASE alternative = "UwbStatus" ->
                fixed("GENERIC_ERROR", u32.size, [status |-> FromUwbStatus(value.Status)])
          [] alternative = "UwbStatusDevice" ->
                fixed("DEVICE_STATUS", SizeOf(UWB_DEVICE_STATUS), FromStatusDeviceMessage(value))
          [] alternative = "UwbSessionStatus" ->
                fixed("SESSION_STATUS", SizeOf(UWB_SESSION_STATUS), FromSessionStatus(value))
          [] alternative = "UwbSessionUpdateMulticastListStatus" ->
                copied("SESSION_UPDATE_CONTROLLER_MULTICAST_LIST",
                       FromMulticastListNotification(value))
          [] alternative = "UwbRangingData" -> copied("RANGING_DATA", FromRangingData(value))

ToNotificationData(w) ==
    LET type == NameOf(UWB_NOTIFICATION_TYPE, w.notificationType) IN
    CASE type = "DEVICE_STATUS" -> ToStatusDeviceMessage(w.union)
      [] type = "GENERIC_ERROR" -> [Status |-> ToUwbStatus(w.union.status)]
      [] type = "SESSION_STATUS" -> ToSessionStatus(w.union)
      [] type = "SESSION_UPDATE_CONTROLLER_MULTICAST_LIST" -> ToMulticastListNotification(w.union)
      [] type = "RANGING_DATA" -> ToRangingData(w.union)

---------------------------------------------------------------------------
(* The device's information. *)

\* The minor and the maintenance number are written into one byte, unshifted.
FromUwbVersion(v) == [major |-> v.Major, minorAndMaintenance |-> BitOr(v.Minor, v.Maintenance)]
Versions == {"VersionUci", "VersionUciTest", "VersionMac", "VersionPhy"}

\* The vendor's bytes, or None.
FromDeviceInformation(d) ==
    LET struct == UWB_DEVICE_INFO
        vendor == IF d.VendorSpecificInfo = None THEN << >> ELSE d.VendorSpecificInfo
        elements == IF d.VendorSpecificInfo = None THEN 1 ELSE Len(vendor)
    IN  Wrapper(struct, RequiredSize(struct, elements), FlexOffset(struct) + Len(vendor),
            [status |-> FromUwbStatus(d.Status),
             versions |-> [v \in Versions |-> FromUwbVersion(d.Version[v])],
             vendorSpecificInfoLength |-> Len(vendor), vendorSpecificInfo |-> vendor])
ToDeviceInformation(w) ==
    [Version |-> [v \in Versions |->
                    FromUci(w.versions[v].major, w.versions[v].minorAndMaintenance)],
     Status |-> ToUwbStatus(w.status),
     VendorSpecificInfo |-> IF w.vendorSpecificInfoLength > 0
                            THEN w.vendorSpecificInfo ELSE None]

---------------------------------------------------------------------------
(* Application configuration parameters. *)

ParamHeader == FlexOffset(UWB_APP_CONFIG_PARAM)
KindOf(t) == UwbApplicationConfigurationParameterValue[t]

\* The bytes of a value, by the alternative that holds it.  A set is written in
\* the order of its hash table.
ParamValue(p) ==
    CASE p.Alternative = "addresses" -> FlattenSeq(SetToSeq(p.Value))
      [] p.Alternative \in {"address", "vector"} -> p.Value
      [] p.Alternative = "reports" -> <<Bits(p.Value)>>
      [] OTHER -> LittleEndian(p.Value, AlternativeBytes(p.Alternative, p.Type))

FromParameter(p) ==
    LittleEndian(ParamHeader + Len(ParamValue(p)), 4)
    \o LittleEndian(FromUwbParameterType(p.Type), 4)
    \o LittleEndian(Len(ParamValue(p)), 4) \o ParamValue(p)

\* Each parameter follows the one before it, at its size.
FromParameterArray(struct, parameters, header) ==
    LET array == FlattenSeq([i \in DOMAIN parameters |-> FromParameter(parameters[i])])
        total == FlexOffset(struct) + Len(array)
    IN  Wrapper(struct, total, total,
            [header |-> header, appConfigParamsCount |-> Len(parameters),
             appConfigParams |-> array])

FromSetParameters(r) ==
    FromParameterArray(UWB_SET_APP_CONFIG_PARAMS, r.Parameters, [sessionId |-> r.SessionId])
FromParameters(parameters) ==
    FromParameterArray(UWB_APP_CONFIG_PARAMS, parameters, [status |-> UWB_STATUS.OK])

\* The parameter at a place of the array, with all memory behind it.
ParamAt(array, at) ==
    [size |-> FromLittleEndian(Read(array, at, 4)),
     paramType |-> FromLittleEndian(Read(array, at + 4, 4)),
     paramLength |-> FromLittleEndian(Read(array, at + 8, 4)),
     paramValue |-> SubSeq(array, at + ParamHeader + 1, Len(array))]
\* A copy of the structure has what fits into it of the value.
CopyOf(param) ==
    [param EXCEPT !.paramValue = Read(@, 0, SizeOf(UWB_APP_CONFIG_PARAM) - ParamHeader)]

\* ConvertUwbApplicationConfigurationParameterTo
ToScalar(param, t) ==
    LET bytes == Read(param.paramValue, 0, AlternativeBytes(KindOf(t), t))
    IN  IF Unknown \in Range(bytes) THEN Unknown ELSE FromLittleEndian(bytes)
ToParameter(param) ==
    LET t == ToUwbParameterType(param.paramType) IN
    Parameter(t,
        CASE KindOf(t) = "address" -> Read(param.paramValue, 0, param.paramLength)
          [] KindOf(t) = "vector" ->
                Read(param.paramValue, 0, StaticStsInitializationVectorLength)
          [] KindOf(t) = "reports" -> Reports(param.paramValue[1])
          [] OTHER -> ToScalar(param, t))

\* As many addresses of the mode's length as the length has room for.
ToDestinationAddresses(param, mode) ==
    LET length == IF mode = UwbMacAddressType.Short THEN UwbMacAddressLength.Short
                  ELSE UwbMacAddressLength.Extended
    IN  Parameter("DestinationMacAddresses",
            {Read(param.paramValue, (i - 1) * length, length) :
                i \in 1..(param.paramLength \div length)})

\* The distance from one parameter to the next: its size.
Step(array, at) == FromLittleEndian(Read(array, at, 4))
\* The parameters of an array, each behind the one before it.
ParamsIn(array, count) ==
    LET place[i \in 1..count] ==
            IF i = 1 THEN 0 ELSE LET before == place[i - 1] IN before + Step(array, before)
    IN  [i \in 1..count |-> ParamAt(array, place[i])]

\* The parameters, the destination addresses last: a copy of them is set aside
\* until the mode of all addresses is known, which is short if it did not come
\* with them.
ToParameterArray(w, keepsMode) ==
    LET params == ParamsIn(w.appConfigParams, w.appConfigParamsCount)
        number == [t \in {"MacAddressMode", "DestinationMacAddresses"} |->
                      FromUwbParameterType(t)]
        ofType(t) == Those(params, LAMBDA p : p.paramType = number[t])
        others == Those(params, LAMBDA p :
                    /\ p.paramType # number["DestinationMacAddresses"]
                    /\ keepsMode \/ p.paramType # number["MacAddressMode"])
        modes == ofType("MacAddressMode")
        mode == IF modes = << >> THEN UwbMacAddressType.Short
                ELSE ToParameter(Last(modes)).Value
        destinations == ofType("DestinationMacAddresses")
    IN  [i \in DOMAIN others |-> ToParameter(others[i])]
        \o (IF destinations = << >> THEN << >>
            ELSE <<ToDestinationAddresses(CopyOf(Last(destinations)), mode)>>)

\* The request loses the mode, the answer keeps it.
ToSetParameters(w) == [SessionId |-> w.header.sessionId, Parameters |-> ToParameterArray(w, FALSE)]
ToParameters(w) == ToParameterArray(w, TRUE)

FromGetParameters(r) ==
    LET struct == UWB_GET_APP_CONFIG_PARAMS
        n == Len(r.ParameterTypes)
        total == FlexOffset(struct) + n * FlexElement(struct)
    IN  Wrapper(struct, total, total,
            [sessionId |-> r.SessionId, appConfigParamsCount |-> n,
             appConfigParams |-> [i \in 1..n |-> FromUwbParameterType(r.ParameterTypes[i])]])
ToGetParameters(w) ==
    [SessionId |-> w.sessionId,
     ParameterTypes |-> [i \in 1..w.appConfigParamsCount |->
                            ToUwbParameterType(w.appConfigParams[i])]]

FromParameterStatus(s) ==
    [paramType |-> FromUwbParameterType(s.ParameterType), status |-> FromUwbStatus(s.Status)]
ToParameterStatus(w) ==
    [Status |-> ToUwbStatus(w.status), ParameterType |-> ToUwbParameterType(w.paramType)]
FromSetParametersStatus(s) ==
    LET struct == UWB_SET_APP_CONFIG_PARAMS_STATUS
        n == Len(s.ParameterStatuses)
    IN  Wrapper(struct, RequiredSize(struct, n), FlexOffset(struct) + n * FlexElement(struct),
            [status |-> FromUwbStatus(s.Status), appConfigParamsCount |-> n,
             appConfigParamsStatus |-> [i \in 1..n |-> FromParameterStatus(s.ParameterStatuses[i])]])
ToSetParametersStatus(w) ==
    [Status |-> ToUwbStatus(w.status),
     ParameterStatuses |-> [i \in 1..w.appConfigParamsCount |->
                                ToParameterStatus(w.appConfigParamsStatus[i])]]
=============================================================================
