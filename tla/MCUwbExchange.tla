--------------------------- MODULE MCUwbExchange ---------------------------
(***************************************************************************)
(* Messages of every kind, with arrays of none, one and two elements, three *)
(* configurations, and the ends of the ranges of the numbers.              *)
(***************************************************************************)
EXTENDS UwbExchange

Symmetry == Permutations(Host)

S1 == <<1, 2>>
S2 == <<3, 4>>
S3 == <<255, 0>>
X1 == <<1, 2, 3, 4, 5, 6, 7, 8>>
X2 == <<8, 7, 6, 5, 4, 3, 2, 1>>

Parameters(values) ==
    LET types == Reverse(InOrder(DOMAIN values, UwbApplicationConfigurationParameterType)) IN
    [i \in DOMAIN types |-> Parameter(types[i], values[types[i]])]

Basic == [DeviceType |-> 1, DeviceMacAddress |-> S1, DestinationMacAddresses |-> {S2}]
MCConfigurations == <<
    Parameters(Basic @@ [DeviceRole |-> 1, ChannelNumber |-> 9, MultiNodeMode |-> 1,
        StsConfiguration |-> 2, RFrameConfiguration |-> 3, MacFcsType |-> 1,
        RangingTimeStruct |-> 0, ScheduledMode |-> 1, ResultReportConfig |-> {"AoAFoMReport"},
        PreambleCodeIndex |-> 10, SlotsPerRangingRound |-> 255, KeyRotationRate |-> 3,
        MacAddressMode |-> 0, SlotDuration |-> 2400, RangingInterval |-> 70000,
        VendorId |-> 513, StaticStsIv |-> <<1, 2, 3, 4, 5, 6>>, SubSessionId |-> 7,
        HoppingMode |-> 1, RangingRoundUsage |-> 2]),
    Parameters([Basic EXCEPT !.DestinationMacAddresses = {S2, S3}]
        @@ [ChannelNumber |-> 14, ScheduledMode |-> 0, MaxRangingRoundRetry |-> 65535]),
    Parameters([Basic EXCEPT !.DeviceType = 0, !.DeviceMacAddress = X1]
        @@ [ChannelNumber |-> 5, PrfMode |-> 1])
>>

MCSessionData == <<
    [DefaultSessionData EXCEPT !.SessionId = 258, !.UwbConfigAvailable = 1,
        !.ConfigurationParameters =
            [DeviceRole |-> 1, HoppingMode |-> 1, BlockStriding |-> 0, ChannelNumber |-> 12,
             PrfMode |-> 0, MacAddressMode |-> 0, ControleeShortMacAddress |-> S1,
             ControllerMacAddress |-> X1, Sp1PhySetNumber |-> 4, KeyRotationRate |-> 255,
             SlotDuration |-> 1, UwbInitiationTime |-> 100, RangingMethod |-> 2,
             ResultReportConfig |-> {"TofReport", "AoAFoMReport"}],
        !.StaticRangingInfo = [VendorId |-> 513, StaticStsIv |-> <<1, 2, 3, 4, 5, 6>>],
        !.SecureRangingInfo =
            [UwbSessionKeyInfo |-> [i \in 1..130 |-> i], SusAdditionalParameters |-> << >>,
             ResponderSpecificSubSessionKeyInfo |-> <<191>>],
        !.RegulatoryInformation =
            [t \in DOMAIN RegulatoryTag |->
                CASE t = "InformationSource" -> 3 [] t = "OutdoorPermitted" -> 0
                  [] t = "CountryCode" -> 513 [] t = "Timestamp" -> 16909060
                  [] OTHER -> 14]],
    DefaultSessionData
>>

MCCapabilities == <<
    << >>,
    <<[type |-> "PHY_VERSION_RANGE", value |-> 16843009], [type |-> "SCHEDULED_MODE", value |-> 3],
      [type |-> "RANGING_TIME_STRUCT", value |-> 2], [type |-> "RFRAME_CONFIG", value |-> 9],
      [type |-> "AOA_SUPPORT", value |-> 10], [type |-> "HOPPING_MODE", value |-> 2],
      [type |-> "EXTENDED_MAC_ADDRESS", value |-> 128], [type |-> "DEVICE_CLASS", value |-> 1],
      [type |-> "MULTI_NODE_MODE", value |-> 4]>>,
    <<[type |-> "RANGING_METHOD", value |-> 1]>>
>>

Measurement(address, merit) ==
    [PeerMacAddress |-> address, Status |-> "Ok", LineOfSightIndicator |-> "Indeterminant",
     Distance |-> 65535, SlotIndex |-> 255,
     AoA |-> [a \in Angle |-> [Result |-> 1, FigureOfMerit |-> merit]]]
RangingData(measurements) ==
    [SequenceNumber |-> 1, SessionId |-> 2, CurrentRangingInterval |-> 3,
     RangingMeasurementType |-> "TwoWay", RangingMeasurements |-> measurements]
Version(maintenance) == [Major |-> 1, Minor |-> 0, Maintenance |-> maintenance]
Information(vendor) ==
    [Version |-> [v \in Versions |-> Version(IF v = "VersionPhy" THEN 15 ELSE 0)],
     Status |-> "Ok", VendorSpecificInfo |-> vendor]

MCMessages ==
    [SetParameters |-> <<
        [SessionId |-> 1, Parameters |-> << >>],
        [SessionId |-> 1, Parameters |-> MCConfigurations[1]],
        [SessionId |-> 1, Parameters |-> Parameters([DestinationMacAddresses |-> {X1}])],
        [SessionId |-> 1, Parameters |->
            Parameters([MacAddressMode |-> 2, DestinationMacAddresses |-> {X1, X2},
                        StaticStsIv |-> <<1, 2, 3, 4, 5, 6>>])],
        [SessionId |-> 1, Parameters |->
            Parameters([DestinationMacAddresses |-> {S1}, ChannelNumber |-> 9])
            \o Parameters([DestinationMacAddresses |-> {S2, S3}, MacAddressMode |-> 0])]>>,
     GetParameters |-> <<
        [SessionId |-> 1, ParameterTypes |-> << >>],
        [SessionId |-> 1, ParameterTypes |-> <<"StsLength", "DeviceType">>]>>,
     Parameters |-> <<
        << >>, MCConfigurations[1], Parameters([ResultReportConfig |-> {}]),
        Parameters([DeviceMacAddress |-> X2, UwbInitiationTime |-> 16909060])>>,
     ParameterStatuses |-> <<
        [Status |-> "Ok", ParameterStatuses |-> << >>],
        [Status |-> "Ok", ParameterStatuses |->
            <<[Status |-> "Active", ParameterType |-> "StsIndex"],
              [Status |-> "InvalidRange", ParameterType |-> "StsLength"]>>]>>,
     MulticastList |-> <<
        [SessionId |-> 1, Action |-> "AddShortAddress", Controlees |-> << >>],
        [SessionId |-> 1, Action |-> "DeleteShortAddress", Controlees |->
            <<[ControleeMacAddress |-> S1, SubSessionId |-> 1],
              [ControleeMacAddress |-> S3, SubSessionId |-> 2]>>]>>,
     DeviceInformation |-> <<
        Information(None), Information(<< >>), Information(<<1, 2, 3, 4, 5>>),
        [Information(<<1>>) EXCEPT !.Version["VersionMac"] = [Major |-> 1, Minor |-> 1, Maintenance |-> 0]]>>,
     UwbStatus |-> <<[Status |-> "CommandRetry"], [Status |-> "RxMacIeMissing"]>>,
     UwbStatusDevice |-> <<[State |-> "Ready"], [State |-> "Error"]>>,
     UwbSessionStatus |-> <<
        [SessionId |-> 1, State |-> "Idle", ReasonCode |-> None],
        [SessionId |-> 1, State |-> "Deinitialized",
         ReasonCode |-> "ErrorInvalidRFrameConfiguration"]>>,
     UwbSessionUpdateMulticastListStatus |-> <<
        [SessionId |-> 1, Status |-> << >>],
        [SessionId |-> 1, Status |->
            <<[ControleeMacAddress |-> S2, SubSessionId |-> 1, Status |-> "OkUpdate"],
              [ControleeMacAddress |-> S3, SubSessionId |-> 2,
               Status |-> "ErrorSubSessionIdNotFound"]>>]>>,
     UwbRangingData |-> <<
        RangingData(<< >>), RangingData(<<Measurement(S1, None)>>),
        RangingData(<<Measurement(X1, 100), Measurement(S3, 0)>>)>>]
=============================================================================
