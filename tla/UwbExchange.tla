----------------------------- MODULE UwbExchange -----------------------------
(***************************************************************************)
(* Two hosts, each with a driver, that agree on a session: what passes     *)
(* between a host and its driver through the conversions of                *)
(* UwbCxAdapterDdiLrp, and what passes from one host to the other as an    *)
(* out-of-band object.                                                     *)
(*                                                                         *)
(* One host configures a session (UwbSession::ConfigureImpl), reads the    *)
(* parameters back and makes an object of them (GetOobDataObjectImpl); the *)
(* other parses the object and configures its own driver from it.  The     *)
(* link may end early.                                                     *)
(***************************************************************************)
EXTENDS UwbCapability, UwbCxAdapterDdiLrp

CONSTANTS Host,             \* the two hosts
          Messages,         \* by kind: what is sent through the driver interface
          Configurations,   \* sequence of sequences of parameters
          SessionData,      \* sequence of session data that an application sends
          Capabilities,     \* sequence of capabilities, as drivers report them
          SessionIds,       \* the identifiers of sessions
          Ends,             \* after how many bytes the link may end early
          MaxObjects        \* how many objects are sent

VARIABLES driver,     \* the parameters that each driver has of the session, by type
          transfer,   \* the last passage of the driver interface, or None
          object,     \* the object on the link, or None
          decoded,    \* by host: what it made of the last object, or None
          before,     \* by host: whether the process has decoded a configuration
          objects,    \* how many objects have been sent
          joined      \* by host: the object that it was configured from, or None

vars == <<driver, transfer, object, decoded, before, objects, joined>>

---------------------------------------------------------------------------
(* What the types of the code hold. *)

\* A number that its bytes have room for.
WithinBytes(n, bytes) ==
    /\ n \in Nat
    /\ IF bytes = 1 THEN n < 256 ELSE IF bytes = 2 THEN n < 65536 ELSE n \div 65536 < 65536
Byte == 0..255
ShortAddress == [1..UwbMacAddressLength.Short -> Byte]
Address == ShortAddress \cup [1..UwbMacAddressLength.Extended -> Byte]

\* A parameter with the alternative of its type in its variant.
Typed(p) ==
    /\ p.Type \in ParameterType
    /\ p = Parameter(p.Type, p.Value)
    /\ p.Alternative = "addresses" => IsFiniteSet(p.Value) /\ p.Value \subseteq Address
    /\ p.Alternative = "address" => p.Value \in Address
    /\ p.Alternative = "vector" =>
          p.Value \in [1..StaticStsInitializationVectorLength -> Byte]
    /\ p.Alternative = "reports" => p.Value \subseteq DOMAIN ResultReportConfiguration
    /\ p.Alternative \notin {"addresses", "address", "vector", "reports"} =>
          WithinBytes(p.Value, AlternativeBytes(p.Alternative, p.Type))
\* A list of parameters, whose sizes the structures have room for.
IsParameters(parameters) ==
    /\ Len(parameters) \in Nat
    /\ DOMAIN parameters = 1..Len(parameters)
    /\ \A i \in DOMAIN parameters :
         Typed(parameters[i]) /\ WithinBytes(ParamHeader + Len(ParamValue(parameters[i])), 4)

\* What an application configures a session with: enumerators as values of
\* enumerations, the device's type and the addresses, of which one at least is as
\* long as the mode says.
IsForSession(parameters) ==
    /\ \A i \in DOMAIN parameters :
         parameters[i].Alternative = "enum" =>
            parameters[i].Value \in Range(ParameterEnumeration[parameters[i].Type])
    /\ \A t \in {"DeviceType", "DeviceMacAddress", "DestinationMacAddresses"} :
         \E i \in DOMAIN parameters : parameters[i].Type = t
    /\ \A i \in DOMAIN parameters :
         parameters[i].Type = "DestinationMacAddresses" =>
            /\ parameters[i].Value # {}
            /\ \A j \in DOMAIN parameters :
                 /\ parameters[j].Type = "MacAddressMode"
                 /\ parameters[j].Value # UwbMacAddressType.Short
                 => \E a \in parameters[i].Value : Len(a) = UwbMacAddressLength.Extended

\* The other messages.  (A device is never reported to be uninitialized, for which
\* the driver interface has no number.)
Message ==
    [GetParameters |-> [SessionId : Nat, ParameterTypes : Seq(ParameterType)],
     ParameterStatuses |->
        [Status : UwbStatus,
         ParameterStatuses : Seq([Status : UwbStatus, ParameterType : ParameterType])],
     MulticastList |->
        [SessionId : Nat, Action : UwbMulticastAction,
         Controlees : Seq([ControleeMacAddress : ShortAddress, SubSessionId : Nat])],
     DeviceInformation |->
        [Version : [Versions -> [Major : Byte, Minor : Byte, Maintenance : Byte]],
         Status : UwbStatus, VendorSpecificInfo : {None} \cup Seq(Byte)],
     UwbStatus |-> [Status : UwbStatus],
     UwbStatusDevice |-> [State : UwbDeviceState \ {"Uninitialized"}],
     UwbSessionStatus |->
        [SessionId : Nat, State : UwbSessionState, ReasonCode : {None} \cup UwbSessionReasonCode],
     UwbSessionUpdateMulticastListStatus |->
        [SessionId : Nat,
         Status : Seq([ControleeMacAddress : ShortAddress, SubSessionId : Nat,
                       Status : UwbStatusMulticast])],
     UwbRangingData |->
        [SequenceNumber : Nat, SessionId : Nat, CurrentRangingInterval : Nat,
         RangingMeasurementType : UwbRangingMeasurementType,
         RangingMeasurements :
            Seq([PeerMacAddress : Address, Status : UwbStatus,
                 LineOfSightIndicator : UwbLineOfSightIndicator, Distance : Nat, SlotIndex : Nat,
                 AoA : [Angle -> [Result : Nat, FigureOfMerit : {None} \cup Nat]]])]]
IsMessage(kind, m) ==
    CASE kind = "SetParameters" ->
            m = [SessionId |-> m.SessionId, Parameters |-> m.Parameters] /\ IsParameters(m.Parameters)
      [] kind = "Parameters" -> IsParameters(m)
      [] OTHER -> kind \in DOMAIN Message /\ m \in Message[kind]

\* What a configuration has for a tag, with addresses of given bytes.
IsValue(t, value, bytes) ==
    /\ t \in DOMAIN ConfigurationEnumeration => value \in Range(ConfigurationEnumeration[t])
    /\ t \in Booleans => value \in {0, 1}
    /\ t \in Integers8 => value \in Byte
    /\ t \in Integers16 => WithinBytes(value, 2)
    /\ t \in Integers32 => WithinBytes(value, 4)
    /\ t \in Addresses =>
         \/ value \in [1..UwbMacAddressLength.Short -> bytes]
         \/ t = "ControllerMacAddress" /\ value \in [1..UwbMacAddressLength.Extended -> bytes]
    /\ t = "ResultReportConfig" => value \subseteq DOMAIN ResultReportConfiguration
IsConfiguration(c, bytes) ==
    /\ c = [t \in DOMAIN c |-> c[t]]
    /\ DOMAIN c \subseteq DOMAIN ConfigurationTag
    /\ \A t \in DOMAIN c : IsValue(t, c[t], bytes)

\* What session data holds.
IsStatic(info) ==
    /\ info = [VendorId |-> info.VendorId, StaticStsIv |-> info.StaticStsIv]
    /\ WithinBytes(info.VendorId, 2)
    /\ info.StaticStsIv \in [1..StaticStsInitializationVectorLength -> Byte]
IsSecure(info) ==
    /\ info \in [DOMAIN SecureTag -> Seq(Byte)]
    /\ \A t \in DOMAIN SecureTag : WithinBytes(Len(info[t]), 2)
IsRegulatory(info) ==
    /\ info = [t \in DOMAIN RegulatoryTag |-> info[t]]
    /\ \A t \in DOMAIN RegulatoryTag : WithinBytes(info[t], RegulatoryWidth(t))
    /\ info["InformationSource"] \in Range(InformationSource)
    /\ info["OutdoorPermitted"] \in {0, 1}
IsSessionData(d, bytes) ==
    /\ d = [SessionDataVersion |-> d.SessionDataVersion, SessionId |-> d.SessionId,
            SubSessionId |-> d.SubSessionId, ConfigurationParameters |-> d.ConfigurationParameters,
            UwbConfigAvailable |-> d.UwbConfigAvailable, StaticRangingInfo |-> d.StaticRangingInfo,
            SecureRangingInfo |-> d.SecureRangingInfo,
            RegulatoryInformation |-> d.RegulatoryInformation]
    /\ WithinBytes(d.SessionDataVersion, 2)
    /\ WithinBytes(d.SessionId, 4) /\ WithinBytes(d.SubSessionId, 4)
    /\ IsConfiguration(d.ConfigurationParameters, bytes)
    /\ d.UwbConfigAvailable \in {0, 1}
    /\ d.StaticRangingInfo # None => IsStatic(d.StaticRangingInfo)
    /\ d.SecureRangingInfo # None => IsSecure(d.SecureRangingInfo)
    /\ d.RegulatoryInformation # None => IsRegulatory(d.RegulatoryInformation)

\* What a capability holds: of each set of values, some; numbers, and 0 or 1.
IsCapability(c) ==
    /\ c = [t \in DOMAIN DefaultCapability |-> c[t]]
    /\ \A t \in DOMAIN Bit : c[t] \subseteq DOMAIN Bit[t]
    /\ \A t \in DOMAIN DefaultCapability \ DOMAIN Bit :
         IF CapabilityWidth(t) = 4 THEN WithinBytes(c[t], 4) ELSE c[t] \in {0, 1}
\* What a driver reports.
IsReport(reported) ==
    /\ Len(reported) \in Nat
    /\ DOMAIN reported = 1..Len(reported)
    /\ \A i \in DOMAIN reported : WithinBytes(reported[i].value, 4)

ASSUME MessagesAssumption ==
    \A kind \in DOMAIN Messages : \A i \in DOMAIN Messages[kind] : IsMessage(kind, Messages[kind][i])
ASSUME ConfigurationsAssumption ==
    \A i \in DOMAIN Configurations :
        IsParameters(Configurations[i]) /\ IsForSession(Configurations[i])
ASSUME SessionIdsAssumption == \A id \in SessionIds : WithinBytes(id, 4)
ASSUME EndsAssumption == Ends \subseteq Nat
ASSUME SessionDataAssumption ==
    \A i \in DOMAIN SessionData : IsSessionData(SessionData[i], Byte)
ASSUME CapabilitiesAssumption ==
    \A i \in DOMAIN Capabilities : IsReport(Capabilities[i])

---------------------------------------------------------------------------
(* The driver interface. *)

\* The conversions of each kind of message.
Encode(kind, m) ==
    CASE kind = "SetParameters" -> FromSetParameters(m)
      [] kind = "GetParameters" -> FromGetParameters(m)
      [] kind = "Parameters" -> FromParameters(m)
      [] kind = "ParameterStatuses" -> FromSetParametersStatus(m)
      [] kind = "MulticastList" -> FromMulticastList(m)
      [] kind = "DeviceInformation" -> FromDeviceInformation(m)
      [] OTHER -> FromNotificationData(kind, m)
Decode(kind, w) ==
    CASE kind = "SetParameters" -> ToSetParameters(w)
      [] kind = "GetParameters" -> ToGetParameters(w)
      [] kind = "Parameters" -> ToParameters(w)
      [] kind = "ParameterStatuses" -> ToSetParametersStatus(w)
      [] kind = "MulticastList" -> ToMulticastList(w)
      [] kind = "DeviceInformation" -> ToDeviceInformation(w)
      [] OTHER -> ToNotificationData(w)

\* A message, the buffer it was sent in and what was made of it.
Transfer(kind, m) ==
    LET wrapper == Encode(kind, m) IN
    [kind |-> kind, sent |-> m, received |-> Decode(kind, wrapper.content),
     struct |-> wrapper.struct, total |-> wrapper.total, end |-> wrapper.end]

\* An object on the link: what it stands for, whether it is of the sender's
\* session and whether all of its bytes are there.
Object(kind, h, ofSession, content, tlv) ==
    [kind |-> kind, from |-> h, ofSession |-> ofSession, whole |-> TRUE, content |-> content,
     bytes |-> ToBytes(tlv)]

\* The driver's set of parameters, of which there is one of a type.
ByType(parameters) ==
    [t \in {parameters[i].Type : i \in DOMAIN parameters} |->
        parameters[CHOOSE i \in DOMAIN parameters :
            parameters[i].Type = t
            /\ \A j \in DOMAIN parameters : parameters[j].Type = t => j <= i]]
InTypeOrder(byType) ==
    LET types == InOrder(DOMAIN byType, UwbApplicationConfigurationParameterType) IN
    [i \in DOMAIN types |-> byType[types[i]]]

\* What a driver has after a request to set parameters, and what a host has read
\* of them when it asks for all.
AfterSet(byType, t) == Over(ByType(t.received.Parameters), byType)
ReadBack(h) == Transfer("Parameters", InTypeOrder(driver[h]))

---------------------------------------------------------------------------
Init ==
    /\ driver = [h \in Host |-> << >>]
    /\ transfer = None
    /\ object = None
    /\ decoded = [h \in Host |-> None]
    /\ before = [h \in Host |-> FALSE]
    /\ objects = 0
    /\ joined = [h \in Host |-> None]

\* A message of any kind passes a driver interface.  (The messages that have no
\* part in what follows pass before it begins.)
Pass(kind, i) ==
    /\ \A h \in Host : driver[h] = << >>
    /\ objects = 0
    /\ transfer' = Transfer(kind, Messages[kind][i])
    /\ UNCHANGED <<driver, object, decoded, before, objects, joined>>

\* UwbSession::ConfigureImpl, which takes an idle session.
Configure(h, id, i) ==
    LET t == Transfer("SetParameters", [SessionId |-> id, Parameters |-> Configurations[i]]) IN
    /\ driver[h] = << >>
    /\ transfer' = t
    /\ driver' = [driver EXCEPT ![h] = AfterSet(@, t)]
    /\ UNCHANGED <<object, decoded, before, objects, joined>>

\* The link takes one object at a time.
Send == object = None /\ objects < MaxObjects /\ objects' = objects + 1

\* UwbSession::GetOobDataObjectImpl, of a session configured by the host itself.
GetOobDataObject(h, id) ==
    /\ driver[h] # << >>
    /\ joined[h] = None
    /\ Send
    /\ transfer' = ReadBack(h)
    /\ \E data \in GetUwbSessionData(ByType(transfer'.received)) :
         LET named == [data EXCEPT !.SessionId = id] IN
         object' = Object("SessionData", h, TRUE, named, ToSessionDataObject(named))
    /\ UNCHANGED <<driver, decoded, before, joined>>

\* An application sends session data of its own making.
SendSessionData(h, i) ==
    /\ Send
    /\ object' = Object("SessionData", h, FALSE, SessionData[i],
                        ToSessionDataObject(SessionData[i]))
    /\ transfer' = None
    /\ UNCHANGED <<driver, decoded, before, joined>>

\* A host announces what its driver reports.
SendCapabilities(h, i) ==
    /\ Send
    /\ \E c \in ToCapabilities(Capabilities[i]) :
         object' = Object("Capability", h, FALSE, c, ToOobDataObject(c))
    /\ transfer' = None
    /\ UNCHANGED <<driver, decoded, before, joined>>

\* The link ends after some of the bytes.
EndEarly(n) ==
    /\ object # None
    /\ object.whole
    /\ n < Len(object.bytes)
    /\ object' = [object EXCEPT !.bytes = SubSeq(@, 1, n), !.whole = FALSE, !.content = None]
    /\ UNCHANGED <<driver, transfer, decoded, before, objects, joined>>

\* The other host parses the object and decodes it.
Receive(h) ==
    LET parsed == Parse(object.bytes)
        outcomes == CASE ~parsed.succeeded -> {}
                      [] parsed.succeeded /\ object.kind = "SessionData" ->
                            FromSessionDataObject(parsed.tlv, before[h])
                      [] parsed.succeeded /\ object.kind = "Capability" ->
                            FromOobDataObject(parsed.tlv)
        made(accepted, content) ==
            [object |-> [object EXCEPT !.bytes = << >>], first |-> ~before[h],
             accepted |-> accepted, content |-> content]
    IN  /\ object # None
        /\ object.from # h
        /\ \/ \E content \in outcomes : decoded' = [decoded EXCEPT ![h] = made(TRUE, content)]
           \/ outcomes = {} /\ decoded' = [decoded EXCEPT ![h] = made(FALSE, None)]
        /\ before' = [before EXCEPT ![h] = @ \/ (parsed.succeeded /\ object.kind = "SessionData")]
        /\ object' = None
        /\ transfer' = None
        /\ UNCHANGED <<driver, objects, joined>>

\* It configures its driver from the decoded configuration, as the controlee.
Join(h) ==
    LET data == decoded[h].content
        values == GetUciConfigParams(data.ConfigurationParameters, DeviceType.Controlee)
        t == Transfer("SetParameters",
                [SessionId |-> data.SessionId, Parameters |-> InTypeOrder(values)])
    IN  /\ decoded[h] # None
        /\ decoded[h].accepted
        /\ decoded[h].object.kind = "SessionData"
        /\ driver[h] = << >>
        /\ transfer' = t
        /\ driver' = [driver EXCEPT ![h] = AfterSet(@, t)]
        /\ joined' = [joined EXCEPT ![h] = decoded[h]]
        /\ UNCHANGED <<object, decoded, before, objects>>

Next ==
    \/ \E kind \in DOMAIN Messages : \E i \in DOMAIN Messages[kind] : Pass(kind, i)
    \/ \E h \in Host :
         \/ \E id \in SessionIds :
              \/ \E i \in DOMAIN Configurations : Configure(h, id, i)
              \/ GetOobDataObject(h, id)
         \/ \E i \in DOMAIN SessionData : SendSessionData(h, i)
         \/ \E i \in DOMAIN Capabilities : SendCapabilities(h, i)
         \/ Receive(h)
         \/ Join(h)
    \/ \E n \in Ends : EndEarly(n)

Spec == Init /\ [][Next]_vars
---------------------------------------------------------------------------
(* What the driver interface keeps. *)

\* What a message cannot say on the other side: a figure of merit of 0, that
\* there is no reason, a vendor's information without any byte, the mode of the
\* addresses in a request, and destination addresses that others follow.
Normal(kind, m) ==
    LET arrived(parameters, lost) ==
            LET destinations == Those(parameters, LAMBDA p : p.Type = "DestinationMacAddresses")
            IN  Those(parameters, LAMBDA p : p.Type \notin lost \cup {"DestinationMacAddresses"})
                \o (IF destinations = << >> THEN << >> ELSE <<Last(destinations)>>)
        merit(r) == [r EXCEPT !.AoA =
                        [a \in Angle |-> [r.AoA[a] EXCEPT !.FigureOfMerit = IF @ = 0 THEN None ELSE @]]]
    IN  CASE kind = "SetParameters" -> [m EXCEPT !.Parameters = arrived(@, {"MacAddressMode"})]
          [] kind = "Parameters" -> arrived(m, {})
          [] kind = "UwbSessionStatus" ->
                [m EXCEPT !.ReasonCode =
                    IF @ = None THEN "StateChangeWithSessionManagementCommands" ELSE @]
          [] kind = "UwbRangingData" ->
                [m EXCEPT !.RangingMeasurements = [i \in DOMAIN @ |-> merit(@[i])]]
          [] kind = "DeviceInformation" ->
                [m EXCEPT !.VendorSpecificInfo = IF @ = << >> THEN None ELSE @]
          [] OTHER -> m

\* What the structures have no room for: a value of another type than its
\* parameter's, more than four bytes of destination addresses, or long ones, and a
\* version whose lower half has bits of its own.
Fits(kind, m) ==
    LET fit(parameters) ==
            \A i \in DOMAIN parameters :
               /\ Typed(parameters[i])
               /\ parameters[i].Type = "DestinationMacAddresses" =>
                    /\ \A a \in parameters[i].Value : Len(a) = UwbMacAddressLength.Short
                    /\ Cardinality(parameters[i].Value) <= 2
                    /\ \A j \in DOMAIN parameters :
                         parameters[j].Type = "MacAddressMode" =>
                            parameters[j].Value = UwbMacAddressType.Short
    IN  CASE kind = "SetParameters" -> fit(m.Parameters)
          [] kind = "Parameters" -> fit(m)
          [] kind = "DeviceInformation" ->
                \A v \in Versions : m.Version[v].Minor = 0 /\ m.Version[v].Maintenance < 16
          [] OTHER -> TRUE

\* Every message arrives as it was sent, whatever its kind and the number of its
\* elements: requests, answers and notifications between host and driver.
Stable ==
    transfer # None /\ Fits(transfer.kind, transfer.sent) =>
        transfer.received = Normal(transfer.kind, transfer.sent)

\* How many elements a message puts into its array.
Elements(kind, m) ==
    CASE kind = "SetParameters" -> Len(m.Parameters)
      [] kind = "GetParameters" -> Len(m.ParameterTypes)
      [] kind = "Parameters" -> Len(m)
      [] kind = "ParameterStatuses" -> Len(m.ParameterStatuses)
      [] kind = "MulticastList" -> Len(m.Controlees)
      [] kind = "DeviceInformation" /\ m.VendorSpecificInfo # None -> Len(m.VendorSpecificInfo)
      [] OTHER -> 1

\* No conversion writes past the end of the buffer that the wrapper allocates:
\* neither the elements, of whatever length, nor the default value that the
\* constructor assigns.  (The default value does where an array is empty.)
WritesInside ==
    transfer # None =>
        LET allocated == Allocated(transfer.struct, transfer.total) IN
        /\ transfer.end <= allocated
        /\ Elements(transfer.kind, transfer.sent) > 0 => DefaultSize(transfer.struct) <= allocated

---------------------------------------------------------------------------
(* What the out-of-band exchange keeps. *)

\* What is certain to arrive of a configuration, the first time or later: all but
\* the ranging method, an empty set of reports and the integers of several bytes,
\* whose bytes are in the other order; the integers of one byte only the first time.
Plain(c, first) ==
    LET lost == {"RangingMethod"} \cup Integers16 \cup Integers32
                \cup (IF first THEN {} ELSE Integers8)
    IN  Restrict(c, {t \in DOMAIN c \ lost : t = "ResultReportConfig" => c[t] # {}})

\* An object that ended early is refused, so that no host goes on with a part of
\* a configuration; one of which all bytes are there is accepted, and what a host
\* makes of it is what the other one put into it: capabilities entirely, session data
\* with what is certain of the configuration.
ObjectArrives ==
    \A h \in Host : decoded[h] # None =>
      /\ decoded[h].accepted = decoded[h].object.whole
      /\ decoded[h].object.whole =>
        LET sent == decoded[h].object.content
            got == decoded[h].content
            plain(c) == Plain(c, decoded[h].first)
        IN  /\ decoded[h].object.kind = "Capability" => got = sent
            /\ decoded[h].object.kind = "SessionData" =>
                  [got EXCEPT !.ConfigurationParameters = plain(@)]
                    = [sent EXCEPT !.ConfigurationParameters = plain(@)]

\* The parameters that two devices must have in common to hear each other.
Shared == {"ChannelNumber", "StsConfiguration", "MultiNodeMode", "RFrameConfiguration",
           "MacFcsType", "RangingTimeStruct", "ScheduledMode", "ResultReportConfig"}
SharedIntegers == {"PreambleCodeIndex", "SlotsPerRangingRound", "KeyRotationRate"}

\* A driver that was configured from the object of the other host's session has
\* the same value as that host's driver for all of them, after two passages of
\* the driver interface on one side, one on the other, and the link between.
PeersAgree ==
    \A h \in Host : joined[h] # None /\ joined[h].object.ofSession =>
        LET g == joined[h].object.from
            shared == Shared \cup (IF joined[h].first THEN SharedIntegers ELSE {})
        IN  \A t \in shared \cap DOMAIN driver[g] :
               t \in DOMAIN driver[h] /\ driver[h][t] = driver[g][t]

=============================================================================
