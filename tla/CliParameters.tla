--------------------------- MODULE CliParameters ---------------------------
(***************************************************************************)
(* What "nocli driver uwb range start" makes of its options                *)
(* (tools/cli/NearObjectCli.cxx, NearObjectCliData.cxx): addresses are     *)
(* read from text, inconsistent values are complained about in the log and *)
(* sent all the same, and what is set goes to the driver.                  *)
(*                                                                         *)
(* An address as text is [type, address]: its type is "Short", "Extended"  *)
(* or "Malformed".  The text of resultReportConfig is its characters, 0, 1 *)
(* or another number.  Options that nothing is said about are left out.    *)
(***************************************************************************)
EXTENDS Naturals, Sequences, FiniteSets

CONSTANT None       \* of an option that is not given

\* The mode decides how both kinds of addresses are read.
MacAddressType(o) == IF o.macAddressMode = "Extended" THEN "Extended" ELSE "Short"

FromString(text, type) == IF text.type = type THEN text.address ELSE None

\* Faulty: the type is not looked at.
MacAddressesAnyType(texts, type) ==
    IF texts # <<>> THEN {texts[i].address : i \in DOMAIN texts} ELSE None

\* All or nothing; equal addresses become one.
MacAddressesFromString(texts, type) ==
    IF texts # <<>> /\ \A i \in DOMAIN texts : texts[i].type = type
    THEN {FromString(texts[i], type) : i \in DOMAIN texts}
    ELSE None

\* Bits, the last of the text first; text of another form sets nothing, and is
\* complained about only for its length.
ResultReportConfiguration == <<"TofReport", "AoAAzimuthReport", "AoAElevationReport",
                               "AoAFoMReport">>
ResultReports(text) ==
    IF Len(text) = Len(ResultReportConfiguration) /\ \A i \in DOMAIN text : text[i] \in {0, 1}
    THEN {ResultReportConfiguration[Len(text) + 1 - i] :
             i \in {j \in DOMAIN text : text[j] = 1}}
    ELSE None

\* The options once the texts are read.
Parsed(o) ==
    [o EXCEPT !.deviceMacAddress = FromString(@, MacAddressType(o)),
              !.destinationMacAddresses =
                  MacAddressesFromString(@, MacAddressType(o)),
              !.resultReportConfig = ResultReports(@)]

ControleesComplaint(p) ==
    IF p.multiNodeMode = "Unicast" THEN p.numberOfControlees # 1
                                   ELSE p.numberOfControlees < 1

AddressComplaint(p) ==
    \/ p.deviceMacAddress = None
    \/ p.destinationMacAddresses = None
    \/ Cardinality(p.destinationMacAddresses) #
           (IF p.deviceType = "Controller" THEN p.numberOfControlees ELSE 1)

\* The bounds of notifications by proximity cross: the check of the upper
\* one says no more than that of the lower.
ProximityComplaint(p) ==
    /\ p.rangeDataNotificationConfig = "EnableInProximityRange"
    /\ p.rangeDataNotificationProximityNear # None
    /\ p.rangeDataNotificationProximityNear >
           (IF p.rangeDataNotificationProximityFar = None THEN 20000
            ELSE p.rangeDataNotificationProximityFar)

Bprf(p) == p.prfMode \in {None, "Bprf62MHz"}

PrfComplaint(p) ==
    \/ p.preambleCodeIndex \notin {None} \cup (IF Bprf(p) THEN 9..12 ELSE 25..32)
    \/ p.sfdId \notin {None} \cup (IF Bprf(p) THEN {0, 2} ELSE 1..4)

PhrComplaint(p) ==
    p.bprfPhrDataRate \notin
        {None} \cup (IF Bprf(p) THEN {"Rate850kbps", "Rate6Mbps"} ELSE {})

StsComplaint(p) ==
    /\ p.numberOfStsSegments # None
    /\ \/ p.numberOfStsSegments > (IF Bprf(p) THEN 1 ELSE 4)
       \/ p.rFrameConfiguration = "SP0" /\ p.numberOfStsSegments # 0

\* value() of an optional frame configuration that was not given: the
\* exception leaves Parse, which is noexcept.
ValidationThrows(p) == p.numberOfStsSegments # None /\ p.rFrameConfiguration = None

Limits == [responderSlotIndex |-> 1..255, keyRotationRate |-> 0..15,
           sessionPriority |-> 1..100, uwbInitiationTime |-> 0..10000,
           inBandTerminationAttemptCount |-> 0..10]

SubSessionComplaint(p) == /\ p.stsConfiguration = "DynamicWithResponderSubSessionKey"
                          /\ p.subSessionId = None

GetValueMap(p) == [name \in {n \in DOMAIN p : p[n] # None} |-> p[name]]

ProcessApplicationConfigurationParameters(o) == GetValueMap(Parsed(o))

\* Nothing is complained about.
Quiet(o) ==
    LET p == Parsed(o)
    IN /\ ~ControleesComplaint(p) /\ ~AddressComplaint(p) /\ ~ProximityComplaint(p)
       /\ ~PrfComplaint(p) /\ ~PhrComplaint(p) /\ ~StsComplaint(p)
       /\ ~SubSessionComplaint(p)
       /\ \A name \in DOMAIN Limits \cap DOMAIN p : p[name] \in {None} \cup Limits[name]
       /\ Len(o.resultReportConfig) \in {0, Len(ResultReportConfiguration)}
=============================================================================
