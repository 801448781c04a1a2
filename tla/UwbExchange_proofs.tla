--------------------------- MODULE UwbExchange_proofs ---------------------------
(***************************************************************************)
(* Theorems about what passes between a host and its driver, and between   *)
(* two hosts, for messages of any length and any numbers in them.          *)
(***************************************************************************)
EXTENDS UwbOutOfBand_proofs

-----------------------------------------------------------------------------
(* The tables.                                                             *)

LEMMA UwbSessionTypeTable ==
    \A x \in DOMAIN Tables["UwbSessionType"].from : Name("UwbSessionType", Number("UwbSessionType", x)) = x
<1>1. Inverses(FromSessionType, ToSessionType, UWB_SESSION_TYPE)
  BY SessionTypeNumbers DEF Inverses, FromSessionType, ToSessionType, UWB_SESSION_TYPE
<1>2. Tables["UwbSessionType"] = [from |-> FromSessionType, to |-> ToSessionType, numbers |-> UWB_SESSION_TYPE]
  BY DEF Tables
<1>3. QED
  BY <1>1, <1>2, SessionTypeNumbers, ThereAndBack DEF Number, Name

LEMMA UwbDeviceStateTable ==
    \A x \in DOMAIN Tables["UwbDeviceState"].from : Name("UwbDeviceState", Number("UwbDeviceState", x)) = x
<1>1. Inverses(FromDeviceState, ToDeviceState, UWB_DEVICE_STATE)
  BY DeviceStateNumbers DEF Inverses, FromDeviceState, ToDeviceState, UWB_DEVICE_STATE
<1>2. Tables["UwbDeviceState"] = [from |-> FromDeviceState, to |-> ToDeviceState, numbers |-> UWB_DEVICE_STATE]
  BY DEF Tables
<1>3. QED
  BY <1>1, <1>2, DeviceStateNumbers, ThereAndBack DEF Number, Name

LEMMA UwbLineOfSightIndicatorTable ==
    \A x \in DOMAIN Tables["UwbLineOfSightIndicator"].from : Name("UwbLineOfSightIndicator", Number("UwbLineOfSightIndicator", x)) = x
<1>1. Inverses(FromLineOfSightIndicator, ToLineOfSightIndicator, UWB_LINE_OF_SIGHT_INDICATOR)
  BY LineOfSightNumbers DEF Inverses, FromLineOfSightIndicator, ToLineOfSightIndicator, UWB_LINE_OF_SIGHT_INDICATOR
<1>2. Tables["UwbLineOfSightIndicator"] = [from |-> FromLineOfSightIndicator, to |-> ToLineOfSightIndicator, numbers |-> UWB_LINE_OF_SIGHT_INDICATOR]
  BY DEF Tables
<1>3. QED
  BY <1>1, <1>2, LineOfSightNumbers, ThereAndBack DEF Number, Name

LEMMA UwbMulticastActionTable ==
    \A x \in DOMAIN Tables["UwbMulticastAction"].from : Name("UwbMulticastAction", Number("UwbMulticastAction", x)) = x
<1>1. Inverses(FromMulticastAction, ToMulticastAction, UWB_MULTICAST_ACTION)
  BY MulticastActionNumbers DEF Inverses, FromMulticastAction, ToMulticastAction
<1>2. Tables["UwbMulticastAction"] = [from |-> FromMulticastAction, to |-> ToMulticastAction, numbers |-> UWB_MULTICAST_ACTION]
  BY DEF Tables
<1>3. QED
  BY <1>1, <1>2, MulticastActionNumbers, ThereAndBack DEF Number, Name

LEMMA UwbStatusMulticastTable ==
    \A x \in DOMAIN Tables["UwbStatusMulticast"].from : Name("UwbStatusMulticast", Number("UwbStatusMulticast", x)) = x
<1>1. Inverses(FromStatusMulticast, ToStatusMulticast, UWB_MULTICAST_STATUS)
  BY MulticastStatusNumbers DEF Inverses, FromStatusMulticast, ToStatusMulticast
<1>2. Tables["UwbStatusMulticast"] = [from |-> FromStatusMulticast, to |-> ToStatusMulticast, numbers |-> UWB_MULTICAST_STATUS]
  BY DEF Tables
<1>3. QED
  BY <1>1, <1>2, MulticastStatusNumbers, ThereAndBack DEF Number, Name

LEMMA UwbRangingMeasurementTypeTable ==
    \A x \in DOMAIN Tables["UwbRangingMeasurementType"].from : Name("UwbRangingMeasurementType", Number("UwbRangingMeasurementType", x)) = x
<1>1. Inverses(FromRangingMeasurementType, ToRangingMeasurementType, UWB_RANGING_MEASUREMENT_TYPE)
  BY MeasurementTypeNumbers DEF Inverses, FromRangingMeasurementType, ToRangingMeasurementType, UWB_RANGING_MEASUREMENT_TYPE
<1>2. Tables["UwbRangingMeasurementType"] = [from |-> FromRangingMeasurementType, to |-> ToRangingMeasurementType, numbers |-> UWB_RANGING_MEASUREMENT_TYPE]
  BY DEF Tables
<1>3. QED
  BY <1>1, <1>2, MeasurementTypeNumbers, ThereAndBack DEF Number, Name

LEMMA UwbSessionReasonCodeTable ==
    \A x \in DOMAIN Tables["UwbSessionReasonCode"].from : Name("UwbSessionReasonCode", Number("UwbSessionReasonCode", x)) = x
<1>1. Inverses(FromSessionReasonCode, ToSessionReasonCode, UWB_SESSION_REASON_CODE)
  BY ReasonNumbers DEF Inverses, FromSessionReasonCode, ToSessionReasonCode
<1>2. Tables["UwbSessionReasonCode"] = [from |-> FromSessionReasonCode, to |-> ToSessionReasonCode, numbers |-> UWB_SESSION_REASON_CODE]
  BY DEF Tables
<1>3. QED
  BY <1>1, <1>2, ReasonNumbers, ThereAndBack DEF Number, Name

LEMMA UwbDeviceConfigurationParameterTypeTable ==
    \A x \in DOMAIN Tables["UwbDeviceConfigurationParameterType"].from : Name("UwbDeviceConfigurationParameterType", Number("UwbDeviceConfigurationParameterType", x)) = x
<1>1. Inverses(FromDeviceConfigurationParameterType, ToDeviceConfigurationParameterType, UWB_DEVICE_CONFIG_PARAM_TYPE)
  BY DeviceParameterNumbers DEF Inverses, FromDeviceConfigurationParameterType, ToDeviceConfigurationParameterType
<1>2. Tables["UwbDeviceConfigurationParameterType"] = [from |-> FromDeviceConfigurationParameterType, to |-> ToDeviceConfigurationParameterType, numbers |-> UWB_DEVICE_CONFIG_PARAM_TYPE]
  BY DEF Tables
<1>3. QED
  BY <1>1, <1>2, DeviceParameterNumbers, ThereAndBack DEF Number, Name

LEMMA UwbSessionStateTable ==
    \A x \in DOMAIN Tables["UwbSessionState"].from : Name("UwbSessionState", Number("UwbSessionState", x)) = x
<1>1. Inverses(FromSessionState, ToSessionState, UWB_SESSION_STATE)
  BY SessionStateNumbers DEF Inverses, FromSessionState, ToSessionState
<1>2. Tables["UwbSessionState"] = [from |-> FromSessionState, to |-> ToSessionState, numbers |-> UWB_SESSION_STATE]
  BY DEF Tables
<1>3. QED
  BY <1>1, <1>2, SessionStateNumbers, ThereAndBack DEF Number, Name

LEMMA UwbMacAddressTypeTable ==
    \A x \in DOMAIN Tables["UwbMacAddressType"].from : Name("UwbMacAddressType", Number("UwbMacAddressType", x)) = x
<1>1. Inverses(FromMacAddressType, ToMacAddressType, UWB_MAC_ADDRESS_MODE_INDICATOR)
  BY AddressModeNumbers DEF Inverses, FromMacAddressType, ToMacAddressType
<1>2. Tables["UwbMacAddressType"] = [from |-> FromMacAddressType, to |-> ToMacAddressType, numbers |-> UWB_MAC_ADDRESS_MODE_INDICATOR]
  BY DEF Tables
<1>3. QED
  BY <1>1, <1>2, AddressModeNumbers, ThereAndBack DEF Number, Name

\* Every enumerator that is converted to a number of the driver interface by a
\* table comes back from that number by the other table.
THEOREM EnumeratorsReturn ==
    \A e \in DOMAIN Tables : \A x \in DOMAIN Tables[e].from : Name(e, Number(e, x)) = x
<1>1. DOMAIN Tables =
        {"UwbSessionType", "UwbDeviceState", "UwbLineOfSightIndicator", "UwbMulticastAction",
         "UwbStatusMulticast", "UwbRangingMeasurementType", "UwbSessionReasonCode",
         "UwbDeviceConfigurationParameterType", "UwbSessionState", "UwbMacAddressType"}
  BY DEF Tables
<1>2. QED
  BY <1>1, UwbSessionTypeTable,
     UwbDeviceStateTable,
     UwbLineOfSightIndicatorTable,
     UwbMulticastActionTable,
     UwbStatusMulticastTable,
     UwbRangingMeasurementTypeTable,
     UwbSessionReasonCodeTable,
     UwbDeviceConfigurationParameterTypeTable,
     UwbSessionStateTable,
     UwbMacAddressTypeTable

LEMMA ParameterTypeReturns ==
    ASSUME NEW t \in ParameterType
    PROVE  /\ ToUwbParameterType(FromUwbParameterType(t)) = t
           /\ FromUwbParameterType(t) \in 0 .. 53
<1>1. DOMAIN FromParameterType = ParameterType
  BY ParameterTypeNumbers DEF FromParameterType, ParameterType
<1>2. \A x \in DOMAIN FromParameterType : ToParameterType[FromParameterType[x]] = x
  BY DEF FromParameterType, ToParameterType
<1>3. \A x \in DOMAIN FromParameterType : FromParameterType[x] \in DOMAIN UWB_APP_CONFIG_PARAM_TYPE
  BY ParameterNumbers DEF FromParameterType
<1>4. Inverses(FromParameterType, ToParameterType, UWB_APP_CONFIG_PARAM_TYPE)
  BY <1>2, <1>3 DEF Inverses
<1>5. QED
  BY <1>1, <1>4, ParameterNumbers, ThereAndBack DEF FromUwbParameterType, ToUwbParameterType

\* Each group of statuses has a range of numbers of its own.
LEMMA StatusRanges ==
    /\ \A x \in DOMAIN ToStatusGeneric : UWB_STATUS[x] \in 0 .. 10
    /\ \A x \in DOMAIN ToStatusSession : UWB_STATUS[x] \in 17 .. 25
    /\ \A x \in DOMAIN ToStatusRanging : UWB_STATUS[x] \in 32 .. 39
    /\ UWB_STATUS.ERROR_SESSION_NOT_EXIST = 17
    /\ UWB_STATUS.RANGING_TX_FAILED = 32
<1> DEFINE
      n1 == <<"OK", "REJECTED", "FAILED", "SYNTAX_ERROR", "INVALID_PARAM", "INVALID_RANGE",
              "INVALID_MESSAGE_SIZE", "UNKNOWN_GID", "UNKNOWN_OID", "READ_ONLY",
              "COMMAND_RETRY">>
      e1 == Enumeration(n1, 0)
      n2 == <<"ERROR_SESSION_NOT_EXIST", "ERROR_SESSION_DUPLICATE", "ERROR_SESSION_ACTIVE",
              "ERROR_MAX_SESSIONS_EXCEEDED", "ERROR_SESSION_NOT_CONFIGURED",
              "ERROR_ACTIVE_SESSIONS_ONGOING", "ERROR_MULTICAST_LIST_FULL",
              "ERROR_ADDRESS_NOT_FOUND", "ERROR_ADDRESS_ALREADY_PRESENT">>
      e2 == Enumeration(n2, 17)
      n3 == <<"RANGING_TX_FAILED", "RANGING_RX_TIMEOUT", "RANGING_RX_PHY_DEC_FAILED",
              "RANGING_RX_PHY_TOA_FAILED", "RANGING_RX_PHY_STS_FAILED",
              "RANGING_RX_MAC_DEC_FAILED", "RANGING_RX_MAC_IE_DEC_FAILED",
              "RANGING_RX_MAC_IE_MISSING">>
      e3 == Enumeration(n3, 32)
      o2 == Over(e2, e3)
      o1 == Over(e1, o2)
<1>1. Numbered(e1, 0, 10) /\ DOMAIN e1 =
         {"OK", "REJECTED", "FAILED", "SYNTAX_ERROR", "INVALID_PARAM", "INVALID_RANGE",
          "INVALID_MESSAGE_SIZE", "UNKNOWN_GID", "UNKNOWN_OID", "READ_ONLY", "COMMAND_RETRY"}
  <2>1. AsMany(n1, 0, 10)
    BY DEF AsMany
  <2>2. Range(n1) =
         {"OK", "REJECTED", "FAILED", "SYNTAX_ERROR", "INVALID_PARAM", "INVALID_RANGE",
          "INVALID_MESSAGE_SIZE", "UNKNOWN_GID", "UNKNOWN_OID", "READ_ONLY", "COMMAND_RETRY"}
    BY SMT DEF Range
  <2> HIDE DEF n1
  <2>3. Numbered(e1, 0, 10)
    BY <2>1, EnumerationIs
  <2>4. DOMAIN e1 = Range(n1)
    BY EnumerationDomain
  <2>5. QED
    BY <2>2, <2>3, <2>4
<1>2. Numbered(e2, 17, 25) /\ DOMAIN e2 =
         {"ERROR_SESSION_NOT_EXIST", "ERROR_SESSION_DUPLICATE", "ERROR_SESSION_ACTIVE",
          "ERROR_MAX_SESSIONS_EXCEEDED", "ERROR_SESSION_NOT_CONFIGURED",
          "ERROR_ACTIVE_SESSIONS_ONGOING", "ERROR_MULTICAST_LIST_FULL",
          "ERROR_ADDRESS_NOT_FOUND", "ERROR_ADDRESS_ALREADY_PRESENT"}
  <2>1. AsMany(n2, 17, 25)
    BY DEF AsMany
  <2>2. Range(n2) =
         {"ERROR_SESSION_NOT_EXIST", "ERROR_SESSION_DUPLICATE", "ERROR_SESSION_ACTIVE",
          "ERROR_MAX_SESSIONS_EXCEEDED", "ERROR_SESSION_NOT_CONFIGURED",
          "ERROR_ACTIVE_SESSIONS_ONGOING", "ERROR_MULTICAST_LIST_FULL",
          "ERROR_ADDRESS_NOT_FOUND", "ERROR_ADDRESS_ALREADY_PRESENT"}
    BY SMT DEF Range
  <2> HIDE DEF n2
  <2>3. Numbered(e2, 17, 25)
    BY <2>1, EnumerationIs
  <2>4. DOMAIN e2 = Range(n2)
    BY EnumerationDomain
  <2>5. QED
    BY <2>2, <2>3, <2>4
<1>3. Numbered(e3, 32, 39) /\ DOMAIN e3 =
         {"RANGING_TX_FAILED", "RANGING_RX_TIMEOUT", "RANGING_RX_PHY_DEC_FAILED",
          "RANGING_RX_PHY_TOA_FAILED", "RANGING_RX_PHY_STS_FAILED",
          "RANGING_RX_MAC_DEC_FAILED", "RANGING_RX_MAC_IE_DEC_FAILED",
          "RANGING_RX_MAC_IE_MISSING"}
  <2>1. AsMany(n3, 32, 39)
    BY DEF AsMany
  <2>2. Range(n3) =
         {"RANGING_TX_FAILED", "RANGING_RX_TIMEOUT", "RANGING_RX_PHY_DEC_FAILED",
          "RANGING_RX_PHY_TOA_FAILED", "RANGING_RX_PHY_STS_FAILED",
          "RANGING_RX_MAC_DEC_FAILED", "RANGING_RX_MAC_IE_DEC_FAILED",
          "RANGING_RX_MAC_IE_MISSING"}
    BY SMT DEF Range
  <2> HIDE DEF n3
  <2>3. Numbered(e3, 32, 39)
    BY <2>1, EnumerationIs
  <2>4. DOMAIN e3 = Range(n3)
    BY EnumerationDomain
  <2>5. QED
    BY <2>2, <2>3, <2>4
<1>4. e2["ERROR_SESSION_NOT_EXIST"] = 17 /\ e3["RANGING_TX_FAILED"] = 32
  <2>1. /\ 1 \in DOMAIN n2 /\ n2[1] = "ERROR_SESSION_NOT_EXIST"
        /\ \A j \in DOMAIN n2 : n2[j] = n2[1] => j = 1
    OBVIOUS
  <2>2. /\ 1 \in DOMAIN n3 /\ n3[1] = "RANGING_TX_FAILED"
        /\ \A j \in DOMAIN n3 : n3[j] = n3[1] => j = 1
    OBVIOUS
  <2> HIDE DEF n2, n3
  <2>3. e2[n2[1]] = 17
    BY <2>1, EnumerationFirst
  <2>4. e3[n3[1]] = 32
    BY <2>2, EnumerationFirst
  <2>5. QED
    BY <2>1, <2>2, <2>3, <2>4
<1>5. UWB_STATUS = o1
  BY DEF UWB_STATUS
<1> HIDE DEF e1, e2, e3
<1>6. /\ \A x \in DOMAIN e1 : o1[x] = e1[x]
      /\ \A x \in DOMAIN e2 \ DOMAIN e1 : o1[x] = e2[x]
      /\ \A x \in (DOMAIN e3 \ DOMAIN e2) \ DOMAIN e1 : o1[x] = e3[x]
  <2>1. DOMAIN o2 = DOMAIN e2 \cup DOMAIN e3
    BY OverDomain
  <2>2. \A x \in DOMAIN e2 : o2[x] = e2[x]
    BY OverDomain
  <2>3. \A x \in DOMAIN e3 \ DOMAIN e2 : o2[x] = e3[x]
    BY OverDomain
  <2> HIDE DEF o2
  <2>4. \A x \in DOMAIN e1 : o1[x] = e1[x]
    BY OverDomain
  <2>5. \A x \in DOMAIN o2 \ DOMAIN e1 : o1[x] = o2[x]
    BY OverDomain
  <2> HIDE DEF o1
  <2>6. QED
    BY <2>1, <2>2, <2>3, <2>4, <2>5
<1> HIDE DEF o1, o2
<1>7. DOMAIN ToStatusGeneric = DOMAIN e1
  BY <1>1 DEF ToStatusGeneric
<1>8. DOMAIN ToStatusSession = DOMAIN e2
  BY <1>2 DEF ToStatusSession
<1>9. DOMAIN ToStatusRanging = DOMAIN e3
  BY <1>3 DEF ToStatusRanging
<1>10. DOMAIN e1 \cap DOMAIN e2 = {}
  BY <1>1, <1>2
<1>11. DOMAIN e1 \cap DOMAIN e3 = {}
  BY <1>1, <1>3
<1>12. DOMAIN e2 \cap DOMAIN e3 = {}
  BY <1>2, <1>3
<1>13. (\A x \in DOMAIN e1 : e1[x] \in 0 .. 10)
  BY <1>1 DEF Numbered
<1>14. (\A x \in DOMAIN e2 : e2[x] \in 17 .. 25)
  BY <1>2 DEF Numbered
<1>15. (\A x \in DOMAIN e3 : e3[x] \in 32 .. 39)
  BY <1>3 DEF Numbered
<1>16. "ERROR_SESSION_NOT_EXIST" \in DOMAIN e2 /\ "RANGING_TX_FAILED" \in DOMAIN e3
  BY <1>2, <1>3
<1>17. QED
  BY <1>4, <1>5, <1>6, <1>7, <1>8, <1>9, <1>10, <1>11, <1>12, <1>13, <1>14, <1>15, <1>16

\* Statuses come back by the table that the number's range selects.
LEMMA StatusReturns ==
    ASSUME NEW s \in UwbStatus
    PROVE  ToUwbStatus(FromUwbStatus(s)) = s
<1> DEFINE d == FromStatus[s]
<1>1. DOMAIN FromStatus = UwbStatus
  BY DEF FromStatus, UwbStatus, UwbStatusGeneric, UwbStatusSession, UwbStatusRanging
<1>2. s \in UwbStatusGeneric => d \in DOMAIN ToStatusGeneric /\ ToStatusGeneric[d] = s
  BY DEF FromStatus, UwbStatusGeneric, ToStatusGeneric
<1>3. s \in UwbStatusSession => d \in DOMAIN ToStatusSession /\ ToStatusSession[d] = s
  BY DEF FromStatus, UwbStatusSession, ToStatusSession
<1>4. s \in UwbStatusRanging => d \in DOMAIN ToStatusRanging /\ ToStatusRanging[d] = s
  BY DEF FromStatus, UwbStatusRanging, ToStatusRanging
<1>5. d \in DOMAIN UWB_STATUS
  <2>1. DOMAIN ToStatusGeneric \subseteq DOMAIN UWB_STATUS
    BY StatusNumbers DEF ToStatusGeneric
  <2>2. DOMAIN ToStatusSession \subseteq DOMAIN UWB_STATUS
    BY StatusNumbers DEF ToStatusSession
  <2>3. DOMAIN ToStatusRanging \subseteq DOMAIN UWB_STATUS
    BY StatusNumbers DEF ToStatusRanging
  <2>4. QED
    BY <1>2, <1>3, <1>4, <2>1, <2>2, <2>3 DEF UwbStatus
<1>6. NameOf(UWB_STATUS, UWB_STATUS[d]) = d
  BY <1>5, StatusNumbers, NameOfIs
<1>7. FromUwbStatus(s) = UWB_STATUS[d]
  BY DEF FromUwbStatus, From
<1> HIDE DEF d
<1> DEFINE number == UWB_STATUS[d]
<1>8. /\ s \in UwbStatusGeneric => number < 17
      /\ s \in UwbStatusSession => number >= 17 /\ number < 32
      /\ s \in UwbStatusRanging => number >= 17 /\ number >= 32
      /\ number \in Int
  <2>1. /\ s \in UwbStatusGeneric => number \in 0 .. 10
        /\ s \in UwbStatusSession => number \in 17 .. 25
        /\ s \in UwbStatusRanging => number \in 32 .. 39
        /\ s \in UwbStatusGeneric \/ s \in UwbStatusSession \/ s \in UwbStatusRanging
    BY <1>2, <1>3, <1>4, StatusRanges DEF UwbStatus
  <2> HIDE DEF number
  <2>2. QED
    BY <2>1
<1> HIDE DEF number
<1>9. ToUwbStatus(number) = IF number < 17 THEN ToStatusGeneric[d]
                            ELSE IF number < 32 THEN ToStatusSession[d] ELSE ToStatusRanging[d]
  BY <1>6, StatusRanges DEF ToUwbStatus, To, number
<1>10. QED
  BY <1>2, <1>3, <1>4, <1>7, <1>8, <1>9 DEF UwbStatus, number

-----------------------------------------------------------------------------
(* Layout.                                                                 *)

Field == [size : Nat, align : {1, 2, 4}]
IsStruct(s) ==
    /\ Len(s) \in Nat \ {0}
    /\ DOMAIN s = 1 .. Len(s)
    /\ \A i \in DOMAIN s : s[i] \in Field

LEMMA RoundUpIs ==
    ASSUME NEW n \in Nat, NEW a \in {1, 2, 4}
    PROVE  RoundUp(n, a) \in Nat /\ n <= RoundUp(n, a) /\ RoundUp(n, a) < n + a
BY DEF RoundUp

LEMMA AlignIs ==
    ASSUME NEW s, IsStruct(s)
    PROVE  AlignOf(s) \in {1, 2, 4} /\ \A i \in DOMAIN s : s[i].align <= AlignOf(s)
<1> DEFINE A == {s[i].align : i \in DOMAIN s}
<1>1. A \subseteq {1, 2, 4} /\ A # {}
  <2>1. 1 \in DOMAIN s
    BY DEF IsStruct
  <2>2. \A i \in DOMAIN s : s[i].align \in {1, 2, 4}
    BY DEF IsStruct, Field
  <2>3. QED
    BY <2>1, <2>2
<1>2. \A i \in DOMAIN s : s[i].align \in A
  OBVIOUS
<1>3. AlignOf(s) = Max(A)
  BY DEF AlignOf
<1> HIDE DEF A
<1>4. \E x \in A : \A y \in A : x >= y
  <2>1. CASE 4 \in A
    BY <1>1, <2>1
  <2>2. CASE 4 \notin A /\ 2 \in A
    BY <1>1, <2>2
  <2>3. CASE 4 \notin A /\ 2 \notin A
    <3>1. 1 \in A /\ \A y \in A : y = 1
      BY <1>1, <2>3
    <3>2. QED
      BY <3>1
  <2>4. QED
    BY <2>1, <2>2, <2>3
<1>5. Max(A) \in A /\ \A y \in A : Max(A) >= y
  BY <1>4 DEF Max
<1>6. QED
  BY <1>1, <1>2, <1>3, <1>5

LEMMA OffsetIs ==
    ASSUME NEW s, IsStruct(s), NEW n \in DOMAIN s
    PROVE  \E end \in [0 .. n - 1 -> Nat] :
              /\ end[0] = 0
              /\ \A i \in 1 .. n - 1 : end[i] = RoundUp(end[i - 1], s[i].align) + s[i].size
              /\ OffsetOf(s, n) = RoundUp(end[n - 1], s[n].align)
<1> DEFINE P(g) == g = [i \in 0 .. n - 1 |-> IF i = 0 THEN 0 ELSE RoundUp(g[i - 1], s[i].align) + s[i].size]
           end == CHOOSE g : P(g)
           step == [p \in Nat \X (1 .. n - 1) |-> RoundUp(p[1], s[p[2]].align) + s[p[2]].size]
<1>1. n \in Nat /\ n - 1 \in Nat /\ 0 \in Nat /\ 1 .. n \subseteq DOMAIN s
  BY DEF IsStruct
<1>2. ASSUME NEW x \in Nat, NEW i \in 1 .. n PROVE RoundUp(x, s[i].align) + s[i].size \in Nat
  <2>1. s[i] \in Field
    BY <1>1 DEF IsStruct
  <2>2. s[i].align \in {1, 2, 4} /\ s[i].size \in Nat
    BY <2>1 DEF Field
  <2>3. RoundUp(x, s[i].align) \in Nat
    BY <2>2, RoundUpIs
  <2>4. QED
    BY <2>2, <2>3
<1>3. step \in [Nat \X (1 .. n - 1) -> Nat]
  <2>1. \A p \in Nat \X (1 .. n - 1) : p[1] \in Nat /\ p[2] \in 1 .. n
    BY <1>1
  <2>2. QED
    BY <1>2, <2>1
<1>4. ASSUME NEW x \in Nat, NEW i \in 1 .. n - 1
      PROVE step[<<x, i>>] = RoundUp(x, s[i].align) + s[i].size
  OBVIOUS
<1> HIDE DEF step
<1>5. PICK f \in [0 .. n - 1 -> Nat] : Recurs(f, 0, step, n - 1)
  BY <1>1, <1>3, Recursion
<1>6. ASSUME NEW i \in 1 .. n - 1 PROVE f[i] = RoundUp(f[i - 1], s[i].align) + s[i].size
  <2>1. i - 1 \in 0 .. n - 1
    BY <1>1
  <2>2. f[i - 1] \in Nat
    BY <2>1
  <2>3. f[i] = step[<<f[i - 1], i>>]
    BY <1>5 DEF Recurs
  <2>4. QED
    BY <1>4, <2>2, <2>3
<1>7. P(f)
  <2>1. ASSUME NEW i \in 0 .. n - 1
        PROVE  f[i] = IF i = 0 THEN 0 ELSE RoundUp(f[i - 1], s[i].align) + s[i].size
    <3>1. CASE i = 0
      BY <1>5, <3>1 DEF Recurs
    <3>2. CASE i # 0
      <4>1. i \in 1 .. n - 1
        BY <3>2
      <4>2. QED
        BY <1>6, <3>2, <4>1
    <3>3. QED
      BY <3>1, <3>2
  <2>2. f = [i \in 0 .. n - 1 |-> f[i]]
    OBVIOUS
  <2>3. QED
    BY <2>1, <2>2
<1>8. P(end)
  <2> HIDE DEF P
  <2> QED
    BY <1>7
<1>9. OffsetOf(s, n) = RoundUp(end[n - 1], s[n].align)
  BY DEF OffsetOf
<1> HIDE DEF end
<1>10. end[0] = 0
  BY <1>1, <1>8
<1>11. \A i \in 1 .. n - 1 : end[i] = RoundUp(end[i - 1], s[i].align) + s[i].size
  <2>1. ASSUME NEW i \in 0 .. n - 1
        PROVE  end[i] = IF i = 0 THEN 0 ELSE RoundUp(end[i - 1], s[i].align) + s[i].size
    BY <1>8
  <2> HIDE DEF P
  <2>2. \A i \in 1 .. n - 1 : i \in 0 .. n - 1 /\ i # 0
    BY <1>1
  <2>3. QED
    BY <2>1, <2>2
<1>12. \A i \in 0 .. n - 1 : end[i] = f[i]
  <2> HIDE DEF P
  <2>1. ASSUME NEW i \in 1 .. n - 1, f[i - 1] = end[i - 1] PROVE f[i] = end[i]
    BY <1>6, <1>11, <2>1
  <2>2. f[0] = end[0]
    BY <1>5, <1>10 DEF Recurs
  <2> DEFINE m == n - 1
  <2>3. m \in Nat /\ \A i \in 1 .. m : f[i - 1] = end[i - 1] => f[i] = end[i]
    BY <1>1, <2>1
  <2> HIDE DEF m
  <2> DEFINE I == {i \in 0 .. m : f[i] = end[i]}
  <2>4. 0 \in I
    BY <2>2, <2>3
  <2>5. ASSUME NEW i \in 1 .. m, i - 1 \in I PROVE i \in I
    BY <2>3, <2>5
  <2> HIDE DEF I
  <2>6. \A i \in 0 .. m : i \in I
    BY <2>3, <2>4, <2>5, IndexInduction
  <2>7. QED
    BY <2>6 DEF I, m
<1>13. OffsetOf(s, n) = RoundUp(f[n - 1], s[n].align)
  BY <1>1, <1>9, <1>12
<1>14. f[0] = 0
  BY <1>5 DEF Recurs
<1>15. QED
  BY <1>6, <1>13, <1>14

\* A structure has room for its fields, up to the last one.
LEMMA SizeIs ==
    ASSUME NEW s, IsStruct(s)
    PROVE  /\ \A n \in DOMAIN s : OffsetOf(s, n) \in Nat
           /\ FlexOffset(s) \in Nat /\ FlexElement(s) \in Nat /\ SizeOf(s) \in Nat
           /\ FlexOffset(s) + FlexElement(s) <= SizeOf(s)
<1>1. ASSUME NEW n \in DOMAIN s PROVE OffsetOf(s, n) \in Nat
  <2>1. PICK end \in [0 .. n - 1 -> Nat] : OffsetOf(s, n) = RoundUp(end[n - 1], s[n].align)
    BY OffsetIs
  <2>2. n - 1 \in 0 .. n - 1 /\ s[n] \in Field
    BY DEF IsStruct
  <2>3. end[n - 1] \in Nat /\ s[n].align \in {1, 2, 4}
    BY <2>2 DEF Field
  <2>4. QED
    BY <2>1, <2>3, RoundUpIs
<1>2. Len(s) \in DOMAIN s /\ s[Len(s)].size \in Nat
  BY DEF IsStruct, Field
<1>3. AlignOf(s) \in {1, 2, 4}
  BY AlignIs
<1>4. OffsetOf(s, Len(s)) + s[Len(s)].size \in Nat
  BY <1>1, <1>2
<1>5. QED
  BY <1>1, <1>2, <1>3, <1>4, RoundUpIs DEF FlexOffset, FlexElement, SizeOf

LEMMA NestedIs ==
    ASSUME NEW s, IsStruct(s)
    PROVE  Nested(s) \in Field
BY AlignIs, SizeIs DEF Nested, Field

\* Three words and whatever follows them.
LEMMA ThreeWords ==
    ASSUME NEW f \in Field
    PROVE  OffsetOf(<<u32, u32, u32, f>>, 4) = 12
<1> DEFINE s == <<u32, u32, u32, f>>
<1>1. u32 \in Field /\ u32.size = 4 /\ u32.align = 4
  BY DEF u32, Field
<1>2. IsStruct(s) /\ 4 \in DOMAIN s
  BY <1>1 DEF IsStruct
<1>3. PICK end \in [0 .. 4 - 1 -> Nat] :
              /\ end[0] = 0
              /\ \A i \in 1 .. 4 - 1 : end[i] = RoundUp(end[i - 1], s[i].align) + s[i].size
              /\ OffsetOf(s, 4) = RoundUp(end[4 - 1], s[4].align)
  BY <1>2, OffsetIs
<1>4. s[1] = u32 /\ s[2] = u32 /\ s[3] = u32 /\ s[4] = f
  OBVIOUS
<1>5. f.align \in {1, 2, 4}
  BY DEF Field
<1> HIDE DEF s
<1>6. end[1] = RoundUp(end[0], 4) + 4
  <2>1. 1 \in 1 .. 4 - 1 /\ 1 - 1 = 0
    OBVIOUS
  <2>2. QED
    BY <1>1, <1>3, <1>4, <2>1
<1>7. end[2] = RoundUp(end[1], 4) + 4
  <2>1. 2 \in 1 .. 4 - 1 /\ 2 - 1 = 1
    OBVIOUS
  <2>2. QED
    BY <1>1, <1>3, <1>4, <2>1
<1>8. end[3] = RoundUp(end[2], 4) + 4
  <2>1. 3 \in 1 .. 4 - 1 /\ 3 - 1 = 2
    OBVIOUS
  <2>2. QED
    BY <1>1, <1>3, <1>4, <2>1
<1>9. OffsetOf(s, 4) = RoundUp(end[3], f.align)
  <2>1. 4 - 1 = 3
    OBVIOUS
  <2>2. QED
    BY <1>3, <1>4, <2>1
<1>10. end[3] = 12
  BY ONLY <1>3, <1>6, <1>7, <1>8 DEF RoundUp
<1>11. RoundUp(12, f.align) = 12
  BY <1>5 DEF RoundUp
<1>12. QED
  BY <1>9, <1>10, <1>11 DEF s

-----------------------------------------------------------------------------
(* The array of parameters.                                                *)

LEMMA HeaderIs == ParamHeader = 12
<1>1. u8 \in Field
  BY DEF u8, Field
<1>2. Len(UWB_APP_CONFIG_PARAM) = 4
  BY DEF UWB_APP_CONFIG_PARAM
<1>3. QED
  BY <1>1, <1>2, ThreeWords DEF ParamHeader, FlexOffset, UWB_APP_CONFIG_PARAM

\* What is written at a place is read from there.
LEMMA ReadIs ==
    ASSUME NEW memory, Len(memory) \in Nat, NEW at \in Nat, NEW s \in Seq(Int),
           Holds(memory, at, s)
    PROVE  Read(memory, at, Len(s)) = s
<1>1. ASSUME NEW i \in 1 .. Len(s)
      PROVE  (IF at + i <= Len(memory) THEN memory[at + i] ELSE Unknown) = s[i]
  BY DEF Holds
<1>2. s = [i \in 1 .. Len(s) |-> s[i]]
  OBVIOUS
<1>3. QED
  BY <1>1, <1>2 DEF Read

\* Whatever is read is a sequence of numbers.
LEMMA ReadTyped ==
    ASSUME NEW memory \in Seq(Int), NEW at \in Nat, NEW n \in Nat
    PROVE  Read(memory, at, n) \in [1 .. n -> Int] /\ Len(Read(memory, at, n)) = n
<1>1. \A i \in 1 .. n : (IF at + i <= Len(memory) THEN memory[at + i] ELSE Unknown) \in Int
  <2> TAKE i \in 1 .. n
  <2>1. Unknown \in Int
    BY DEF Unknown
  <2>2. at + i <= Len(memory) => memory[at + i] \in Int
    OBVIOUS
  <2>3. QED
    BY <2>1, <2>2
<1>2. QED
  BY <1>1 DEF Read

\* A parameter that can be written: of a type that there is, with a value whose
\* length has room in 32 bits.
Writable(p) ==
    /\ p.Type \in ParameterType
    /\ ParamValue(p) \in Seq(Int)
    /\ WithinBytes(12 + Len(ParamValue(p)), 4)

LEMMA HeaderFits ==
    ASSUME NEW p, Writable(p)
    PROVE  /\ WithinBytes(Len(ParamValue(p)), 4)
           /\ WithinBytes(12 + Len(ParamValue(p)), 4)
           /\ WithinBytes(FromUwbParameterType(p.Type), 4)
<1> DEFINE t == FromUwbParameterType(p.Type)
           n == Len(ParamValue(p))
<1>1. t \in 0 .. 53
  BY ParameterTypeReturns DEF Writable
<1>2. n \in Nat /\ WithinBytes(12 + n, 4)
  BY DEF Writable
<1> HIDE DEF n, t
<1>3. t \in Nat /\ t < 65536 * 65536 /\ n < 65536 * 65536
  BY <1>1, <1>2 DEF WithinBytes
<1>4. QED
  BY <1>2, <1>3 DEF WithinBytes, t, n

LEMMA FromParameterIs ==
    ASSUME NEW p, Writable(p)
    PROVE  LET value == ParamValue(p)
               bytes == FromParameter(p)
           IN  /\ bytes \in Seq(Int) /\ Len(bytes) = 12 + Len(value)
               /\ Holds(bytes, 0, LittleEndian(12 + Len(value), 4))
               /\ Holds(bytes, 4, LittleEndian(FromUwbParameterType(p.Type), 4))
               /\ Holds(bytes, 8, LittleEndian(Len(value), 4))
               /\ Holds(bytes, 12, value)
<1> DEFINE value == ParamValue(p)
           a == LittleEndian(12 + Len(value), 4)
           b == LittleEndian(FromUwbParameterType(p.Type), 4)
           c == LittleEndian(Len(value), 4)
<1>1. WithinBytes(Len(value), 4) /\ WithinBytes(12 + Len(value), 4) /\ WithinBytes(FromUwbParameterType(p.Type), 4)
  BY HeaderFits
<1>2. a \in Seq(Int) /\ Len(a) = 4 /\ b \in Seq(Int) /\ Len(b) = 4 /\ c \in Seq(Int) /\ Len(c) = 4
  BY <1>1, LittleEndianIs
<1>3. value \in Seq(Int)
  BY DEF Writable
<1>4. FromParameter(p) = ((a \o b) \o c) \o value
  BY HeaderIs DEF FromParameter
<1> HIDE DEF a, b, c, value
<1>5. /\ a \o b \in Seq(Int) /\ Len(a \o b) = 8
      /\ (a \o b) \o c \in Seq(Int) /\ Len((a \o b) \o c) = 12
  <2>1. a \o b \in Seq(Int) /\ Len(a \o b) = 8
    <3>1. a \o b \in Seq(Int) /\ Len(a \o b) = Len(a) + Len(b)
      BY <1>2, ConcatProperties
    <3>2. QED
      BY ONLY <1>2, <3>1
  <2> DEFINE d == a \o b
  <2>2. d \in Seq(Int) /\ Len(d) = 8
    BY <2>1
  <2> HIDE DEF d
  <2>3. d \o c \in Seq(Int) /\ Len(d \o c) = 12
    <3>1. d \o c \in Seq(Int) /\ Len(d \o c) = Len(d) + Len(c)
      BY <1>2, <2>2, ConcatProperties
    <3>2. QED
      BY ONLY <1>2, <2>2, <3>1
  <2>4. QED
    BY <2>1, <2>3 DEF d
<1>6. FromParameter(p) \in Seq(Int) /\ Len(FromParameter(p)) = 12 + Len(value)
  BY <1>3, <1>4, <1>5, ConcatProperties
<1>7. Holds(a \o b, 0, a) /\ Holds(a \o b, 4, b)
  <2>1. Holds(a, 0, a)
    BY <1>2 DEF Holds
  <2>2. QED
    BY <1>2, <2>1, ConcatKeeps, ConcatAdds
<1>8. Holds((a \o b) \o c, 0, a) /\ Holds((a \o b) \o c, 4, b) /\ Holds((a \o b) \o c, 8, c)
  BY <1>2, <1>5, <1>7, ConcatKeeps, ConcatAdds
<1>9. /\ Holds(((a \o b) \o c) \o value, 0, a) /\ Holds(((a \o b) \o c) \o value, 4, b)
      /\ Holds(((a \o b) \o c) \o value, 8, c) /\ Holds(((a \o b) \o c) \o value, 12, value)
  BY <1>2, <1>3, <1>5, <1>8, ConcatKeeps, ConcatAdds
<1>10. QED
  BY <1>4, <1>6, <1>9 DEF a, b, c, value

\* What the driver interface reads of a parameter.
Reads(param, p) ==
    /\ param.size = 12 + Len(ParamValue(p))
    /\ param.paramType = FromUwbParameterType(p.Type)
    /\ param.paramLength = Len(ParamValue(p))
    /\ param.paramValue \in Seq(Int)
    /\ Holds(param.paramValue, 0, ParamValue(p))
    /\ DOMAIN param = {"size", "paramType", "paramLength", "paramValue"}

LEMMA NumberAt ==
    ASSUME NEW array \in Seq(Int), NEW at \in Nat, NEW x, WithinBytes(x, 4),
           Holds(array, at, LittleEndian(x, 4))
    PROVE  FromLittleEndian(Read(array, at, 4)) = x
<1> DEFINE s == LittleEndian(x, 4)
<1>1. s \in Seq(Int) /\ Len(s) = 4 /\ FromLittleEndian(s) = x
  BY LittleEndianIs
<1>2. Holds(array, at, s)
  OBVIOUS
<1> HIDE DEF s
<1>3. Len(array) \in Nat
  OBVIOUS
<1>4. Read(array, at, Len(s)) = s
  BY <1>1, <1>2, <1>3, ReadIs
<1>5. QED
  BY <1>1, <1>4

LEMMA ParamAtIs ==
    ASSUME NEW array \in Seq(Int), NEW at \in Nat, NEW p, Writable(p),
           Holds(array, at, FromParameter(p))
    PROVE  Reads(ParamAt(array, at), p) /\ Step(array, at) = 12 + Len(ParamValue(p))
<1> DEFINE value == ParamValue(p)
           bytes == FromParameter(p)
           a == LittleEndian(12 + Len(value), 4)
           b == LittleEndian(FromUwbParameterType(p.Type), 4)
           c == LittleEndian(Len(value), 4)
           rest == SubSeq(array, at + 12 + 1, Len(array))
<1>1. /\ bytes \in Seq(Int) /\ Len(bytes) = 12 + Len(value)
      /\ Holds(bytes, 0, a) /\ Holds(bytes, 4, b) /\ Holds(bytes, 8, c) /\ Holds(bytes, 12, value)
  BY FromParameterIs
<1>2. WithinBytes(Len(value), 4) /\ WithinBytes(12 + Len(value), 4) /\ WithinBytes(FromUwbParameterType(p.Type), 4)
  BY HeaderFits
<1>3. a \in Seq(Int) /\ b \in Seq(Int) /\ c \in Seq(Int)
  BY <1>2, LittleEndianIs
<1>4. value \in Seq(Int)
  BY DEF Writable
<1>5. Holds(array, at, bytes)
  OBVIOUS
<1>6. /\ ParamAt(array, at).size = FromLittleEndian(Read(array, at, 4))
      /\ ParamAt(array, at).paramType = FromLittleEndian(Read(array, at + 4, 4))
      /\ ParamAt(array, at).paramLength = FromLittleEndian(Read(array, at + 8, 4))
      /\ ParamAt(array, at).paramValue = rest
      /\ DOMAIN ParamAt(array, at) = {"size", "paramType", "paramLength", "paramValue"}
  BY HeaderIs DEF ParamAt
<1> HIDE DEF a, b, c, bytes, value, rest
<1>7. Holds(array, at + 0, a) /\ Holds(array, at + 4, b) /\ Holds(array, at + 8, c)
      /\ Holds(array, at + 12, value)
  BY <1>1, <1>3, <1>4, <1>5, HoldsThrough
<1>8. at + 0 = at /\ at + 4 \in Nat /\ at + 8 \in Nat /\ at + 12 \in Nat
  OBVIOUS
<1>9. FromLittleEndian(Read(array, at, 4)) = 12 + Len(value)
  BY <1>2, <1>7, <1>8, NumberAt DEF a
<1>10. FromLittleEndian(Read(array, at + 4, 4)) = FromUwbParameterType(p.Type)
  BY <1>2, <1>7, <1>8, NumberAt DEF b
<1>11. FromLittleEndian(Read(array, at + 8, 4)) = Len(value)
  BY <1>2, <1>7, <1>8, NumberAt DEF c
<1>12. rest \in Seq(Int) /\ Holds(rest, 0, value)
  <2> DEFINE from == at + 12
  <2>1. from \in Nat /\ Holds(array, from, value) /\ rest = SubSeq(array, from + 1, Len(array))
    BY <1>7 DEF rest
  <2> HIDE DEF from
  <2>2. Len(value) \in Nat /\ Len(array) \in Nat /\ from + Len(value) <= Len(array)
    BY <1>4, <2>1 DEF Holds
  <2>3. from + 1 \in 1 .. Len(array) + 1 /\ Len(array) \in (from + 1) - 1 .. Len(array)
    BY <2>1, <2>2
  <2>4. /\ rest \in Seq(Int) /\ Len(rest) = Len(array) - (from + 1) + 1
        /\ \A i \in 1 .. Len(array) - (from + 1) + 1 : rest[i] = array[from + 1 + i - 1]
    BY <2>1, <2>3, SubSeqProperties
  <2>5. ASSUME NEW k \in 1 .. Len(value) PROVE rest[0 + k] = value[k]
    <3>1. k \in 1 .. Len(array) - (from + 1) + 1
      BY <2>1, <2>2
    <3>2. rest[k] = array[from + 1 + k - 1]
      BY <2>4, <3>1
    <3>3. array[from + k] = value[k]
      BY <2>1 DEF Holds
    <3>4. from + 1 + k - 1 = from + k /\ 0 + k = k
      BY <2>1
    <3>5. QED
      BY <3>2, <3>3, <3>4
  <2>6. 0 + Len(value) <= Len(rest)
    BY <2>1, <2>2, <2>4
  <2>7. QED
    BY <2>4, <2>5, <2>6 DEF Holds
<1>13. QED
  BY <1>6, <1>9, <1>10, <1>11, <1>12 DEF Reads, Step, value

LengthsOf(parameters) == [i \in DOMAIN parameters |-> 12 + Len(ParamValue(parameters[i]))]
ArrayOfParameters(parameters) ==
    FlattenSeq([i \in DOMAIN parameters |-> FromParameter(parameters[i])])

\* Parameters that can be written, one behind the other.
AllWritable(parameters) ==
    /\ Len(parameters) \in Nat
    /\ DOMAIN parameters = 1 .. Len(parameters)
    /\ \A i \in DOMAIN parameters : Writable(parameters[i])

LEMMA ArrayIs ==
    ASSUME NEW parameters, AllWritable(parameters)
    PROVE  LET n == Len(parameters)
               e == EndsOf(n, LengthsOf(parameters))
               array == ArrayOfParameters(parameters)
           IN  /\ array \in Seq(Int)
               /\ Len(array) = e[n]
               /\ e \in [0 .. n -> Nat] /\ e[0] = 0
               /\ \A i \in 1 .. n : e[i] = e[i - 1] + 12 + Len(ParamValue(parameters[i]))
               /\ \A i \in 1 .. n : Holds(array, e[i - 1], FromParameter(parameters[i]))
               /\ n > 0 => Len(array) >= 12
<1> DEFINE n == Len(parameters)
           length == LengthsOf(parameters)
           e == EndsOf(n, length)
           ss == [i \in 1 .. n |-> FromParameter(parameters[i])]
<1>1. n \in Nat /\ DOMAIN parameters = 1 .. n
  BY DEF AllWritable
<1>2. ASSUME NEW i \in 1 .. n
      PROVE  /\ ss[i] \in Seq(Int) /\ Len(ss[i]) = 12 + Len(ParamValue(parameters[i]))
             /\ length[i] = 12 + Len(ParamValue(parameters[i]))
             /\ Len(ParamValue(parameters[i])) \in Nat
  <2>1. Writable(parameters[i])
    BY <1>1 DEF AllWritable
  <2>2. ss[i] = FromParameter(parameters[i]) /\ length[i] = 12 + Len(ParamValue(parameters[i]))
    BY <1>1 DEF LengthsOf
  <2>3. FromParameter(parameters[i]) \in Seq(Int) /\ Len(FromParameter(parameters[i])) = 12 + Len(ParamValue(parameters[i]))
    BY <2>1, FromParameterIs
  <2>4. ParamValue(parameters[i]) \in Seq(Int)
    BY <2>1 DEF Writable
  <2>5. Len(ParamValue(parameters[i])) \in Nat
    BY <2>4
  <2>6. QED
    BY <2>2, <2>3, <2>5
<1>3. ss \in [1 .. n -> Seq(Int)]
  BY <1>2
<1>4. length \in [1 .. n -> Nat]
  <2>1. \A i \in 1 .. n : length[i] \in Nat
    BY <1>2
  <2>2. DOMAIN length = 1 .. n /\ length = [i \in DOMAIN length |-> length[i]]
    BY <1>1 DEF LengthsOf
  <2> HIDE DEF length
  <2>3. QED
    BY <2>1, <2>2
<1>5. \A i \in 1 .. n : length[i] = Len(ss[i])
  BY <1>2
<1>6. ArrayOfParameters(parameters) = FlattenSeq(ss)
  BY <1>1 DEF ArrayOfParameters
<1>7. \A i \in 1 .. n : ss[i] = FromParameter(parameters[i])
  OBVIOUS
<1>8. \A i \in 1 .. n : length[i] = 12 + Len(ParamValue(parameters[i])) /\ Len(ParamValue(parameters[i])) \in Nat
  BY <1>2
<1> HIDE DEF ss, length, n
<1>9. /\ FlattenSeq(ss) \in Seq(Int) /\ Len(FlattenSeq(ss)) = e[n]
      /\ \A i \in 1 .. n : Holds(FlattenSeq(ss), e[i - 1], ss[i])
  BY <1>1, <1>3, <1>4, <1>5, FlattenIs, ZenonT(60)
<1>10. e \in [0 .. n -> Nat] /\ e[0] = 0 /\ \A i \in 1 .. n : e[i] = e[i - 1] + length[i]
  BY <1>1, <1>4, EndsOfIs
<1>11. \A i, j \in 0 .. n : i <= j => e[i] <= e[j]
  BY <1>1, <1>4, EndsOfGrow
<1> HIDE DEF e
<1>12. \A i \in 1 .. n : e[i] = e[i - 1] + 12 + Len(ParamValue(parameters[i]))
  <2> TAKE i \in 1 .. n
  <2>1. e[i - 1] \in Nat /\ Len(ParamValue(parameters[i])) \in Nat
        /\ e[i] = e[i - 1] + length[i] /\ length[i] = 12 + Len(ParamValue(parameters[i]))
    BY <1>1, <1>8, <1>10
  <2>2. QED
    BY <2>1
<1>13. n > 0 => e[n] >= 12
  <2> SUFFICES ASSUME n > 0 PROVE e[n] >= 12
    OBVIOUS
  <2>1. 1 \in 1 .. n /\ 1 \in 0 .. n /\ n \in 0 .. n /\ 1 <= n /\ 1 - 1 = 0
    BY <1>1
  <2>2. e[1] = e[0] + length[1] /\ length[1] = 12 + Len(ParamValue(parameters[1]))
        /\ Len(ParamValue(parameters[1])) \in Nat
    BY <1>8, <1>10, <2>1
  <2>3. e[1] <= e[n] /\ e[n] \in Nat /\ e[1] \in Nat
    BY <1>10, <1>11, <2>1
  <2>4. QED
    BY <1>10, <2>2, <2>3
<1>14. \A i \in 1 .. n : Holds(ArrayOfParameters(parameters), e[i - 1], FromParameter(parameters[i]))
  BY <1>6, <1>7, <1>9
<1>15. QED
  BY <1>6, <1>9, <1>10, <1>12, <1>13, <1>14 DEF e, length, n

\* The parameters are found where they were written.
LEMMA ParamsInIs ==
    ASSUME NEW parameters, AllWritable(parameters)
    PROVE  LET n == Len(parameters)
               params == ParamsIn(ArrayOfParameters(parameters), n)
           IN  /\ DOMAIN params = 1 .. n
               /\ \A i \in 1 .. n : Reads(params[i], parameters[i])
<1> DEFINE n == Len(parameters)
           array == ArrayOfParameters(parameters)
           e == EndsOf(n, LengthsOf(parameters))
           P(g) == g = [i \in 1 .. n |-> IF i = 1 THEN 0 ELSE g[i - 1] + Step(array, g[i - 1])]
           place == CHOOSE g : P(g)
           f == [i \in 1 .. n |-> e[i - 1]]
<1>1. n \in Nat /\ \A i \in 1 .. n : Writable(parameters[i])
  BY DEF AllWritable
<1>2. /\ array \in Seq(Int)
      /\ e \in [0 .. n -> Nat] /\ e[0] = 0
      /\ \A i \in 1 .. n : e[i] = e[i - 1] + 12 + Len(ParamValue(parameters[i]))
      /\ \A i \in 1 .. n : Holds(array, e[i - 1], FromParameter(parameters[i]))
  BY ArrayIs
<1>3. ParamsIn(array, n) = [i \in 1 .. n |-> ParamAt(array, place[i])]
  BY DEF ParamsIn
<1> HIDE DEF array, e, n
<1>4. ASSUME NEW i \in 1 .. n
      PROVE  /\ Reads(ParamAt(array, e[i - 1]), parameters[i])
             /\ e[i] = e[i - 1] + Step(array, e[i - 1])
  <2>1. e[i - 1] \in Nat
    BY <1>1, <1>2
  <2>2. Writable(parameters[i]) /\ Holds(array, e[i - 1], FromParameter(parameters[i]))
    BY <1>1, <1>2
  <2>3. /\ Reads(ParamAt(array, e[i - 1]), parameters[i])
        /\ Step(array, e[i - 1]) = 12 + Len(ParamValue(parameters[i]))
    BY <1>2, <2>1, <2>2, ParamAtIs
  <2>4. Len(ParamValue(parameters[i])) \in Nat
    BY <2>2 DEF Writable
  <2>5. e[i] = e[i - 1] + 12 + Len(ParamValue(parameters[i]))
    BY <1>2
  <2>6. QED
    BY <2>1, <2>3, <2>4, <2>5
<1>5. P(f)
  <2>1. ASSUME NEW i \in 1 .. n
        PROVE  e[i - 1] = IF i = 1 THEN 0 ELSE f[i - 1] + Step(array, f[i - 1])
    <3>1. CASE i = 1
      BY <1>2, <3>1
    <3>2. CASE i # 1
      <4>1. i - 1 \in 1 .. n
        BY <1>1, <3>2
      <4>2. f[i - 1] = e[(i - 1) - 1]
        BY <4>1
      <4>3. e[i - 1] = e[(i - 1) - 1] + Step(array, e[(i - 1) - 1])
        BY <1>4, <4>1
      <4>4. QED
        BY <3>2, <4>2, <4>3
    <3>3. QED
      BY <3>1, <3>2
  <2>2. \A i \in 1 .. n : f[i] = e[i - 1]
    OBVIOUS
  <2>3. QED
    BY <2>1
<1>6. P(place)
  <2> HIDE DEF P, f
  <2> QED
    BY <1>5
<1>7. \A i \in 1 .. n : place[i] = IF i = 1 THEN 0 ELSE place[i - 1] + Step(array, place[i - 1])
  <2> HIDE DEF place
  <2>1. ASSUME NEW i \in 1 .. n
        PROVE place[i] = IF i = 1 THEN 0 ELSE place[i - 1] + Step(array, place[i - 1])
    BY <1>6
  <2>2. QED
    BY <2>1
<1> HIDE DEF place, f, P
<1> DEFINE I == {j \in 0 .. n : j = 0 \/ place[j] = e[j - 1]}
<1>8. 0 \in I
  BY <1>1
<1>9. ASSUME NEW i \in 1 .. n, i - 1 \in I PROVE i \in I
  <2>1. CASE i = 1
    <3>1. place[i] = 0 /\ e[i - 1] = 0
      BY <1>2, <1>7, <2>1
    <3>2. QED
      BY <3>1
  <2>2. CASE i # 1
    <3>1. i - 1 \in 1 .. n /\ i - 1 # 0
      BY <1>1, <2>2
    <3>2. place[i - 1] = e[(i - 1) - 1]
      BY <1>9, <3>1
    <3>3. place[i] = place[i - 1] + Step(array, place[i - 1])
      BY <1>7, <2>2
    <3>4. e[i - 1] = e[(i - 1) - 1] + Step(array, e[(i - 1) - 1])
      BY <1>4, <3>1
    <3>5. place[i] = e[i - 1]
      BY <3>2, <3>3, <3>4
    <3>6. QED
      BY <3>5
  <2>3. QED
    BY <2>1, <2>2
<1> HIDE DEF I
<1>10. \A i \in 0 .. n : i \in I
  BY <1>1, <1>8, <1>9, IndexInduction
<1>11. \A i \in 1 .. n : place[i] = e[i - 1]
  <2> TAKE i \in 1 .. n
  <2>1. i \in 0 .. n /\ i # 0
    BY <1>1
  <2>2. QED
    BY <1>10, <2>1 DEF I
<1>12. DOMAIN ParamsIn(array, n) = 1 .. n /\ \A i \in 1 .. n : ParamsIn(array, n)[i] = ParamAt(array, e[i - 1])
  BY <1>3, <1>11
<1>13. QED
  BY <1>4, <1>12 DEF array, n

-----------------------------------------------------------------------------
(* The values of parameters.                                               *)

LEMMA KindIs ==
    ASSUME NEW p, Typed(p)
    PROVE  /\ p.Alternative = KindOf(p.Type)
           /\ p = Parameter(p.Type, p.Value)
           /\ p.Alternative = "addresses" <=> p.Type = "DestinationMacAddresses"
<1>1. p.Alternative = KindOf(p.Type) /\ p = Parameter(p.Type, p.Value)
  BY DEF Typed, Parameter, KindOf
<1>2. \A t \in ParameterType : KindOf(t) = "addresses" => t = "DestinationMacAddresses"
  BY DEF KindOf, UwbApplicationConfigurationParameterValue
<1>3. KindOf("DestinationMacAddresses") = "addresses"
  <2>1. "DestinationMacAddresses" \in ParameterType
    BY ParameterTypeNumbers DEF ParameterType
  <2>2. QED
    BY <2>1 DEF KindOf, UwbApplicationConfigurationParameterValue
<1>4. QED
  BY <1>1, <1>2, <1>3 DEF Typed

LEMMA AddressIs ==
    ASSUME NEW a \in Address
    PROVE  a \in Seq(Int) /\ Len(a) \in {2, 8} /\ \A k \in 1 .. Len(a) : a[k] \in 0 .. 255
<1>1. UwbMacAddressLength.Short = 2 /\ UwbMacAddressLength.Extended = 8
  BY DEF UwbMacAddressLength
<1>2. \E n \in {2, 8} : a \in [1 .. n -> Byte]
  BY <1>1 DEF Address, ShortAddress
<1>3. PICK n \in {2, 8} : a \in [1 .. n -> Byte]
  BY <1>2
<1>4. n \in Nat /\ \A k \in 1 .. n : a[k] \in 0 .. 255 /\ a[k] \in Int
  <2>1. n \in Nat
    OBVIOUS
  <2>2. \A k \in 1 .. n : a[k] \in Byte
    BY <1>3
  <2>3. \A x \in Byte : x \in 0 .. 255 /\ x \in Int
    BY DEF Byte
  <2>4. QED
    BY <2>1, <2>2, <2>3
<1>5. a = [k \in 1 .. n |-> a[k]]
  BY <1>3
<1>6. a \in Seq(Int) /\ Len(a) = n
  BY <1>4, <1>5
<1>7. QED
  BY <1>4, <1>6

LEMMA VectorIs ==
    ASSUME NEW v \in [1 .. StaticStsInitializationVectorLength -> Byte]
    PROVE  v \in Seq(Int) /\ Len(v) = StaticStsInitializationVectorLength
<1>1. StaticStsInitializationVectorLength = 6
  BY DEF StaticStsInitializationVectorLength
<1>2. \A k \in 1 .. 6 : v[k] \in Int
  BY <1>1 DEF Byte
<1>3. v = [k \in 1 .. 6 |-> v[k]]
  BY <1>1
<1>4. QED
  BY <1>1, <1>2, <1>3

LEMMA AlternativeBytesIs ==
    ASSUME NEW a, NEW t
    PROVE  AlternativeBytes(a, t) \in {1, 2, 4}
BY DEF AlternativeBytes

\* The bytes that a value is written to.
LEMMA ParamValueIs ==
    ASSUME NEW p
    PROVE  /\ p.Alternative = "addresses" => ParamValue(p) = FlattenSeq(SetToSeq(p.Value))
           /\ p.Alternative \in {"address", "vector"} => ParamValue(p) = p.Value
           /\ p.Alternative = "reports" => ParamValue(p) = <<Bits(p.Value)>>
           /\ p.Alternative \notin {"addresses", "address", "vector", "reports"} =>
                 ParamValue(p) = LittleEndian(p.Value, AlternativeBytes(p.Alternative, p.Type))
<1>1. CASE p.Alternative = "addresses"
  BY <1>1 DEF ParamValue
<1>2. CASE p.Alternative \in {"address", "vector"}
  BY <1>2 DEF ParamValue
<1>3. CASE p.Alternative = "reports"
  BY <1>3 DEF ParamValue
<1>4. CASE p.Alternative \notin {"addresses", "address", "vector", "reports"}
  BY <1>4 DEF ParamValue
<1>5. QED
  BY <1>1, <1>2, <1>3, <1>4

\* The value that is read for a type.
LEMMA ToParameterIs ==
    ASSUME NEW param, NEW t, ToUwbParameterType(param.paramType) = t
    PROVE  /\ KindOf(t) = "address" =>
                 ToParameter(param) = Parameter(t, Read(param.paramValue, 0, param.paramLength))
           /\ KindOf(t) = "vector" =>
                 ToParameter(param) = Parameter(t, Read(param.paramValue, 0, StaticStsInitializationVectorLength))
           /\ KindOf(t) = "reports" =>
                 ToParameter(param) = Parameter(t, Reports(param.paramValue[1]))
           /\ KindOf(t) \notin {"address", "vector", "reports"} =>
                 ToParameter(param) = Parameter(t, ToScalar(param, t))
<1>1. CASE KindOf(t) = "address"
  BY <1>1 DEF ToParameter
<1>2. CASE KindOf(t) = "vector"
  BY <1>2 DEF ToParameter
<1>3. CASE KindOf(t) = "reports"
  BY <1>3 DEF ToParameter
<1>4. CASE KindOf(t) \notin {"address", "vector", "reports"}
  BY <1>4 DEF ToParameter
<1>5. QED
  BY <1>1, <1>2, <1>3, <1>4

\* Every value but destination addresses is read as it was written.
LEMMA ValueReturns ==
    ASSUME NEW p, Typed(p), p.Alternative # "addresses", NEW param, Reads(param, p)
    PROVE  ToParameter(param) = p
<1> DEFINE t == p.Type
           value == ParamValue(p)
           v == param.paramValue
<1>1. /\ p.Alternative = KindOf(t) /\ p = Parameter(t, p.Value) /\ t \in ParameterType
  BY KindIs DEF Typed
<1>2. ToUwbParameterType(param.paramType) = t
  BY <1>1, ParameterTypeReturns DEF Reads
<1>3. v \in Seq(Int) /\ Holds(v, 0, value) /\ param.paramLength = Len(value) /\ Len(v) \in Nat
  BY DEF Reads
<1>4. CASE p.Alternative = "address"
  <2>1. value = p.Value /\ p.Value \in Seq(Int)
    BY <1>4, ParamValueIs, AddressIs DEF Typed
  <2> HIDE DEF value, v
  <2>2. Read(v, 0, Len(value)) = value
    BY <1>3, <2>1, ReadIs
  <2>3. ToParameter(param) = Parameter(t, Read(v, 0, param.paramLength))
    BY <1>1, <1>2, <1>4, ToParameterIs DEF v
  <2>4. QED
    BY <1>1, <1>3, <2>1, <2>2, <2>3
<1>5. CASE p.Alternative = "vector"
  <2>1. value = p.Value /\ p.Value \in Seq(Int) /\ Len(p.Value) = StaticStsInitializationVectorLength
    BY <1>5, ParamValueIs, VectorIs DEF Typed
  <2> HIDE DEF value, v
  <2>2. Read(v, 0, Len(value)) = value
    BY <1>3, <2>1, ReadIs
  <2>3. ToParameter(param) = Parameter(t, Read(v, 0, StaticStsInitializationVectorLength))
    BY <1>1, <1>2, <1>5, ToParameterIs DEF v
  <2>4. QED
    BY <1>1, <2>1, <2>2, <2>3
<1>6. CASE p.Alternative = "reports"
  <2>1. value = <<Bits(p.Value)>> /\ p.Value \subseteq DOMAIN ResultReportConfiguration
    BY <1>6, ParamValueIs DEF Typed
  <2>2. v[1] = Bits(p.Value)
    <3>1. Len(value) = 1 /\ value[1] = Bits(p.Value)
      BY <2>1
    <3> HIDE DEF value, v
    <3>2. 1 \in 1 .. Len(value)
      BY <3>1
    <3>3. v[0 + 1] = value[1]
      BY <1>3, <3>2 DEF Holds
    <3>4. QED
      BY <3>1, <3>3
  <2>3. ToParameter(param) = Parameter(t, Reports(v[1]))
    BY <1>1, <1>2, <1>6, ToParameterIs
  <2>4. Reports(Bits(p.Value)) = p.Value
    BY <2>1, BitsReturn
  <2> HIDE DEF v
  <2>5. QED
    BY <1>1, <2>2, <2>3, <2>4
<1>7. CASE p.Alternative \notin {"addresses", "address", "vector", "reports"}
  <2> DEFINE n == AlternativeBytes(p.Alternative, t)
  <2>1. n \in {1, 2, 4}
    BY AlternativeBytesIs
  <2>2. value = LittleEndian(p.Value, n) /\ WithinBytes(p.Value, n)
    BY <1>7, ParamValueIs DEF Typed
  <2>3. ToParameter(param) = Parameter(t, ToScalar(param, t))
    BY <1>1, <1>2, <1>7, ToParameterIs
  <2>4. ToScalar(param, t) = IF Unknown \in Range(Read(v, 0, n)) THEN Unknown ELSE FromLittleEndian(Read(v, 0, n))
    BY <1>1 DEF ToScalar
  <2> HIDE DEF n, value, v
  <2>5. /\ value \in [1 .. n -> 0 .. 255] /\ value \in Seq(Int) /\ Len(value) = n
        /\ FromLittleEndian(value) = p.Value
    <3> DEFINE x == p.Value
    <3>1. n \in {1, 2, 4} /\ value = LittleEndian(x, n) /\ WithinBytes(x, n)
      BY <2>1, <2>2
    <3> HIDE DEF x
    <3>2. /\ value \in [1 .. n -> 0 .. 255] /\ value \in Seq(Int) /\ Len(value) = n
          /\ FromLittleEndian(value) = x
      <4>1. CASE n = 1
        <5>1. WithinBytes(x, 1)
          BY <3>1, <4>1
        <5>2. /\ LittleEndian(x, 1) \in [1 .. 1 -> 0 .. 255] /\ LittleEndian(x, 1) \in Seq(Int)
              /\ Len(LittleEndian(x, 1)) = 1 /\ FromLittleEndian(LittleEndian(x, 1)) = x
          BY ONLY <5>1, LittleEndianIs
        <5>3. QED
          BY ONLY <3>1, <4>1, <5>2
      <4>2. CASE n = 2
        <5>1. WithinBytes(x, 2)
          BY <3>1, <4>2
        <5>2. /\ LittleEndian(x, 2) \in [1 .. 2 -> 0 .. 255] /\ LittleEndian(x, 2) \in Seq(Int)
              /\ Len(LittleEndian(x, 2)) = 2 /\ FromLittleEndian(LittleEndian(x, 2)) = x
          BY ONLY <5>1, LittleEndianIs
        <5>3. QED
          BY ONLY <3>1, <4>2, <5>2
      <4>3. CASE n = 4
        <5>1. WithinBytes(x, 4)
          BY <3>1, <4>3
        <5>2. /\ LittleEndian(x, 4) \in [1 .. 4 -> 0 .. 255] /\ LittleEndian(x, 4) \in Seq(Int)
              /\ Len(LittleEndian(x, 4)) = 4 /\ FromLittleEndian(LittleEndian(x, 4)) = x
          BY ONLY <5>1, LittleEndianIs
        <5>3. QED
          BY ONLY <3>1, <4>3, <5>2
      <4>4. QED
        BY ONLY <3>1, <4>1, <4>2, <4>3
    <3>3. QED
      BY <3>2 DEF x
  <2>6. Read(v, 0, Len(value)) = value
    BY <1>3, <2>5, ReadIs
  <2>7. Unknown \notin Range(value)
    <3>1. \A i \in DOMAIN value : value[i] \in 0 .. 255
      BY <2>5
    <3>2. \A y \in 0 .. 255 : y # Unknown
      BY DEF Unknown
    <3>3. QED
      BY <3>1, <3>2 DEF Range
  <2>8. QED
    BY <1>1, <2>3, <2>4, <2>5, <2>6, <2>7
<1>8. QED
  BY <1>4, <1>5, <1>6, <1>7

-----------------------------------------------------------------------------
(* Destination addresses.                                                  *)

LEMMA SetToSeqIs ==
    ASSUME NEW S, IsFiniteSet(S)
    PROVE  LET f == SetToSeq(S)
               n == Cardinality(S)
           IN  /\ n \in Nat /\ f \in [1 .. n -> S]
               /\ \A a \in S : \E i \in 1 .. n : f[i] = a
<1> DEFINE n == Cardinality(S)
           f == SetToSeq(S)
           I == 1 .. n
<1>1. n \in Nat /\ ExistsBijection(I, S)
  BY FS_CardinalityType
<1>2. \E g \in [I -> S] : IsInjective(g)
  <2> HIDE DEF I
  <2>1. PICK g : g \in Bijection(I, S)
    BY <1>1 DEF ExistsBijection
  <2>2. g \in [I -> S] /\ \A a, b \in I : g[a] = g[b] => a = b
    BY <2>1 DEF Bijection, Injection, IsInjective
  <2>3. QED
    BY <2>2 DEF IsInjective
<1>3. f \in [I -> S] /\ IsInjective(f)
  BY <1>2 DEF SetToSeq
<1>4. IsFiniteSet(I) /\ Cardinality(I) = n
  <2>1. 1 \in Int /\ n \in Int /\ ~ (1 > n /\ n # 0)
    BY <1>1
  <2>2. IsFiniteSet(1 .. n) /\ Cardinality(1 .. n) = IF 1 > n THEN 0 ELSE n - 1 + 1
    BY <2>1, FS_Interval
  <2>3. QED
    BY <1>1, <2>2
<1> HIDE DEF I, f
<1>5. f \in Injection(I, S)
  BY <1>3 DEF Injection, IsInjective
<1>6. f \in Surjection(I, S)
  BY <1>4, <1>5, FS_Injection
<1>7. \A a \in S : \E i \in I : f[i] = a
  BY <1>6 DEF Surjection
<1>8. QED
  BY <1>1, <1>3, <1>7 DEF I, f

\* The bytes of a set of addresses: one address behind the other.
LEMMA AddressesAre ==
    ASSUME NEW S, IsFiniteSet(S), NEW X, \A a \in S : a \in Seq(X)
    PROVE  LET n == Cardinality(S)
               f == SetToSeq(S)
               e == EndsOf(n, [i \in 1 .. n |-> Len(f[i])])
               bytes == FlattenSeq(f)
           IN  /\ bytes \in Seq(X) /\ Len(bytes) = e[n]
               /\ \A i \in 1 .. n : Holds(bytes, e[i - 1], f[i])
<1> DEFINE n == Cardinality(S)
           f == SetToSeq(S)
           length == [i \in 1 .. n |-> Len(f[i])]
<1>1. n \in Nat /\ f \in [1 .. n -> S]
  BY SetToSeqIs
<1> HIDE DEF f, n
<1>2. f \in [1 .. n -> Seq(X)]
  BY <1>1
<1>3. length \in [1 .. n -> Nat] /\ \A i \in 1 .. n : length[i] = Len(f[i])
  <2>1. \A i \in 1 .. n : Len(f[i]) \in Nat
    BY <1>2, LenProperties
  <2>2. QED
    BY <2>1
<1> HIDE DEF length
<1>4. /\ FlattenSeq(f) \in Seq(X) /\ Len(FlattenSeq(f)) = EndsOf(n, length)[n]
      /\ \A i \in 1 .. n : Holds(FlattenSeq(f), EndsOf(n, length)[i - 1], f[i])
  BY <1>1, <1>2, <1>3, FlattenIs
<1>5. QED
  BY <1>4 DEF length, f, n

LEMMA ParameterSize == SizeOf(UWB_APP_CONFIG_PARAM) = 16
<1> DEFINE s == UWB_APP_CONFIG_PARAM
<1>1. s = <<u32, u32, u32, u8>>
  BY DEF UWB_APP_CONFIG_PARAM
<1>2. Len(s) = 4 /\ s[1] = u32 /\ s[4] = u8 /\ 1 \in DOMAIN s
  BY <1>1
<1>3. u32 \in Field /\ u8 \in Field /\ u32.align = 4 /\ u8.size = 1
  BY DEF u32, u8, Field
<1>4. IsStruct(s)
  BY <1>1, <1>3 DEF IsStruct
<1>5. OffsetOf(s, 4) = 12
  BY <1>1, <1>3, ThreeWords
<1> HIDE DEF s
<1>6. AlignOf(s) \in {1, 2, 4} /\ 4 <= AlignOf(s)
  BY <1>2, <1>3, <1>4, AlignIs
<1>7. AlignOf(s) = 4
  BY <1>6
<1>8. SizeOf(s) = RoundUp(12 + 1, 4)
  BY <1>2, <1>3, <1>5, <1>7 DEF SizeOf
<1>9. RoundUp(12 + 1, 4) = 16
  BY DEF RoundUp
<1>10. QED
  BY <1>8, <1>9 DEF s

\* The bytes of two short addresses at most.
LEMMA ShortAddressesAre ==
    ASSUME NEW p, Typed(p), p.Type = "DestinationMacAddresses",
           \A a \in p.Value : Len(a) = UwbMacAddressLength.Short, Cardinality(p.Value) <= 2
    PROVE  LET n == Cardinality(p.Value)
               f == SetToSeq(p.Value)
               value == ParamValue(p)
           IN  /\ p = Parameter("DestinationMacAddresses", p.Value)
               /\ n \in {0, 1, 2}
               /\ f \in [1 .. n -> p.Value] /\ \A a \in p.Value : \E i \in 1 .. n : f[i] = a
               /\ value \in Seq(Int) /\ Len(value) = n * 2
               /\ \A i \in 1 .. n :
                    /\ f[i] \in Seq(Int) /\ Len(f[i]) = 2
                    /\ i - 1 \in {0, 1} /\ Holds(value, (i - 1) * 2, f[i])
<1> DEFINE S == p.Value
           n == Cardinality(S)
           f == SetToSeq(S)
           length == [i \in 1 .. n |-> Len(f[i])]
           e == EndsOf(n, length)
           value == ParamValue(p)
<1>1. UwbMacAddressLength.Short = 2 /\ UwbMacAddressType.Short = 0
  BY DEF UwbMacAddressLength, UwbMacAddressType
<1>2. /\ p.Alternative = "addresses" /\ p = Parameter("DestinationMacAddresses", S)
      /\ IsFiniteSet(S) /\ (\A a \in S : a \in Seq(Int)) /\ value = FlattenSeq(f)
  BY KindIs, ParamValueIs, AddressIs DEF Typed
<1>3. n \in Nat /\ f \in [1 .. n -> S] /\ \A a \in S : \E i \in 1 .. n : f[i] = a
  BY <1>2, SetToSeqIs
<1>4. /\ value \in Seq(Int) /\ Len(value) = e[n]
      /\ \A i \in 1 .. n : Holds(value, e[i - 1], f[i])
  BY <1>2, AddressesAre
<1>5. n \in {0, 1, 2} /\ \A i \in 1 .. n : f[i] \in Seq(Int) /\ Len(f[i]) = 2
  BY <1>1, <1>2, <1>3
<1>8. /\ e[0] = 0
      /\ \A i \in 1 .. n : e[i] = e[i - 1] + 2
  <2>1. length \in [1 .. n -> Nat] /\ \A i \in 1 .. n : length[i] = 2
    BY <1>5
  <2>2. n \in Nat
    BY <1>3
  <2> HIDE DEF length, n
  <2>3. e[0] = 0 /\ \A i \in 1 .. n : e[i] = e[i - 1] + length[i]
    BY <2>1, <2>2, EndsOfIs
  <2> HIDE DEF e
  <2>4. QED
    BY <2>1, <2>3
<1> HIDE DEF e, f, n, value, S
<1>9. \A i \in 1 .. n : e[i - 1] = (i - 1) * 2 /\ i - 1 \in {0, 1}
  <2>1. \A i \in 1 .. n : i = 1 \/ (i = 2 /\ n = 2)
    BY <1>5
  <2>2. n = 2 => 1 \in 1 .. n /\ 1 - 1 = 0 /\ 2 - 1 = 1
    BY <1>5
  <2>3. n = 2 => e[1] = 2
    BY <1>8, <2>2
  <2>4. QED
    BY <1>8, <2>1, <2>2, <2>3
<1>10. Len(value) = n * 2
  <2>1. CASE n = 0
    BY <1>4, <1>8, <2>1
  <2>2. CASE n = 1
    <3>1. 1 \in 1 .. n /\ 1 - 1 = 0
      BY <2>2
    <3>2. e[1] = 2
      BY <1>8, <3>1
    <3>3. QED
      BY <1>4, <2>2, <3>2
  <2>3. CASE n = 2
    <3>1. 2 \in 1 .. n /\ 1 \in 1 .. n /\ 1 - 1 = 0 /\ 2 - 1 = 1
      BY <2>3
    <3>2. e[1] = 2
      BY <1>8, <3>1
    <3>3. e[2] = 4
      BY <1>8, <3>1, <3>2
    <3>4. QED
      BY <1>4, <2>3, <3>3
  <2>4. QED
    BY <1>5, <2>1, <2>2, <2>3
<1>11. \A i \in 1 .. n : Holds(value, (i - 1) * 2, f[i])
  BY <1>4, <1>9
<1>12. QED
  BY <1>2, <1>3, <1>4, <1>5, <1>9, <1>10, <1>11 DEF S, n, f, value

\* Two short addresses at most have room in the copy that is set aside, and are
\* read as they were written.
LEMMA AddressesReturn ==
    ASSUME NEW p, Typed(p), p.Type = "DestinationMacAddresses",
           \A a \in p.Value : Len(a) = UwbMacAddressLength.Short, Cardinality(p.Value) <= 2,
           NEW param, Reads(param, p)
    PROVE  ToDestinationAddresses(CopyOf(param), UwbMacAddressType.Short) = p
<1> DEFINE S == p.Value
           n == Cardinality(S)
           f == SetToSeq(S)
           value == ParamValue(p)
           v == param.paramValue
           w == Read(v, 0, 4)
<1>1. UwbMacAddressLength.Short = 2 /\ UwbMacAddressType.Short = 0
  BY DEF UwbMacAddressLength, UwbMacAddressType
<1>2. /\ p = Parameter("DestinationMacAddresses", S)
      /\ n \in {0, 1, 2}
      /\ f \in [1 .. n -> S] /\ \A a \in S : \E i \in 1 .. n : f[i] = a
      /\ value \in Seq(Int) /\ Len(value) = n * 2
      /\ \A i \in 1 .. n :
           /\ f[i] \in Seq(Int) /\ Len(f[i]) = 2
           /\ i - 1 \in {0, 1} /\ Holds(value, (i - 1) * 2, f[i])
  BY ShortAddressesAre
<1>6. v \in Seq(Int) /\ Holds(v, 0, value) /\ param.paramLength = Len(value)
  BY DEF Reads
<1>7. ToDestinationAddresses(CopyOf(param), 0) =
        Parameter("DestinationMacAddresses", {Read(w, (i - 1) * 2, 2) : i \in 1 .. (Len(value) \div 2)})
  <2>1. DOMAIN param = {"size", "paramType", "paramLength", "paramValue"}
    BY DEF Reads
  <2>2. /\ CopyOf(param).paramValue = Read(v, 0, SizeOf(UWB_APP_CONFIG_PARAM) - ParamHeader)
        /\ CopyOf(param).paramLength = param.paramLength
    BY <2>1 DEF CopyOf
  <2>3. SizeOf(UWB_APP_CONFIG_PARAM) - ParamHeader = 4
    BY ParameterSize, HeaderIs
  <2>4. CopyOf(param).paramValue = w /\ CopyOf(param).paramLength = Len(value)
    BY <1>6, <2>2, <2>3
  <2> HIDE DEF w, value
  <2>5. QED
    BY <1>1, <2>4 DEF ToDestinationAddresses
<1> HIDE DEF f, n, value, v, w, S
<1>11. Len(value) \div 2 = n
  BY <1>2
<1>12. ASSUME NEW i \in 1 .. n PROVE Read(w, (i - 1) * 2, 2) = f[i]
  <2> DEFINE at == (i - 1) * 2
  <2>1. at \in {0, 2} /\ at + 2 <= Len(value) /\ at + 2 <= 4
    BY <1>2
  <2>2. Holds(value, at, f[i]) /\ Len(f[i]) = 2 /\ f[i] \in Seq(Int)
    BY <1>2
  <2>3. Len(v) \in Nat /\ Len(value) <= Len(v) /\ Len(value) \in Nat
    BY <1>2, <1>6 DEF Holds
  <2>4. w \in [1 .. 4 -> Int] /\ Len(w) = 4
    BY <1>6, 0 \in Nat, 4 \in Nat, ReadTyped DEF w
  <2> HIDE DEF at
  <2>5. ASSUME NEW k \in 1 .. 2 PROVE w[at + k] = f[i][k]
    <3>1. at + k \in 1 .. 4 /\ at + k \in 1 .. Len(value)
      BY <2>1, <2>3
    <3>2. w[at + k] = v[at + k]
      <4> DEFINE j == at + k
      <4>1. j \in 1 .. 4 /\ j <= Len(v) /\ 0 + j = j
        BY <2>3, <3>1
      <4> HIDE DEF j
      <4>2. w[j] = v[j]
        BY <4>1 DEF w, Read
      <4>3. QED
        BY <4>2 DEF j
    <3>3. v[at + k] = value[at + k]
      <4> DEFINE j == at + k
      <4>1. j \in 1 .. Len(value) /\ 0 + j = j
        BY <3>1
      <4> HIDE DEF j
      <4>2. v[0 + j] = value[j]
        BY <1>6, <4>1 DEF Holds
      <4>3. QED
        BY <4>1, <4>2 DEF j
    <3>4. value[at + k] = f[i][k]
      BY <2>2 DEF Holds
    <3>5. QED
      BY <3>2, <3>3, <3>4
  <2>6. at + Len(f[i]) <= Len(w)
    BY <2>1, <2>2, <2>4
  <2>7. Holds(w, at, f[i])
    BY <2>2, <2>5, <2>6 DEF Holds
  <2>8. Read(w, at, Len(f[i])) = f[i]
    <3>1. at \in Nat /\ Len(w) \in Nat
      BY <2>1, <2>4
    <3>2. f[i] \in Seq(Int) /\ Holds(w, at, f[i])
      BY <2>2, <2>7
    <3>3. QED
      BY ONLY <3>1, <3>2, ReadIs
  <2>9. QED
    BY <2>2, <2>8 DEF at
<1>13. {Read(w, (i - 1) * 2, 2) : i \in 1 .. n} = S
  <2>1. {Read(w, (i - 1) * 2, 2) : i \in 1 .. n} = {f[i] : i \in 1 .. n}
    BY <1>12
  <2>2. {f[i] : i \in 1 .. n} = S
    BY <1>2
  <2>3. QED
    BY <2>1, <2>2
<1>14. QED
  BY <1>1, <1>2, <1>7, <1>11, <1>13

-----------------------------------------------------------------------------
(* Parameters in an array.                                                 *)

\* What arrives of the parameters, without the types that are lost.
Arrived(parameters, lost) ==
    LET destinations == Those(parameters, LAMBDA p : p.Type = "DestinationMacAddresses")
    IN  Those(parameters, LAMBDA p : p.Type \notin lost \cup {"DestinationMacAddresses"})
        \o (IF destinations = << >> THEN << >> ELSE <<Last(destinations)>>)

\* Parameters that the array has room for.
Fit(parameters) ==
    \A i \in DOMAIN parameters :
       /\ Typed(parameters[i])
       /\ parameters[i].Type = "DestinationMacAddresses" =>
            /\ \A a \in parameters[i].Value : Len(a) = UwbMacAddressLength.Short
            /\ Cardinality(parameters[i].Value) <= 2
            /\ \A j \in DOMAIN parameters :
                 parameters[j].Type = "MacAddressMode" =>
                    parameters[j].Value = UwbMacAddressType.Short

\* Where the parameters are that are kept in their order, and those of a type.
OtherPlaces(parameters, keepsMode) ==
    Places(Len(parameters),
           [i \in 1 .. Len(parameters) |->
               parameters[i].Type \notin (IF keepsMode THEN {} ELSE {"MacAddressMode"})
                                         \cup {"DestinationMacAddresses"}])

PlacesOf(parameters, type) ==
    Places(Len(parameters), [i \in 1 .. Len(parameters) |-> parameters[i].Type = type])

\* What is read of the parameters of one or more messages: those that are kept, and
\* the destination addresses last.
LEMMA ArrayIsRead ==
    ASSUME NEW parameters, AllWritable(parameters),
           NEW w, w.appConfigParams = ArrayOfParameters(parameters),
           w.appConfigParamsCount = Len(parameters), NEW keepsMode \in BOOLEAN
    PROVE  LET params == ParamsIn(ArrayOfParameters(parameters), Len(parameters))
               others == Chosen(params, OtherPlaces(parameters, keepsMode))
               destinations == Chosen(params, PlacesOf(parameters, "DestinationMacAddresses"))
               modes == Chosen(params, PlacesOf(parameters, "MacAddressMode"))
           IN  ToParameterArray(w, keepsMode)
                 = [i \in DOMAIN others |-> ToParameter(others[i])]
                   \o (IF destinations = << >> THEN << >>
                       ELSE <<ToDestinationAddresses(CopyOf(Last(destinations)),
                                IF modes = << >> THEN UwbMacAddressType.Short
                                ELSE ToParameter(Last(modes)).Value)>>)
<1> DEFINE n == Len(parameters)
           params == ParamsIn(ArrayOfParameters(parameters), n)
           lost == IF keepsMode THEN {} ELSE {"MacAddressMode"}
           destination == FromUwbParameterType("DestinationMacAddresses")
           mode == FromUwbParameterType("MacAddressMode")
           isOther == [i \in 1 .. n |-> parameters[i].Type \notin lost \cup {"DestinationMacAddresses"}]
           isDestination == [i \in 1 .. n |-> parameters[i].Type = "DestinationMacAddresses"]
           isMode == [i \in 1 .. n |-> parameters[i].Type = "MacAddressMode"]
           o == Places(n, isOther)
           d == Places(n, isDestination)
           m == Places(n, isMode)
           others == Chosen(params, o)
           destinations == Chosen(params, d)
           modes == Chosen(params, m)
<1>1. n \in Nat /\ DOMAIN parameters = 1 .. n /\ \A i \in 1 .. n : Writable(parameters[i])
  BY DEF AllWritable
<1>2. DOMAIN params = 1 .. n /\ \A i \in 1 .. n : Reads(params[i], parameters[i])
  BY ParamsInIs
<1> HIDE DEF params, n
<1>3. ASSUME NEW i \in 1 .. n
      PROVE  /\ params[i].paramType = destination <=> parameters[i].Type = "DestinationMacAddresses"
             /\ params[i].paramType = mode <=> parameters[i].Type = "MacAddressMode"
  <2>1. params[i].paramType = FromUwbParameterType(parameters[i].Type)
    BY <1>2 DEF Reads
  <2>2. parameters[i].Type \in ParameterType
    BY <1>1 DEF Writable
  <2>3. "DestinationMacAddresses" \in ParameterType /\ "MacAddressMode" \in ParameterType
    BY ParameterTypeNumbers DEF ParameterType
  <2>4. QED
    BY <2>1, <2>2, <2>3, ParameterTypeReturns
<1>4. ToParameterArray(w, keepsMode)
        = [i \in DOMAIN others |-> ToParameter(others[i])]
          \o (IF destinations = << >> THEN << >>
              ELSE <<ToDestinationAddresses(CopyOf(Last(destinations)),
                       IF modes = << >> THEN UwbMacAddressType.Short
                       ELSE ToParameter(Last(modes)).Value)>>)
  <2> DEFINE number == [t \in {"MacAddressMode", "DestinationMacAddresses"} |->
                           FromUwbParameterType(t)]
             D == FlattenSeq([i \in DOMAIN params |->
                    IF params[i].paramType = number["DestinationMacAddresses"]
                    THEN <<params[i]>> ELSE << >>])
             M == FlattenSeq([i \in DOMAIN params |->
                    IF params[i].paramType = number["MacAddressMode"]
                    THEN <<params[i]>> ELSE << >>])
             O == FlattenSeq([i \in DOMAIN params |->
                    IF /\ params[i].paramType # number["DestinationMacAddresses"]
                       /\ keepsMode \/ params[i].paramType # number["MacAddressMode"]
                    THEN <<params[i]>> ELSE << >>])
  <2>1. number["DestinationMacAddresses"] = destination /\ number["MacAddressMode"] = mode
    OBVIOUS
  <2>2. ToParameterArray(w, keepsMode)
          = [i \in DOMAIN O |-> ToParameter(O[i])]
            \o (IF D = << >> THEN << >>
                ELSE <<ToDestinationAddresses(CopyOf(Last(D)),
                         IF M = << >> THEN UwbMacAddressType.Short
                         ELSE ToParameter(Last(M)).Value)>>)
    <3>1. ParamsIn(w.appConfigParams, w.appConfigParamsCount) = params
      BY DEF params, n
    <3>2. QED
      BY <3>1 DEF ToParameterArray, Those
  <2> HIDE DEF number, destination, mode
  <2>3. ASSUME NEW i \in 1 .. n
        PROVE  /\ isOther[i] <=> /\ params[i].paramType # number["DestinationMacAddresses"]
                                 /\ keepsMode \/ params[i].paramType # number["MacAddressMode"]
               /\ isDestination[i] <=> params[i].paramType = number["DestinationMacAddresses"]
               /\ isMode[i] <=> params[i].paramType = number["MacAddressMode"]
    <3>1. isOther[i] <=> parameters[i].Type \notin lost \cup {"DestinationMacAddresses"}
      OBVIOUS
    <3>2. isDestination[i] <=> parameters[i].Type = "DestinationMacAddresses"
      OBVIOUS
    <3>3. isMode[i] <=> parameters[i].Type = "MacAddressMode"
      OBVIOUS
    <3>4. parameters[i].Type \notin lost \cup {"DestinationMacAddresses"} <=>
            /\ parameters[i].Type # "DestinationMacAddresses"
            /\ keepsMode \/ parameters[i].Type # "MacAddressMode"
      OBVIOUS
    <3> HIDE DEF isOther, isDestination, isMode, lost
    <3>5. QED
      BY <1>3, <2>1, <3>1, <3>2, <3>3, <3>4
  <2> HIDE DEF isOther, isDestination, isMode
  <2>4. D = destinations
    <3>1. D = Filtered(n, isDestination, params)
      BY <1>2, <2>3 DEF Filtered
    <3>2. Filtered(n, isDestination, params) = Chosen(params, Places(n, isDestination))
      BY <1>1, <1>2, KeptIs
    <3>3. QED
      BY <3>1, <3>2
  <2>5. M = modes
    <3>1. M = Filtered(n, isMode, params)
      BY <1>2, <2>3 DEF Filtered
    <3>2. Filtered(n, isMode, params) = Chosen(params, Places(n, isMode))
      BY <1>1, <1>2, KeptIs
    <3>3. QED
      BY <3>1, <3>2
  <2>6. O = others
    <3>1. O = Filtered(n, isOther, params)
      BY <1>2, <2>3 DEF Filtered
    <3>2. Filtered(n, isOther, params) = Chosen(params, Places(n, isOther))
      BY <1>1, <1>2, KeptIs
    <3>3. QED
      BY <3>1, <3>2
  <2> HIDE DEF O, D, M, others, destinations, modes
  <2>7. QED
    BY <2>2, <2>4, <2>5, <2>6
<1>5. QED
  BY <1>4 DEF OtherPlaces, PlacesOf, params, n

\* What is written of the parameters of one or more messages is read as it was,
\* the destination addresses last.
LEMMA ArrayReturns ==
    ASSUME NEW parameters, AllWritable(parameters), Fit(parameters),
           NEW w, w.appConfigParams = ArrayOfParameters(parameters),
           w.appConfigParamsCount = Len(parameters), NEW keepsMode \in BOOLEAN
    PROVE  ToParameterArray(w, keepsMode)
             = Arrived(parameters, IF keepsMode THEN {} ELSE {"MacAddressMode"})
<1> DEFINE n == Len(parameters)
           params == ParamsIn(ArrayOfParameters(parameters), n)
           lost == IF keepsMode THEN {} ELSE {"MacAddressMode"}
           destination == FromUwbParameterType("DestinationMacAddresses")
           mode == FromUwbParameterType("MacAddressMode")
           isOther == [i \in 1 .. n |-> parameters[i].Type \notin lost \cup {"DestinationMacAddresses"}]
           isDestination == [i \in 1 .. n |-> parameters[i].Type = "DestinationMacAddresses"]
           isMode == [i \in 1 .. n |-> parameters[i].Type = "MacAddressMode"]
           o == Places(n, isOther)
           d == Places(n, isDestination)
           m == Places(n, isMode)
           others == Chosen(params, o)
           destinations == Chosen(params, d)
           modes == Chosen(params, m)
<1>1. n \in Nat /\ DOMAIN parameters = 1 .. n /\ \A i \in 1 .. n : Writable(parameters[i])
  BY DEF AllWritable
<1>2. DOMAIN params = 1 .. n /\ \A i \in 1 .. n : Reads(params[i], parameters[i])
  BY ParamsInIs
<1> HIDE DEF params, n
<1>3. ASSUME NEW i \in 1 .. n
      PROVE  /\ params[i].paramType = destination <=> parameters[i].Type = "DestinationMacAddresses"
             /\ params[i].paramType = mode <=> parameters[i].Type = "MacAddressMode"
  <2>1. params[i].paramType = FromUwbParameterType(parameters[i].Type)
    BY <1>2 DEF Reads
  <2>2. parameters[i].Type \in ParameterType
    BY <1>1 DEF Writable
  <2>3. "DestinationMacAddresses" \in ParameterType /\ "MacAddressMode" \in ParameterType
    BY ParameterTypeNumbers DEF ParameterType
  <2>4. QED
    BY <2>1, <2>2, <2>3, ParameterTypeReturns
<1>4. ToParameterArray(w, keepsMode)
        = [i \in DOMAIN others |-> ToParameter(others[i])]
          \o (IF destinations = << >> THEN << >>
              ELSE <<ToDestinationAddresses(CopyOf(Last(destinations)),
                       IF modes = << >> THEN UwbMacAddressType.Short
                       ELSE ToParameter(Last(modes)).Value)>>)
  <2>1. o = OtherPlaces(parameters, keepsMode)
    BY DEF OtherPlaces, n
  <2>2. d = PlacesOf(parameters, "DestinationMacAddresses")
    BY DEF PlacesOf, n
  <2>3. m = PlacesOf(parameters, "MacAddressMode")
    BY DEF PlacesOf, n
  <2>4. params = ParamsIn(ArrayOfParameters(parameters), Len(parameters))
    BY DEF params, n
  <2> HIDE DEF o, d, m
  <2>5. QED
    BY <2>1, <2>2, <2>3, <2>4, ArrayIsRead
<1>5. Those(parameters, LAMBDA p : p.Type \notin lost \cup {"DestinationMacAddresses"})
        = Chosen(parameters, o)
  <2>1. [i \in 1 .. n |-> IF isOther[i] THEN <<parameters[i]>> ELSE <<>>]
          = [i \in DOMAIN parameters |->
               IF parameters[i].Type \notin lost \cup {"DestinationMacAddresses"}
               THEN <<parameters[i]>> ELSE <<>>]
    BY <1>1
  <2> HIDE DEF isOther, lost
  <2>2. Filtered(n, isOther, parameters) = Chosen(parameters, o)
    BY <1>1, KeptIs
  <2>3. QED
    BY <2>1, <2>2 DEF Those, Filtered
<1>6. Those(parameters, LAMBDA p : p.Type = "DestinationMacAddresses")
        = Chosen(parameters, d)
  <2>1. [i \in 1 .. n |-> IF isDestination[i] THEN <<parameters[i]>> ELSE <<>>]
          = [i \in DOMAIN parameters |->
               IF parameters[i].Type = "DestinationMacAddresses" THEN <<parameters[i]>> ELSE <<>>]
    BY <1>1
  <2> HIDE DEF isDestination
  <2>2. Filtered(n, isDestination, parameters) = Chosen(parameters, d)
    BY <1>1, KeptIs
  <2>3. QED
    BY <2>1, <2>2 DEF Those, Filtered
<1>7. /\ Len(o) \in Nat /\ \A j \in 1 .. Len(o) : o[j] \in 1 .. n /\ isOther[o[j]]
      /\ Len(d) \in Nat /\ \A j \in 1 .. Len(d) : d[j] \in 1 .. n /\ isDestination[d[j]]
      /\ Len(m) \in Nat /\ \A j \in 1 .. Len(m) : m[j] \in 1 .. n /\ isMode[m[j]]
  <2> HIDE DEF isOther, isDestination, isMode
  <2>1. o \in Seq(1 .. n) /\ d \in Seq(1 .. n) /\ m \in Seq(1 .. n)
    BY <1>1, PlacesAre
  <2>2. Len(o) \in Nat /\ Len(d) \in Nat /\ Len(m) \in Nat
    BY <2>1, LenProperties
  <2>3. QED
    BY <1>1, <2>2, PlacesAre
<1> HIDE DEF o, d, m
<1>8. \A j \in 1 .. Len(o) : ToParameter(params[o[j]]) = parameters[o[j]]
  <2> TAKE j \in 1 .. Len(o)
  <2> DEFINE i == o[j]
  <2>1. i \in 1 .. n /\ parameters[i].Type # "DestinationMacAddresses"
    BY <1>7
  <2> HIDE DEF i
  <2>2. Typed(parameters[i])
    BY <1>1, <2>1 DEF Fit
  <2>3. parameters[i].Alternative # "addresses"
    BY <2>1, <2>2, KindIs
  <2>4. ToParameter(params[i]) = parameters[i]
    BY <1>2, <2>1, <2>2, <2>3, ValueReturns
  <2>5. QED
    BY <2>4 DEF i
<1>9. [i \in DOMAIN others |-> ToParameter(others[i])] = Chosen(parameters, o)
  BY <1>8 DEF Chosen
<1>10. ASSUME Len(d) # 0
       PROVE  /\ Last(destinations) = params[d[Len(d)]] /\ destinations # << >>
              /\ Last(Chosen(parameters, d)) = parameters[d[Len(d)]]
              /\ Chosen(parameters, d) # << >>
              /\ ToDestinationAddresses(CopyOf(params[d[Len(d)]]),
                       IF modes = << >> THEN UwbMacAddressType.Short
                       ELSE ToParameter(Last(modes)).Value) = parameters[d[Len(d)]]
  <2> DEFINE k == Len(d)
             i == d[k]
  <2>1. k \in 1 .. k /\ Len(destinations) = k /\ Len(Chosen(parameters, d)) = k
    BY <1>7, <1>10 DEF Chosen
  <2>2. i \in 1 .. n /\ parameters[i].Type = "DestinationMacAddresses"
    BY <1>7, <2>1
  <2>3. /\ Last(destinations) = params[i] /\ destinations # << >>
        /\ Last(Chosen(parameters, d)) = parameters[i]
        /\ Chosen(parameters, d) # << >>
    BY <1>10, <2>1 DEF Last, Chosen
  <2> HIDE DEF i, k
  <2>4. /\ Typed(parameters[i]) /\ \A a \in parameters[i].Value : Len(a) = UwbMacAddressLength.Short
        /\ Cardinality(parameters[i].Value) <= 2
    BY <1>1, <2>2 DEF Fit
  <2>5. ToDestinationAddresses(CopyOf(params[i]), UwbMacAddressType.Short) = parameters[i]
    BY <1>2, <2>2, <2>4, AddressesReturn
  <2>6. ASSUME Len(m) # 0 PROVE ToParameter(Last(modes)).Value = UwbMacAddressType.Short
    <3> DEFINE h == m[Len(m)]
    <3>1. Len(m) \in 1 .. Len(m) /\ Len(modes) = Len(m)
      BY <1>7, <2>6 DEF Chosen
    <3>2. h \in 1 .. n /\ parameters[h].Type = "MacAddressMode"
      BY <1>7, <3>1
    <3>3. Last(modes) = params[h]
      BY <3>1 DEF Last, Chosen
    <3> HIDE DEF h
    <3>4. Typed(parameters[h]) /\ parameters[h].Value = UwbMacAddressType.Short
      BY <1>1, <2>2, <3>2 DEF Fit
    <3>5. parameters[h].Alternative # "addresses"
      BY <3>2, <3>4, KindIs
    <3>6. ToParameter(params[h]) = parameters[h]
      BY <1>2, <3>2, <3>4, <3>5, ValueReturns
    <3>7. QED
      BY <3>3, <3>4, <3>6
  <2>7. Len(m) = 0 => modes = << >>
    BY <1>7 DEF Chosen
  <2>8. QED
    <3> HIDE DEF modes, destinations
    <3> QED
      BY <2>3, <2>5, <2>6, <2>7 DEF i, k
<1>11. ASSUME Len(d) = 0
       PROVE  destinations = << >> /\ Chosen(parameters, d) = << >>
  BY <1>7, <1>11 DEF Chosen
<1> HIDE DEF others, destinations, modes, lost
<1>12. Arrived(parameters, lost)
         = Chosen(parameters, o)
           \o (IF Chosen(parameters, d) = << >> THEN << >>
               ELSE <<Last(Chosen(parameters, d))>>)
  BY <1>5, <1>6 DEF Arrived
<1>13. CASE Len(d) = 0
  BY <1>4, <1>9, <1>11, <1>12, <1>13 DEF lost
<1>14. CASE Len(d) # 0
  BY <1>4, <1>9, <1>10, <1>12, <1>14 DEF lost
<1>15. QED
  BY <1>13, <1>14

-----------------------------------------------------------------------------
(* The messages of each kind.                                              *)

\* The bytes of any value.
LEMMA ValueIs ==
    ASSUME NEW p, Typed(p)
    PROVE  /\ ParamValue(p) \in Seq(Int)
           /\ p.Alternative # "addresses" => Len(ParamValue(p)) \in 0 .. 8
<1>1. CASE p.Alternative = "addresses"
  <2>1. IsFiniteSet(p.Value) /\ \A a \in p.Value : a \in Seq(Int)
    BY <1>1, AddressIs DEF Typed
  <2>2. ParamValue(p) = FlattenSeq(SetToSeq(p.Value))
    BY <1>1, ParamValueIs
  <2>3. FlattenSeq(SetToSeq(p.Value)) \in Seq(Int)
    BY <2>1, AddressesAre
  <2>4. QED
    BY <1>1, <2>2, <2>3
<1>2. CASE p.Alternative = "address"
  BY <1>2, ParamValueIs, AddressIs DEF Typed
<1>3. CASE p.Alternative = "vector"
  <2>1. StaticStsInitializationVectorLength = 6
    BY DEF StaticStsInitializationVectorLength
  <2>2. QED
    BY <1>3, <2>1, ParamValueIs, VectorIs DEF Typed
<1>4. CASE p.Alternative = "reports"
  <2>1. Bits(p.Value) \in 0 .. 15
    BY <1>4, BitsReturn DEF Typed
  <2>2. ParamValue(p) = <<Bits(p.Value)>>
    BY <1>4, ParamValueIs
  <2>3. QED
    BY <2>1, <2>2
<1>5. CASE p.Alternative \notin {"addresses", "address", "vector", "reports"}
  <2> DEFINE n == AlternativeBytes(p.Alternative, p.Type)
  <2>1. n \in {1, 2, 4}
    BY AlternativeBytesIs
  <2>2. ParamValue(p) = LittleEndian(p.Value, n) /\ WithinBytes(p.Value, n)
    BY <1>5, ParamValueIs DEF Typed
  <2> HIDE DEF n
  <2>3. QED
    BY <2>1, <2>2, LittleEndianIs
<1>6. QED
  BY <1>1, <1>2, <1>3, <1>4, <1>5

LEMMA FitIsWritable ==
    ASSUME NEW parameters, Len(parameters) \in Nat, DOMAIN parameters = 1 .. Len(parameters),
           Fit(parameters)
    PROVE  AllWritable(parameters)
<1>1. ASSUME NEW i \in DOMAIN parameters PROVE Writable(parameters[i])
  <2> DEFINE p == parameters[i]
             length == Len(ParamValue(p))
  <2>1. Typed(p) /\ p.Type \in ParameterType
    BY DEF Fit, Typed
  <2>2. length \in 0 .. 8
    <3>1. CASE p.Type = "DestinationMacAddresses"
      <4>1. (\A a \in p.Value : Len(a) = UwbMacAddressLength.Short) /\ Cardinality(p.Value) <= 2
        BY <3>1 DEF Fit
      <4> HIDE DEF p
      <4>2. Cardinality(p.Value) \in {0, 1, 2} /\ Len(ParamValue(p)) = Cardinality(p.Value) * 2
        BY <2>1, <3>1, <4>1, ShortAddressesAre
      <4>3. QED
        BY <4>2
    <3>2. CASE p.Type # "DestinationMacAddresses"
      <4> HIDE DEF p
      <4>1. QED
        BY <2>1, <3>2, KindIs, ValueIs
    <3>3. QED
      BY <3>1, <3>2
  <2>3. ParamValue(p) \in Seq(Int)
    BY <2>1, ValueIs
  <2> HIDE DEF length
  <2>4. WithinBytes(12 + length, 4)
    BY <2>2 DEF WithinBytes
  <2>5. QED
    BY <2>1, <2>3, <2>4 DEF Writable, length
<1>2. QED
  BY <1>1 DEF AllWritable

\* What arrives of parameters that fit.
LEMMA SetParametersReturn ==
    ASSUME NEW m, m = [SessionId |-> m.SessionId, Parameters |-> m.Parameters],
           Len(m.Parameters) \in Nat, DOMAIN m.Parameters = 1 .. Len(m.Parameters),
           Fits("SetParameters", m)
    PROVE  Decode("SetParameters", Encode("SetParameters", m).content) = Normal("SetParameters", m)
<1> DEFINE parameters == m.Parameters
           w == Encode("SetParameters", m).content
<1>1. w = [header |-> [sessionId |-> m.SessionId], appConfigParamsCount |-> Len(parameters),
           appConfigParams |-> ArrayOfParameters(parameters)]
  BY DEF Encode, FromSetParameters, FromParameterArray, Wrapper, ArrayOfParameters
<1>2. Fit(parameters)
  BY DEF Fits, Fit
<1>3. AllWritable(parameters)
  BY <1>2, FitIsWritable
<1>4. Decode("SetParameters", w) = [SessionId |-> w.header.sessionId, Parameters |-> ToParameterArray(w, FALSE)]
  BY DEF Decode, ToSetParameters
<1> HIDE DEF w
<1>5. ToParameterArray(w, FALSE) = Arrived(parameters, {"MacAddressMode"})
  BY <1>1, <1>2, <1>3, ArrayReturns
<1>6. Normal("SetParameters", m) = [m EXCEPT !.Parameters = Arrived(parameters, {"MacAddressMode"})]
  BY DEF Normal, Arrived
<1>7. w.header.sessionId = m.SessionId
  BY <1>1
<1>8. QED
  BY <1>4, <1>5, <1>6, <1>7 DEF w

LEMMA ParametersReturn ==
    ASSUME NEW m, Len(m) \in Nat, DOMAIN m = 1 .. Len(m), Fits("Parameters", m)
    PROVE  Decode("Parameters", Encode("Parameters", m).content) = Normal("Parameters", m)
<1> DEFINE w == Encode("Parameters", m).content
<1>1. w = [header |-> [status |-> UWB_STATUS.OK], appConfigParamsCount |-> Len(m),
           appConfigParams |-> ArrayOfParameters(m)]
  BY DEF Encode, FromParameters, FromParameterArray, Wrapper, ArrayOfParameters
<1>2. Fit(m)
  BY DEF Fits, Fit
<1>3. AllWritable(m)
  BY <1>2, FitIsWritable
<1>4. Decode("Parameters", w) = ToParameterArray(w, TRUE)
  BY DEF Decode, ToParameters
<1> HIDE DEF w
<1>5. ToParameterArray(w, TRUE) = Arrived(m, {})
  BY <1>1, <1>2, <1>3, ArrayReturns
<1>6. Normal("Parameters", m) = Arrived(m, {})
  BY DEF Normal, Arrived
<1>7. QED
  BY <1>4, <1>5, <1>6 DEF w

LEMMA GetParametersReturn ==
    ASSUME NEW m \in Message["GetParameters"]
    PROVE  Decode("GetParameters", Encode("GetParameters", m).content) = Normal("GetParameters", m)
<1> DEFINE w == Encode("GetParameters", m).content
           types == m.ParameterTypes
           n == Len(types)
<1>1. m = [SessionId |-> m.SessionId, ParameterTypes |-> types] /\ types \in Seq(ParameterType)
  BY DEF Message
<1>2. w = [sessionId |-> m.SessionId, appConfigParamsCount |-> n,
           appConfigParams |-> [i \in 1 .. n |-> FromUwbParameterType(types[i])]]
  BY DEF Encode, FromGetParameters, Wrapper
<1>3. Decode("GetParameters", w) = [SessionId |-> w.sessionId,
        ParameterTypes |-> [i \in 1 .. w.appConfigParamsCount |->
                              ToUwbParameterType(w.appConfigParams[i])]]
  BY DEF Decode, ToGetParameters
<1>4. Normal("GetParameters", m) = m
  BY DEF Normal
<1> HIDE DEF w
<1>5. [i \in 1 .. n |-> ToUwbParameterType(w.appConfigParams[i])] = types
  <2>1. \A i \in 1 .. n : ToUwbParameterType(w.appConfigParams[i]) = types[i]
    BY <1>1, <1>2, ParameterTypeReturns
  <2>2. types = [i \in 1 .. n |-> types[i]]
    BY <1>1
  <2>3. QED
    BY <2>1, <2>2
<1>6. w.sessionId = m.SessionId /\ w.appConfigParamsCount = n
  BY <1>2
<1> HIDE DEF n, types
<1>7. Decode("GetParameters", w) = [SessionId |-> m.SessionId, ParameterTypes |-> types]
  BY <1>3, <1>5, <1>6
<1>8. QED
  BY <1>1, <1>4, <1>7 DEF w

LEMMA ParameterStatusesReturn ==
    ASSUME NEW m \in Message["ParameterStatuses"]
    PROVE  Decode("ParameterStatuses", Encode("ParameterStatuses", m).content)
             = Normal("ParameterStatuses", m)
<1> DEFINE w == Encode("ParameterStatuses", m).content
           statuses == m.ParameterStatuses
           n == Len(statuses)
           S == [Status : UwbStatus, ParameterType : ParameterType]
<1>1. /\ m = [Status |-> m.Status, ParameterStatuses |-> statuses] /\ m.Status \in UwbStatus
      /\ statuses \in Seq(S)
  BY DEF Message
<1>2. w = [status |-> FromUwbStatus(m.Status), appConfigParamsCount |-> n,
           appConfigParamsStatus |-> [i \in 1 .. n |-> FromParameterStatus(statuses[i])]]
  BY DEF Encode, FromSetParametersStatus, Wrapper
<1>3. Decode("ParameterStatuses", w) = [Status |-> ToUwbStatus(w.status),
        ParameterStatuses |-> [i \in 1 .. w.appConfigParamsCount |->
                                 ToParameterStatus(w.appConfigParamsStatus[i])]]
  BY DEF Decode, ToSetParametersStatus
<1>4. Normal("ParameterStatuses", m) = m
  BY DEF Normal
<1>5. ASSUME NEW s \in S PROVE ToParameterStatus(FromParameterStatus(s)) = s
  <2>1. s = [Status |-> s.Status, ParameterType |-> s.ParameterType]
        /\ s.Status \in UwbStatus /\ s.ParameterType \in ParameterType
    OBVIOUS
  <2>2. ToParameterStatus(FromParameterStatus(s)) = [Status |-> ToUwbStatus(FromUwbStatus(s.Status)),
          ParameterType |-> ToUwbParameterType(FromUwbParameterType(s.ParameterType))]
    BY DEF ToParameterStatus, FromParameterStatus
  <2>3. QED
    BY <2>1, <2>2, StatusReturns, ParameterTypeReturns
<1> HIDE DEF w, S
<1>6. [i \in 1 .. n |-> ToParameterStatus(w.appConfigParamsStatus[i])] = statuses
  <2>1. \A i \in 1 .. n : ToParameterStatus(w.appConfigParamsStatus[i]) = statuses[i]
    BY <1>1, <1>2, <1>5
  <2>2. statuses = [i \in 1 .. n |-> statuses[i]]
    BY <1>1
  <2>3. QED
    BY <2>1, <2>2
<1>7. ToUwbStatus(w.status) = m.Status
  BY <1>1, <1>2, StatusReturns
<1>8. w.appConfigParamsCount = n
  BY <1>2
<1> HIDE DEF n, statuses
<1>9. Decode("ParameterStatuses", w) = [Status |-> m.Status, ParameterStatuses |-> statuses]
  BY <1>3, <1>6, <1>7, <1>8
<1>10. QED
  BY <1>1, <1>4, <1>9 DEF w

\* The enumerators that the messages have.
LEMMA EnumeratorReturns ==
    /\ \A x \in UwbMulticastAction : Name("UwbMulticastAction", Number("UwbMulticastAction", x)) = x
    /\ \A x \in UwbStatusMulticast : Name("UwbStatusMulticast", Number("UwbStatusMulticast", x)) = x
    /\ \A x \in UwbSessionState : Name("UwbSessionState", Number("UwbSessionState", x)) = x
    /\ \A x \in UwbSessionReasonCode :
         Name("UwbSessionReasonCode", Number("UwbSessionReasonCode", x)) = x
    /\ \A x \in UwbLineOfSightIndicator :
         Name("UwbLineOfSightIndicator", Number("UwbLineOfSightIndicator", x)) = x
    /\ \A x \in UwbRangingMeasurementType :
         Name("UwbRangingMeasurementType", Number("UwbRangingMeasurementType", x)) = x
    /\ \A x \in {"Short", "Extended"} :
         Name("UwbMacAddressType", Number("UwbMacAddressType", x)) = x
<1>1. {"UwbMulticastAction", "UwbStatusMulticast", "UwbSessionState", "UwbSessionReasonCode",
       "UwbLineOfSightIndicator", "UwbRangingMeasurementType", "UwbMacAddressType"}
        \subseteq DOMAIN Tables
  BY DEF Tables
<1>2. /\ DOMAIN Tables["UwbMulticastAction"].from = UwbMulticastAction
      /\ DOMAIN Tables["UwbStatusMulticast"].from = UwbStatusMulticast
  BY DEF Tables, FromMulticastAction, UwbMulticastAction, FromStatusMulticast, UwbStatusMulticast
<1>3. /\ DOMAIN Tables["UwbSessionState"].from = UwbSessionState
      /\ DOMAIN Tables["UwbSessionReasonCode"].from = UwbSessionReasonCode
  BY DEF Tables, FromSessionState, UwbSessionState, FromSessionReasonCode, UwbSessionReasonCode
<1>4. /\ DOMAIN Tables["UwbLineOfSightIndicator"].from = UwbLineOfSightIndicator
      /\ DOMAIN Tables["UwbRangingMeasurementType"].from = UwbRangingMeasurementType
      /\ DOMAIN Tables["UwbMacAddressType"].from = {"Short", "Extended"}
  BY DEF Tables, FromLineOfSightIndicator, UwbLineOfSightIndicator, FromRangingMeasurementType,
         UwbRangingMeasurementType, FromMacAddressType
<1>5. QED
  BY <1>1, <1>2, <1>3, <1>4, EnumeratorsReturn

\* A short address is a number on the way.
LEMMA ShortAddressReturns ==
    ASSUME NEW a \in ShortAddress
    PROVE  /\ GetValueShort(a) \in Nat
           /\ <<GetValueShort(a) % 256, GetValueShort(a) \div 256>> = a
<1>1. a \in [1 .. 2 -> 0 .. 255]
  BY DEF ShortAddress, Byte, UwbMacAddressLength
<1>2. a[1] \in 0 .. 255 /\ a[2] \in 0 .. 255 /\ a = <<a[1], a[2]>>
  BY <1>1, SMTT(40)
<1>3. PICK x \in 0 .. 255, y \in 0 .. 255 : x = a[1] /\ y = a[2]
  BY <1>2
<1>4. (y * 256 + x) % 256 = x /\ (y * 256 + x) \div 256 = y /\ y * 256 + x \in Nat
  OBVIOUS
<1>5. GetValueShort(a) = y * 256 + x
  BY <1>3 DEF GetValueShort
<1>6. QED
  BY <1>2, <1>3, <1>4, <1>5

LEMMA MulticastListReturns ==
    ASSUME NEW m \in Message["MulticastList"]
    PROVE  Decode("MulticastList", Encode("MulticastList", m).content) = Normal("MulticastList", m)
<1> DEFINE w == Encode("MulticastList", m).content
           controlees == m.Controlees
           n == Len(controlees)
           S == [ControleeMacAddress : ShortAddress, SubSessionId : Nat]
<1>1. /\ m = [SessionId |-> m.SessionId, Action |-> m.Action, Controlees |-> controlees]
      /\ m.Action \in UwbMulticastAction /\ controlees \in Seq(S)
  BY DEF Message
<1>2. w = [sessionId |-> m.SessionId, action |-> Number("UwbMulticastAction", m.Action),
           numberOfControlees |-> n,
           controleeList |-> [i \in 1 .. n |-> FromMulticastListEntry(controlees[i])]]
  BY DEF Encode, FromMulticastList, Wrapper
<1>3. Decode("MulticastList", w) =
        [SessionId |-> w.sessionId, Action |-> Name("UwbMulticastAction", w.action),
         Controlees |-> [i \in 1 .. w.numberOfControlees |-> ToMulticastListEntry(w.controleeList[i])]]
  BY DEF Decode, ToMulticastList
<1>4. Normal("MulticastList", m) = m
  BY DEF Normal
<1>5. ASSUME NEW s \in S PROVE ToMulticastListEntry(FromMulticastListEntry(s)) = s
  <2>1. s = [ControleeMacAddress |-> s.ControleeMacAddress, SubSessionId |-> s.SubSessionId]
        /\ s.ControleeMacAddress \in ShortAddress
    OBVIOUS
  <2>2. ToMulticastListEntry(FromMulticastListEntry(s)) =
          [ControleeMacAddress |-> <<GetValueShort(s.ControleeMacAddress) % 256,
                                     GetValueShort(s.ControleeMacAddress) \div 256>>,
           SubSessionId |-> s.SubSessionId]
    BY DEF ToMulticastListEntry, FromMulticastListEntry
  <2>3. QED
    BY <2>1, <2>2, ShortAddressReturns
<1> HIDE DEF w, S
<1>6. [i \in 1 .. n |-> ToMulticastListEntry(w.controleeList[i])] = controlees
  <2>1. \A i \in 1 .. n : ToMulticastListEntry(w.controleeList[i]) = controlees[i]
    BY <1>1, <1>2, <1>5
  <2>2. controlees = [i \in 1 .. n |-> controlees[i]]
    BY <1>1
  <2>3. QED
    BY <2>1, <2>2
<1>7. Name("UwbMulticastAction", w.action) = m.Action
  BY <1>1, <1>2, EnumeratorReturns
<1>8. w.numberOfControlees = n /\ w.sessionId = m.SessionId
  BY <1>2
<1> HIDE DEF n, controlees
<1>9. Decode("MulticastList", w)
        = [SessionId |-> m.SessionId, Action |-> m.Action, Controlees |-> controlees]
  BY <1>3, <1>6, <1>7, <1>8
<1>10. QED
  BY <1>1, <1>4, <1>9 DEF w

\* Both halves of the byte of a version whose minor number is 0.
LEMMA VersionReturns ==
    ASSUME NEW x \in 0 .. 15
    PROVE  BitOr(0, x) = x /\ x \div 16 = 0 /\ x % 16 = x
<1>1. x \div 16 = 0 /\ x % 16 = x
  OBVIOUS
<1>2. \A n \in {1, 2, 4, 8, 16, 32, 64, 128} : (0 \div n) % 2 # 1
  OBVIOUS
<1>3. \A n \in {16, 32, 64, 128} : (x \div n) % 2 # 1
  OBVIOUS
<1>4. BitOr(0, x) = (IF (x \div 1) % 2 = 1 THEN 1 ELSE 0) + (IF (x \div 2) % 2 = 1 THEN 2 ELSE 0)
                    + (IF (x \div 4) % 2 = 1 THEN 4 ELSE 0) + (IF (x \div 8) % 2 = 1 THEN 8 ELSE 0)
  BY <1>2, <1>3 DEF BitOr
<1>5. QED
  BY <1>1, <1>4

LEMMA DeviceInformationReturns ==
    ASSUME NEW m \in Message["DeviceInformation"], Fits("DeviceInformation", m)
    PROVE  Decode("DeviceInformation", Encode("DeviceInformation", m).content)
             = Normal("DeviceInformation", m)
<1> DEFINE w == Encode("DeviceInformation", m).content
           vendor == IF m.VendorSpecificInfo = None THEN << >> ELSE m.VendorSpecificInfo
           V == [Major : Byte, Minor : Byte, Maintenance : Byte]
           info == IF m.VendorSpecificInfo = << >> THEN None ELSE m.VendorSpecificInfo
<1>1. /\ m = [Version |-> m.Version, Status |-> m.Status,
              VendorSpecificInfo |-> m.VendorSpecificInfo]
      /\ m.Version \in [Versions -> V] /\ m.Status \in UwbStatus
      /\ m.VendorSpecificInfo = None \/ m.VendorSpecificInfo \in Seq(Byte)
  BY DEF Message
<1>2. w = [status |-> FromUwbStatus(m.Status),
           versions |-> [v \in Versions |-> FromUwbVersion(m.Version[v])],
           vendorSpecificInfoLength |-> Len(vendor), vendorSpecificInfo |-> vendor]
  BY DEF Encode, FromDeviceInformation, Wrapper
<1>3. Decode("DeviceInformation", w) =
        [Version |-> [v \in Versions |->
                        FromUci(w.versions[v].major, w.versions[v].minorAndMaintenance)],
         Status |-> ToUwbStatus(w.status),
         VendorSpecificInfo |-> IF w.vendorSpecificInfoLength > 0 THEN w.vendorSpecificInfo ELSE None]
  BY DEF Decode, ToDeviceInformation
<1>4. Normal("DeviceInformation", m) = [m EXCEPT !.VendorSpecificInfo = info]
  BY DEF Normal
<1>5. \A v \in Versions : m.Version[v].Minor = 0 /\ m.Version[v].Maintenance < 16
  BY DEF Fits
<1> HIDE DEF w, vendor, info, V
<1>6. ASSUME NEW v \in Versions
      PROVE  FromUci(w.versions[v].major, w.versions[v].minorAndMaintenance) = m.Version[v]
  <2> DEFINE u == m.Version[v]
  <2>1. u \in V
    BY <1>1
  <2>2. u = [Major |-> u.Major, Minor |-> u.Minor, Maintenance |-> u.Maintenance]
        /\ u.Minor = 0 /\ u.Maintenance \in 0 .. 15
    BY <1>5, <2>1 DEF V, Byte
  <2>3. w.versions[v] = [major |-> u.Major, minorAndMaintenance |-> BitOr(u.Minor, u.Maintenance)]
    BY <1>2 DEF FromUwbVersion
  <2> HIDE DEF u
  <2>4. FromUci(w.versions[v].major, w.versions[v].minorAndMaintenance)
          = [Major |-> u.Major, Minor |-> 0, Maintenance |-> u.Maintenance]
    BY <2>2, <2>3, VersionReturns DEF FromUci
  <2>5. QED
    BY <2>2, <2>4 DEF u
<1>7. [v \in Versions |-> FromUci(w.versions[v].major, w.versions[v].minorAndMaintenance)] = m.Version
  <2>1. m.Version = [v \in Versions |-> m.Version[v]]
    BY <1>1
  <2>2. QED
    BY <1>6, <2>1
<1>8. ToUwbStatus(w.status) = m.Status
  BY <1>1, <1>2, StatusReturns
<1>9. (IF w.vendorSpecificInfoLength > 0 THEN w.vendorSpecificInfo ELSE None) = info
  <2>1. w.vendorSpecificInfoLength = Len(vendor) /\ w.vendorSpecificInfo = vendor
    BY <1>2
  <2>2. CASE m.VendorSpecificInfo = None
    <3>1. vendor = << >> /\ Len(vendor) = 0
      BY <2>2 DEF vendor
    <3>2. QED
      BY <2>1, <2>2, <3>1 DEF info
  <2>3. CASE m.VendorSpecificInfo # None
    <3>1. vendor = m.VendorSpecificInfo /\ vendor \in Seq(Byte)
      BY <1>1, <2>3 DEF vendor
    <3>2. Len(vendor) \in Nat /\ (Len(vendor) = 0 <=> vendor = << >>)
      BY <3>1
    <3>3. QED
      BY <2>1, <3>1, <3>2 DEF info
  <2>4. QED
    BY <2>2, <2>3
<1>10. Decode("DeviceInformation", w)
         = [Version |-> m.Version, Status |-> m.Status, VendorSpecificInfo |-> info]
  BY <1>3, <1>7, <1>8, <1>9
<1>11. QED
  BY <1>1, <1>4, <1>10 DEF w

LEMMA NotificationIs ==
    ASSUME NEW w, NEW type \in DOMAIN UWB_NOTIFICATION_TYPE,
           w.notificationType = UWB_NOTIFICATION_TYPE[type]
    PROVE  /\ type = "DEVICE_STATUS" => ToNotificationData(w) = ToStatusDeviceMessage(w.union)
           /\ type = "GENERIC_ERROR" => ToNotificationData(w) = [Status |-> ToUwbStatus(w.union.status)]
           /\ type = "SESSION_STATUS" => ToNotificationData(w) = ToSessionStatus(w.union)
           /\ type = "SESSION_UPDATE_CONTROLLER_MULTICAST_LIST" =>
                 ToNotificationData(w) = ToMulticastListNotification(w.union)
           /\ type = "RANGING_DATA" => ToNotificationData(w) = ToRangingData(w.union)
<1>1. NameOf(UWB_NOTIFICATION_TYPE, w.notificationType) = type
  BY NotificationNumbers, NameOfIs
<1>2. CASE type = "DEVICE_STATUS"
  BY <1>1, <1>2, Zenon DEF ToNotificationData
<1>3. CASE type = "GENERIC_ERROR"
  BY <1>1, <1>3, Zenon DEF ToNotificationData
<1>4. CASE type = "SESSION_STATUS"
  BY <1>1, <1>4, Zenon DEF ToNotificationData
<1>5. CASE type = "SESSION_UPDATE_CONTROLLER_MULTICAST_LIST"
  BY <1>1, <1>5, Zenon DEF ToNotificationData
<1>6. CASE type = "RANGING_DATA"
  BY <1>1, <1>6, Zenon DEF ToNotificationData
<1>7. type \in {"DEVICE_STATUS", "GENERIC_ERROR", "SESSION_STATUS",
                "SESSION_UPDATE_CONTROLLER_MULTICAST_LIST", "RANGING_DATA"}
  BY NotificationNumbers
<1>8. QED
  BY <1>2, <1>3, <1>4, <1>5, <1>6, <1>7

Notifications ==
    {"UwbStatus", "UwbStatusDevice", "UwbSessionStatus", "UwbSessionUpdateMulticastListStatus",
     "UwbRangingData"}

LEMMA NotificationPasses ==
    ASSUME NEW kind \in Notifications, NEW m
    PROVE  /\ Encode(kind, m) = FromNotificationData(kind, m)
           /\ \A w : Decode(kind, w) = ToNotificationData(w)
<1>1. kind \notin {"SetParameters", "GetParameters", "Parameters", "ParameterStatuses",
                   "MulticastList", "DeviceInformation"}
  BY DEF Notifications
<1>2. QED
  BY <1>1, Zenon DEF Encode, Decode

\* The wrapper of each notification.
LEMMA FromNotificationIs ==
    ASSUME NEW value
    PROVE  LET s == UWB_NOTIFICATION_DATA
               notification(type, size, union) ==
                  Wrapper(s, SizeOf(s) + size, OffsetOf(s, 3) + size,
                          [notificationType |-> UWB_NOTIFICATION_TYPE[type], union |-> union])
           IN  /\ FromNotificationData("UwbStatus", value) =
                    notification("GENERIC_ERROR", u32.size, [status |-> FromUwbStatus(value.Status)])
               /\ FromNotificationData("UwbStatusDevice", value) =
                    notification("DEVICE_STATUS", SizeOf(UWB_DEVICE_STATUS),
                                 FromStatusDeviceMessage(value))
               /\ FromNotificationData("UwbSessionStatus", value) =
                    notification("SESSION_STATUS", SizeOf(UWB_SESSION_STATUS), FromSessionStatus(value))
               /\ FromNotificationData("UwbSessionUpdateMulticastListStatus", value) =
                    LET w == FromMulticastListNotification(value) IN
                    notification("SESSION_UPDATE_CONTROLLER_MULTICAST_LIST", w.total, w.content)
               /\ FromNotificationData("UwbRangingData", value) =
                    LET w == FromRangingData(value) IN
                    notification("RANGING_DATA", w.total, w.content)
<1>1. /\ "UwbStatus" # "UwbStatusDevice" /\ "UwbStatus" # "UwbSessionStatus"
      /\ "UwbStatus" # "UwbSessionUpdateMulticastListStatus" /\ "UwbStatus" # "UwbRangingData"
      /\ "UwbStatusDevice" # "UwbSessionStatus"
      /\ "UwbStatusDevice" # "UwbSessionUpdateMulticastListStatus"
      /\ "UwbStatusDevice" # "UwbRangingData"
      /\ "UwbSessionStatus" # "UwbSessionUpdateMulticastListStatus"
      /\ "UwbSessionStatus" # "UwbRangingData"
      /\ "UwbSessionUpdateMulticastListStatus" # "UwbRangingData"
  OBVIOUS
<1> DEFINE s == UWB_NOTIFICATION_DATA
           notification(type, size, union) ==
              Wrapper(s, SizeOf(s) + size, OffsetOf(s, 3) + size,
                      [notificationType |-> UWB_NOTIFICATION_TYPE[type], union |-> union])
<1>2. FromNotificationData("UwbStatus", value) =
        notification("GENERIC_ERROR", u32.size, [status |-> FromUwbStatus(value.Status)])
  BY <1>1, Zenon DEF FromNotificationData
<1>3. FromNotificationData("UwbStatusDevice", value) =
        notification("DEVICE_STATUS", SizeOf(UWB_DEVICE_STATUS), FromStatusDeviceMessage(value))
  BY <1>1, Zenon DEF FromNotificationData
<1>4. FromNotificationData("UwbSessionStatus", value) =
        notification("SESSION_STATUS", SizeOf(UWB_SESSION_STATUS), FromSessionStatus(value))
  BY <1>1, Zenon DEF FromNotificationData
<1>5. FromNotificationData("UwbSessionUpdateMulticastListStatus", value) =
        notification("SESSION_UPDATE_CONTROLLER_MULTICAST_LIST",
             FromMulticastListNotification(value).total, FromMulticastListNotification(value).content)
  BY <1>1, Zenon DEF FromNotificationData
<1>6. FromNotificationData("UwbRangingData", value) =
        notification("RANGING_DATA", FromRangingData(value).total, FromRangingData(value).content)
  BY <1>1, Zenon DEF FromNotificationData
<1>7. QED
  BY <1>2, <1>3, <1>4, <1>5, <1>6

LEMMA NotificationContent ==
    ASSUME NEW m
    PROVE  LET sent(type, union) == [notificationType |-> UWB_NOTIFICATION_TYPE[type], union |-> union]
           IN  /\ Encode("UwbStatus", m).content =
                    sent("GENERIC_ERROR", [status |-> FromUwbStatus(m.Status)])
               /\ Encode("UwbStatusDevice", m).content =
                    sent("DEVICE_STATUS", FromStatusDeviceMessage(m))
               /\ Encode("UwbSessionStatus", m).content =
                    sent("SESSION_STATUS", FromSessionStatus(m))
               /\ Encode("UwbSessionUpdateMulticastListStatus", m).content =
                    sent("SESSION_UPDATE_CONTROLLER_MULTICAST_LIST", FromMulticastListNotification(m).content)
               /\ Encode("UwbRangingData", m).content =
                    sent("RANGING_DATA", FromRangingData(m).content)
<1> DEFINE s == UWB_NOTIFICATION_DATA
           sent(type, union) == [notificationType |-> UWB_NOTIFICATION_TYPE[type], union |-> union]
<1>1. Encode("UwbStatus", m).content = sent("GENERIC_ERROR", [status |-> FromUwbStatus(m.Status)])
  <2>1. Encode("UwbStatus", m) = FromNotificationData("UwbStatus", m)
    BY NotificationPasses DEF Notifications
  <2>2. FromNotificationData("UwbStatus", m)
          = Wrapper(s, SizeOf(s) + u32.size, OffsetOf(s, 3) + u32.size,
                    sent("GENERIC_ERROR", [status |-> FromUwbStatus(m.Status)]))
    BY FromNotificationIs
  <2>3. QED
    BY <2>1, <2>2 DEF Wrapper
<1>2. Encode("UwbStatusDevice", m).content = sent("DEVICE_STATUS", FromStatusDeviceMessage(m))
  <2>1. Encode("UwbStatusDevice", m) = FromNotificationData("UwbStatusDevice", m)
    BY NotificationPasses DEF Notifications
  <2>2. FromNotificationData("UwbStatusDevice", m)
          = Wrapper(s, SizeOf(s) + SizeOf(UWB_DEVICE_STATUS), OffsetOf(s, 3) + SizeOf(UWB_DEVICE_STATUS),
                    sent("DEVICE_STATUS", FromStatusDeviceMessage(m)))
    BY FromNotificationIs
  <2>3. QED
    BY <2>1, <2>2 DEF Wrapper
<1>3. Encode("UwbSessionStatus", m).content = sent("SESSION_STATUS", FromSessionStatus(m))
  <2>1. Encode("UwbSessionStatus", m) = FromNotificationData("UwbSessionStatus", m)
    BY NotificationPasses DEF Notifications
  <2>2. FromNotificationData("UwbSessionStatus", m)
          = Wrapper(s, SizeOf(s) + SizeOf(UWB_SESSION_STATUS), OffsetOf(s, 3) + SizeOf(UWB_SESSION_STATUS),
                    sent("SESSION_STATUS", FromSessionStatus(m)))
    BY FromNotificationIs
  <2>3. QED
    BY <2>1, <2>2 DEF Wrapper
<1>4. Encode("UwbSessionUpdateMulticastListStatus", m).content = sent("SESSION_UPDATE_CONTROLLER_MULTICAST_LIST", FromMulticastListNotification(m).content)
  <2>1. Encode("UwbSessionUpdateMulticastListStatus", m) = FromNotificationData("UwbSessionUpdateMulticastListStatus", m)
    BY NotificationPasses DEF Notifications
  <2>2. FromNotificationData("UwbSessionUpdateMulticastListStatus", m)
          = Wrapper(s, SizeOf(s) + FromMulticastListNotification(m).total, OffsetOf(s, 3) + FromMulticastListNotification(m).total,
                    sent("SESSION_UPDATE_CONTROLLER_MULTICAST_LIST", FromMulticastListNotification(m).content))
    BY FromNotificationIs
  <2>3. QED
    BY <2>1, <2>2 DEF Wrapper
<1>5. Encode("UwbRangingData", m).content = sent("RANGING_DATA", FromRangingData(m).content)
  <2>1. Encode("UwbRangingData", m) = FromNotificationData("UwbRangingData", m)
    BY NotificationPasses DEF Notifications
  <2>2. FromNotificationData("UwbRangingData", m)
          = Wrapper(s, SizeOf(s) + FromRangingData(m).total, OffsetOf(s, 3) + FromRangingData(m).total,
                    sent("RANGING_DATA", FromRangingData(m).content))
    BY FromNotificationIs
  <2>3. QED
    BY <2>1, <2>2 DEF Wrapper
<1>6. QED
  BY <1>1, <1>2, <1>3, <1>4, <1>5

LEMMA StatusNotificationReturns ==
    ASSUME NEW m \in Message["UwbStatus"]
    PROVE  Decode("UwbStatus", Encode("UwbStatus", m).content) = Normal("UwbStatus", m)
<1> DEFINE w == Encode("UwbStatus", m).content
<1>1. w = [notificationType |-> UWB_NOTIFICATION_TYPE["GENERIC_ERROR"],
           union |-> [status |-> FromUwbStatus(m.Status)]]
  BY NotificationContent
<1>2. Decode("UwbStatus", w) = ToNotificationData(w)
  BY NotificationPasses DEF Notifications
<1> HIDE DEF w
<1>3. ToNotificationData(w) = [Status |-> ToUwbStatus(w.union.status)]
  BY <1>1, NotificationIs, NotificationNumbers
<1>4. m = [Status |-> m.Status] /\ m.Status \in UwbStatus
  BY DEF Message
<1>5. Normal("UwbStatus", m) = m
  BY DEF Normal
<1>6. w.union.status = FromUwbStatus(m.Status)
  BY <1>1
<1>7. QED
  BY <1>2, <1>3, <1>4, <1>5, <1>6, StatusReturns DEF w

LEMMA StatusDeviceReturns ==
    ASSUME NEW m \in Message["UwbStatusDevice"]
    PROVE  Decode("UwbStatusDevice", Encode("UwbStatusDevice", m).content)
             = Normal("UwbStatusDevice", m)
<1> DEFINE w == Encode("UwbStatusDevice", m).content
<1>1. w = [notificationType |-> UWB_NOTIFICATION_TYPE["DEVICE_STATUS"],
           union |-> FromStatusDeviceMessage(m)]
  BY NotificationContent
<1>2. Decode("UwbStatusDevice", w) = ToNotificationData(w)
  BY NotificationPasses DEF Notifications
<1> HIDE DEF w
<1>3. ToNotificationData(w) = ToStatusDeviceMessage(w.union)
  BY <1>1, NotificationIs, NotificationNumbers
<1>4. m = [State |-> m.State] /\ m.State \in {"Ready", "Active", "Error"}
  BY DEF Message, UwbDeviceState
<1>5. Normal("UwbStatusDevice", m) = m
  BY DEF Normal
<1>6. w.union = [deviceState |-> From(FromDeviceState, UWB_DEVICE_STATE, m.State)]
  BY <1>1 DEF FromStatusDeviceMessage, Number, Tables
<1>7. To(ToStatusDevice, UWB_DEVICE_STATE, From(FromDeviceState, UWB_DEVICE_STATE, m.State)) = m.State
  <2>1. DOMAIN FromDeviceState = {"Ready", "Active", "Error"}
    BY DEF FromDeviceState
  <2>2. Inverses(FromDeviceState, ToStatusDevice, UWB_DEVICE_STATE)
    BY DEF Inverses, FromDeviceState, ToStatusDevice, UWB_DEVICE_STATE
  <2>3. QED
    BY <1>4, <2>1, <2>2, DeviceStateNumbers, ThereAndBack
<1>8. ToStatusDeviceMessage(w.union) = [State |-> m.State]
  BY <1>6, <1>7 DEF ToStatusDeviceMessage
<1>9. QED
  BY <1>2, <1>3, <1>4, <1>5, <1>8 DEF w

\* Without a reason there is the first one.
LEMMA FirstReason == Name("UwbSessionReasonCode", 0) = "StateChangeWithSessionManagementCommands"
<1> DEFINE reason == "StateChangeWithSessionManagementCommands"
<1>1. reason \in UwbSessionReasonCode
  BY DEF UwbSessionReasonCode
<1>2. Number("UwbSessionReasonCode", reason)
        = UWB_SESSION_REASON_CODE["STATE_CHANGE_WITH_SESSION_MANAGEMENT_COMMANDS"]
  BY DEF Number, From, Tables, FromSessionReasonCode
<1>3. UWB_SESSION_REASON_CODE["STATE_CHANGE_WITH_SESSION_MANAGEMENT_COMMANDS"] = 0
  <2> DEFINE names == <<"STATE_CHANGE_WITH_SESSION_MANAGEMENT_COMMANDS",
                        "MAX_RANGING_ROUND_RETRY_COUNT_REACHED",
                        "MAX_NUMBER_OF_MEASUREMENTS_REACHED">>
             f == Enumeration(names, 0)
             g == Enumeration(<<"ERROR_SLOT_LENGTH_NOT_SUPPORTED", "ERROR_INSUFFICIENT_SLOTS_PER_RR",
                     "ERROR_MAC_ADDRESS_MODE_NOT_SUPPORTED", "ERROR_INVALID_RANGING_INTERVAL",
                     "ERROR_INVALID_STS_CONFIG", "ERROR_INVALID_RFRAME_CONFIG">>, 32)
  <2>1. /\ DOMAIN names = 1 .. 3 /\ names[1] = "STATE_CHANGE_WITH_SESSION_MANAGEMENT_COMMANDS"
        /\ \A j \in 1 .. 3 : names[j] = names[1] => j = 1
    OBVIOUS
  <2>2. UWB_SESSION_REASON_CODE = Over(f, g)
    BY DEF UWB_SESSION_REASON_CODE
  <2>3. "STATE_CHANGE_WITH_SESSION_MANAGEMENT_COMMANDS" \in DOMAIN f
    <3>1. DOMAIN f = Range(names)
      BY EnumerationDomain
    <3>2. QED
      BY <2>1, <3>1 DEF Range
  <2> HIDE DEF names
  <2>4. f[names[1]] = 0
    BY <2>1, EnumerationFirst
  <2> HIDE DEF f, g
  <2>5. Over(f, g)["STATE_CHANGE_WITH_SESSION_MANAGEMENT_COMMANDS"]
          = f["STATE_CHANGE_WITH_SESSION_MANAGEMENT_COMMANDS"]
    BY <2>3, OverDomain
  <2>6. QED
    BY <2>1, <2>2, <2>4, <2>5
<1>4. QED
  BY <1>1, <1>2, <1>3, EnumeratorReturns

LEMMA SessionStatusReturns ==
    ASSUME NEW m \in Message["UwbSessionStatus"]
    PROVE  Decode("UwbSessionStatus", Encode("UwbSessionStatus", m).content)
             = Normal("UwbSessionStatus", m)
<1> DEFINE w == Encode("UwbSessionStatus", m).content
           reason == IF m.ReasonCode = None THEN "StateChangeWithSessionManagementCommands"
                     ELSE m.ReasonCode
<1>1. w = [notificationType |-> UWB_NOTIFICATION_TYPE["SESSION_STATUS"],
           union |-> FromSessionStatus(m)]
  BY NotificationContent
<1>2. Decode("UwbSessionStatus", w) = ToNotificationData(w)
  BY NotificationPasses DEF Notifications
<1> HIDE DEF w
<1>3. ToNotificationData(w) = ToSessionStatus(w.union)
  BY <1>1, NotificationIs, NotificationNumbers
<1>4. /\ m = [SessionId |-> m.SessionId, State |-> m.State, ReasonCode |-> m.ReasonCode]
      /\ m.State \in UwbSessionState
      /\ m.ReasonCode = None \/ m.ReasonCode \in UwbSessionReasonCode
  BY DEF Message
<1>5. Normal("UwbSessionStatus", m) = [m EXCEPT !.ReasonCode = reason]
  BY DEF Normal
<1>6. /\ w.union.sessionId = m.SessionId
      /\ w.union.state = Number("UwbSessionState", m.State)
      /\ w.union.reasonCode = IF m.ReasonCode = None THEN 0
                              ELSE Number("UwbSessionReasonCode", m.ReasonCode)
  BY <1>1 DEF FromSessionStatus
<1>7. Name("UwbSessionState", w.union.state) = m.State
  BY <1>4, <1>6, EnumeratorReturns
<1>8. Name("UwbSessionReasonCode", w.union.reasonCode) = reason
  <2>1. CASE m.ReasonCode = None
    BY <1>6, <2>1, FirstReason
  <2>2. CASE m.ReasonCode # None
    BY <1>4, <1>6, <2>2, EnumeratorReturns
  <2>3. QED
    BY <2>1, <2>2
<1> HIDE DEF reason
<1>9. ToSessionStatus(w.union)
        = [SessionId |-> m.SessionId, State |-> m.State, ReasonCode |-> reason]
  BY <1>6, <1>7, <1>8 DEF ToSessionStatus
<1>10. [m EXCEPT !.ReasonCode = reason]
         = [SessionId |-> m.SessionId, State |-> m.State, ReasonCode |-> reason]
  BY <1>4
<1>11. QED
  BY <1>2, <1>3, <1>5, <1>9, <1>10 DEF w

LEMMA MulticastListStatusReturns ==
    ASSUME NEW m \in Message["UwbSessionUpdateMulticastListStatus"]
    PROVE  Decode("UwbSessionUpdateMulticastListStatus",
                  Encode("UwbSessionUpdateMulticastListStatus", m).content)
             = Normal("UwbSessionUpdateMulticastListStatus", m)
<1> DEFINE w == Encode("UwbSessionUpdateMulticastListStatus", m).content
           u == w.union
           statuses == m.Status
           n == Len(statuses)
           S == [ControleeMacAddress : ShortAddress, SubSessionId : Nat, Status : UwbStatusMulticast]
<1>1. w = [notificationType |-> UWB_NOTIFICATION_TYPE["SESSION_UPDATE_CONTROLLER_MULTICAST_LIST"],
           union |-> FromMulticastListNotification(m).content]
  BY NotificationContent
<1>2. Decode("UwbSessionUpdateMulticastListStatus", w) = ToNotificationData(w)
  BY NotificationPasses DEF Notifications
<1> HIDE DEF w
<1>3. ToNotificationData(w) = ToMulticastListNotification(u)
  BY <1>1, NotificationIs, NotificationNumbers
<1>4. m = [SessionId |-> m.SessionId, Status |-> statuses] /\ statuses \in Seq(S)
  BY DEF Message
<1>5. Normal("UwbSessionUpdateMulticastListStatus", m) = m
  BY DEF Normal
<1>6. /\ u.sessionId = m.SessionId /\ u.numberOfControlees = n
      /\ u.statusList = [i \in 1 .. n |-> FromMulticastListStatus(statuses[i])]
  BY <1>1 DEF FromMulticastListNotification, Wrapper
<1>7. ASSUME NEW s \in S PROVE ToMulticastListStatus(FromMulticastListStatus(s)) = s
  <2>1. /\ s = [ControleeMacAddress |-> s.ControleeMacAddress, SubSessionId |-> s.SubSessionId,
                Status |-> s.Status]
        /\ s.ControleeMacAddress \in ShortAddress /\ s.Status \in UwbStatusMulticast
    OBVIOUS
  <2>2. ToMulticastListStatus(FromMulticastListStatus(s)) =
          [ControleeMacAddress |-> <<GetValueShort(s.ControleeMacAddress) % 256,
                                     GetValueShort(s.ControleeMacAddress) \div 256>>,
           SubSessionId |-> s.SubSessionId,
           Status |-> Name("UwbStatusMulticast", Number("UwbStatusMulticast", s.Status))]
    BY DEF ToMulticastListStatus, FromMulticastListStatus
  <2>3. QED
    BY <2>1, <2>2, ShortAddressReturns, EnumeratorReturns
<1> HIDE DEF S, u
<1>8. [i \in 1 .. n |-> ToMulticastListStatus(u.statusList[i])] = statuses
  <2>1. \A i \in 1 .. n : ToMulticastListStatus(u.statusList[i]) = statuses[i]
    BY <1>4, <1>6, <1>7
  <2>2. statuses = [i \in 1 .. n |-> statuses[i]]
    BY <1>4
  <2>3. QED
    BY <2>1, <2>2
<1> HIDE DEF n, statuses
<1>9. ToMulticastListNotification(u) = [SessionId |-> m.SessionId, Status |-> statuses]
  BY <1>6, <1>8 DEF ToMulticastListNotification
<1>10. QED
  BY <1>2, <1>3, <1>4, <1>5, <1>9 DEF w

LEMMA MacAddressReturns ==
    ASSUME NEW a \in Address
    PROVE  ToMacAddress(FromMacAddress(a)) = a
<1> DEFINE n == Len(a)
           zeros == [i \in 1 .. UwbMacAddressLength.Extended - n |-> 0]
           type == GetType(a)
<1>1. UwbMacAddressLength = [Short |-> 2, Extended |-> 8]
  BY DEF UwbMacAddressLength
<1>2. a \in Seq(Int) /\ n \in {2, 8}
  BY AddressIs
<1>3. type \in {"Short", "Extended"} /\ UwbMacAddressLength[type] = n
  <2>1. Numbered(UwbMacAddressLength, 2, 8)
    BY <1>1 DEF Numbered, IsInjective
  <2>2. DOMAIN UwbMacAddressLength = {"Short", "Extended"}
    BY <1>1
  <2>3. \E x \in {"Short", "Extended"} : UwbMacAddressLength[x] = n
    BY <1>1, <1>2
  <2>4. PICK x \in {"Short", "Extended"} : UwbMacAddressLength[x] = n
    BY <2>3
  <2>5. NameOf(UwbMacAddressLength, UwbMacAddressLength[x]) = x
    BY <2>1, <2>2, NameOfIs
  <2>6. QED
    BY <2>4, <2>5 DEF GetType
<1>4. zeros \in Seq(Int) /\ Len(zeros) = 8 - n
  <2>1. UwbMacAddressLength.Extended = 8
    BY <1>1
  <2>2. CASE n = 2
    BY <2>1, <2>2
  <2>3. CASE n = 8
    BY <2>1, <2>3
  <2>4. QED
    BY <1>2, <2>2, <2>3
<1> HIDE DEF zeros, n, type
<1>5. SubSeq(a \o zeros, 1, n) = a
  <2>1. a \o zeros \in Seq(Int) /\ Len(a \o zeros) = n + Len(zeros)
        /\ \A i \in 1 .. n : (a \o zeros)[i] = a[i]
    BY <1>2, <1>4, ConcatProperties DEF n
  <2>2. n \in Nat /\ n <= Len(a \o zeros)
    BY <1>2, <1>4, <2>1
  <2> DEFINE b == a \o zeros
  <2> HIDE DEF b
  <2>3. SubSeq(b, 1, n) = [i \in 1 .. n |-> b[i]]
    BY <1>2, <2>1, <2>2 DEF b
  <2>4. a = [i \in 1 .. n |-> a[i]]
    BY <1>2 DEF n
  <2>5. QED
    BY <2>1, <2>3, <2>4 DEF b
<1>6. Name("UwbMacAddressType", Number("UwbMacAddressType", type)) = type
  BY <1>3, EnumeratorReturns
<1>7. FromMacAddress(a) = [addressType |-> Number("UwbMacAddressType", type), address |-> a \o zeros]
  BY DEF FromMacAddress, type, zeros, n
<1>8. ToMacAddress(FromMacAddress(a)) = SubSeq(a \o zeros, 1, UwbMacAddressLength[type])
  <2> DEFINE w == FromMacAddress(a)
  <2>1. w.addressType = Number("UwbMacAddressType", type) /\ w.address = a \o zeros
    BY <1>7
  <2> HIDE DEF w
  <2>2. ToMacAddress(w) = SubSeq(w.address, 1, UwbMacAddressLength[Name("UwbMacAddressType", w.addressType)])
    BY DEF ToMacAddress
  <2>3. QED
    BY <1>6, <2>1, <2>2 DEF w
<1>9. QED
  BY <1>3, <1>5, <1>8

\* A measurement, with or without figures of merit.
Measurements ==
    [PeerMacAddress : Address, Status : UwbStatus, LineOfSightIndicator : UwbLineOfSightIndicator,
     Distance : Nat, SlotIndex : Nat,
     AoA : [Angle -> [Result : Nat, FigureOfMerit : {None} \cup Nat]]]

Merit(r) ==
    [r EXCEPT !.AoA =
        [a \in Angle |-> [r.AoA[a] EXCEPT !.FigureOfMerit = IF @ = 0 THEN None ELSE @]]]

LEMMA MeasurementReturns ==
    ASSUME NEW r \in Measurements
    PROVE  ToRangingMeasurement(FromRangingMeasurement(r)) = Merit(r)
<1> DEFINE A == [Result : Nat, FigureOfMerit : {None} \cup Nat]
           aoa == [a \in Angle |-> [r.AoA[a] EXCEPT !.FigureOfMerit = IF @ = 0 THEN None ELSE @]]
           w == FromRangingMeasurement(r)
           back == [a \in Angle |-> [Result |-> w.aoa[a],
                      FigureOfMerit |-> IF w.figureOfMerit[a] = 0 THEN None ELSE w.figureOfMerit[a]]]
<1>1. /\ r = [PeerMacAddress |-> r.PeerMacAddress, Status |-> r.Status,
              LineOfSightIndicator |-> r.LineOfSightIndicator, Distance |-> r.Distance,
              SlotIndex |-> r.SlotIndex, AoA |-> r.AoA]
      /\ r.PeerMacAddress \in Address /\ r.Status \in UwbStatus
      /\ r.LineOfSightIndicator \in UwbLineOfSightIndicator /\ r.AoA \in [Angle -> A]
  BY DEF Measurements
<1>2. w = [macAddrPeer |-> FromMacAddress(r.PeerMacAddress), status |-> FromUwbStatus(r.Status),
           lineOfSightIndicator |-> Number("UwbLineOfSightIndicator", r.LineOfSightIndicator),
           distance |-> r.Distance, slotIndex |-> r.SlotIndex,
           aoa |-> [a \in Angle |-> r.AoA[a].Result],
           figureOfMerit |-> [a \in Angle |-> IF r.AoA[a].FigureOfMerit = None THEN 0
                                              ELSE r.AoA[a].FigureOfMerit]]
  BY DEF FromRangingMeasurement
<1>3. ToRangingMeasurement(w) =
        [PeerMacAddress |-> ToMacAddress(w.macAddrPeer), Status |-> ToUwbStatus(w.status),
         LineOfSightIndicator |-> Name("UwbLineOfSightIndicator", w.lineOfSightIndicator),
         Distance |-> w.distance, SlotIndex |-> w.slotIndex, AoA |-> back]
  BY DEF ToRangingMeasurement
<1> HIDE DEF w
<1>4. back = aoa
  <2>1. ASSUME NEW a \in Angle
        PROVE  [Result |-> w.aoa[a],
                FigureOfMerit |-> IF w.figureOfMerit[a] = 0 THEN None ELSE w.figureOfMerit[a]]
               = [r.AoA[a] EXCEPT !.FigureOfMerit = IF @ = 0 THEN None ELSE @]
    <3> DEFINE q == r.AoA[a]
    <3>1. q = [Result |-> q.Result, FigureOfMerit |-> q.FigureOfMerit]
      BY <1>1
    <3>2. w.aoa[a] = q.Result
          /\ w.figureOfMerit[a] = IF q.FigureOfMerit = None THEN 0 ELSE q.FigureOfMerit
      BY <1>2
    <3> HIDE DEF q
    <3>3. [q EXCEPT !.FigureOfMerit = IF @ = 0 THEN None ELSE @]
            = [Result |-> q.Result, FigureOfMerit |-> IF q.FigureOfMerit = 0 THEN None ELSE q.FigureOfMerit]
      BY <3>1
    <3>4. (IF w.figureOfMerit[a] = 0 THEN None ELSE w.figureOfMerit[a])
            = IF q.FigureOfMerit = 0 THEN None ELSE q.FigureOfMerit
      BY <3>2
    <3>5. QED
      BY <3>2, <3>3, <3>4 DEF q
  <2>2. QED
    BY <2>1
<1>5. Merit(r) = [PeerMacAddress |-> r.PeerMacAddress, Status |-> r.Status,
              LineOfSightIndicator |-> r.LineOfSightIndicator, Distance |-> r.Distance,
              SlotIndex |-> r.SlotIndex, AoA |-> aoa]
  <2>1. Merit(r) = [r EXCEPT !.AoA = aoa]
    BY DEF Merit
  <2> HIDE DEF aoa
  <2>2. [r EXCEPT !.AoA = aoa]
           = [PeerMacAddress |-> r.PeerMacAddress, Status |-> r.Status,
              LineOfSightIndicator |-> r.LineOfSightIndicator, Distance |-> r.Distance,
              SlotIndex |-> r.SlotIndex, AoA |-> aoa]
    BY <1>1
  <2>3. QED
    BY <2>1, <2>2
<1> HIDE DEF back, aoa
<1>6. /\ ToMacAddress(w.macAddrPeer) = r.PeerMacAddress /\ ToUwbStatus(w.status) = r.Status
      /\ Name("UwbLineOfSightIndicator", w.lineOfSightIndicator) = r.LineOfSightIndicator
      /\ w.distance = r.Distance /\ w.slotIndex = r.SlotIndex
  BY <1>1, <1>2, MacAddressReturns, StatusReturns, EnumeratorReturns
<1>7. QED
  BY <1>3, <1>4, <1>5, <1>6 DEF w

LEMMA RangingDataReturns ==
    ASSUME NEW m \in Message["UwbRangingData"]
    PROVE  Decode("UwbRangingData", Encode("UwbRangingData", m).content) = Normal("UwbRangingData", m)
<1> DEFINE w == Encode("UwbRangingData", m).content
           u == w.union
           measurements == m.RangingMeasurements
           n == Len(measurements)
           arrived == [i \in DOMAIN measurements |-> Merit(measurements[i])]
<1>1. w = [notificationType |-> UWB_NOTIFICATION_TYPE["RANGING_DATA"],
           union |-> FromRangingData(m).content]
  BY NotificationContent
<1>2. Decode("UwbRangingData", w) = ToNotificationData(w)
  BY NotificationPasses DEF Notifications
<1> HIDE DEF w
<1>3. ToNotificationData(w) = ToRangingData(u)
  BY <1>1, NotificationIs, NotificationNumbers
<1>4. /\ m = [SequenceNumber |-> m.SequenceNumber, SessionId |-> m.SessionId,
              CurrentRangingInterval |-> m.CurrentRangingInterval,
              RangingMeasurementType |-> m.RangingMeasurementType,
              RangingMeasurements |-> measurements]
      /\ m.RangingMeasurementType \in UwbRangingMeasurementType
      /\ measurements \in Seq(Measurements)
  BY DEF Message, Measurements
<1>5. Normal("UwbRangingData", m) = [m EXCEPT !.RangingMeasurements = arrived]
  BY DEF Normal, Merit
<1>6. /\ u.sequenceNumber = m.SequenceNumber /\ u.sessionId = m.SessionId
      /\ u.currentRangingInterval = m.CurrentRangingInterval
      /\ u.rangingMeasurementType = Number("UwbRangingMeasurementType", m.RangingMeasurementType)
      /\ u.numberOfRangingMeasurements = n
      /\ u.rangingMeasurements = [i \in 1 .. n |-> FromRangingMeasurement(measurements[i])]
  BY <1>1 DEF FromRangingData, Wrapper
<1> HIDE DEF u
<1>7. [i \in 1 .. n |-> ToRangingMeasurement(u.rangingMeasurements[i])] = arrived
  <2>1. \A i \in 1 .. n : ToRangingMeasurement(u.rangingMeasurements[i]) = Merit(measurements[i])
    BY <1>4, <1>6, MeasurementReturns
  <2>2. DOMAIN measurements = 1 .. n
    BY <1>4
  <2>3. QED
    BY <2>1, <2>2
<1>8. Name("UwbRangingMeasurementType", u.rangingMeasurementType) = m.RangingMeasurementType
  BY <1>4, <1>6, EnumeratorReturns
<1> HIDE DEF n, arrived
<1>9. ToRangingData(u)
        = [SequenceNumber |-> m.SequenceNumber, SessionId |-> m.SessionId,
           CurrentRangingInterval |-> m.CurrentRangingInterval,
           RangingMeasurementType |-> m.RangingMeasurementType, RangingMeasurements |-> arrived]
  BY <1>6, <1>7, <1>8 DEF ToRangingData
<1>10. [m EXCEPT !.RangingMeasurements = arrived]
        = [SequenceNumber |-> m.SequenceNumber, SessionId |-> m.SessionId,
           CurrentRangingInterval |-> m.CurrentRangingInterval,
           RangingMeasurementType |-> m.RangingMeasurementType, RangingMeasurements |-> arrived]
  BY <1>4
<1>11. QED
  BY <1>2, <1>3, <1>5, <1>9, <1>10 DEF w

-----------------------------------------------------------------------------
(* Every message returns.                                                  *)

\* The parameters in the order of their types are a sequence ...
LEMMA InTypeOrderIs ==
    ASSUME NEW byType
    PROVE  /\ Len(InTypeOrder(byType)) \in Nat
           /\ DOMAIN InTypeOrder(byType) = 1 .. Len(InTypeOrder(byType))
           /\ DOMAIN byType \subseteq ParameterType =>
                \A i \in DOMAIN InTypeOrder(byType) :
                   \E t \in DOMAIN byType : InTypeOrder(byType)[i] = byType[t]
<1> DEFINE e == UwbApplicationConfigurationParameterType
           names == DOMAIN byType
           N == 1 + Max(Range(e))
           numbers == [i \in 1 .. N |-> i - 1]
           keep == [i \in 1 .. N |-> \E t \in names : e[t] = numbers[i]]
           p == Places(N, keep)
           types == InOrder(names, e)
<1>1. N \in Nat
  <2> DEFINE S == Range(e)
  <2>1. S \in SUBSET (0 .. 53) /\ S # {}
    <3>1. \A t \in DOMAIN e : e[t] \in 0 .. 53
      BY ParameterTypeNumbers DEF Numbered
    <3>2. "StsLength" \in DOMAIN e
      BY ParameterTypeNumbers
    <3> HIDE DEF e
    <3>3. QED
      BY <3>1, <3>2 DEF Range
  <2> HIDE DEF S
  <2>2. Max(S) \in S
    BY <2>1, MaxIs
  <2>3. QED
    BY <2>1, <2>2 DEF S
<1> HIDE DEF N, e
<1>2. DOMAIN numbers = 1 .. N /\ \A i \in 1 .. N : numbers[i] = i - 1
  OBVIOUS
<1> HIDE DEF numbers
<1>3. types = LET s == Those(numbers, LAMBDA k : \E t \in names : e[t] = k)
              IN  [i \in DOMAIN s |-> NameOf(e, s[i])]
  BY DEF InOrder, N, numbers
<1>4. Those(numbers, LAMBDA k : \E t \in names : e[t] = k) = Chosen(numbers, p)
  <2>1. [i \in 1 .. N |-> IF keep[i] THEN <<numbers[i]>> ELSE <<>>]
          = [i \in DOMAIN numbers |-> IF \E t \in names : e[t] = numbers[i] THEN <<numbers[i]>> ELSE <<>>]
    BY <1>2
  <2> HIDE DEF keep, names
  <2>2. Filtered(N, keep, numbers) = Chosen(numbers, p)
    BY <1>1, <1>2, KeptIs
  <2>3. QED
    BY <2>1, <2>2 DEF Those, Filtered
<1>5. /\ p \in Seq(1 .. N)
      /\ \A j \in 1 .. Len(p) : p[j] \in 1 .. N /\ keep[p[j]]
  <2> HIDE DEF keep, names
  <2> QED
    BY <1>1, PlacesAre
<1> HIDE DEF p
<1>6. types = [j \in 1 .. Len(p) |-> NameOf(e, numbers[p[j]])]
  BY <1>3, <1>4 DEF Chosen
<1>7. Len(p) \in Nat
  BY <1>5, LenProperties
<1> HIDE DEF types
<1>8. InTypeOrder(byType) = [j \in 1 .. Len(p) |-> byType[types[j]]]
  BY <1>6 DEF InTypeOrder, types, e, names
<1>9. Len(InTypeOrder(byType)) = Len(p)
  BY <1>7, <1>8
<1>10. ASSUME DOMAIN byType \subseteq ParameterType
       PROVE  \A j \in 1 .. Len(p) : types[j] \in DOMAIN byType
  <2> TAKE j \in 1 .. Len(p)
  <2>1. p[j] \in 1 .. N /\ keep[p[j]]
    BY <1>5
  <2>2. PICK t \in names : e[t] = numbers[p[j]]
    BY <2>1
  <2>3. t \in DOMAIN e
    BY <1>10 DEF ParameterType, e
  <2>4. NameOf(e, e[t]) = t
    BY <2>3, ParameterTypeNumbers, NameOfIs DEF e
  <2>5. QED
    BY <1>6, <2>2, <2>4
<1>11. QED
  BY <1>7, <1>8, <1>9, <1>10

-----------------------------------------------------------------------------
(* The messages that pass.                                                 *)

IsList(s) == Len(s) \in Nat /\ DOMAIN s = 1 .. Len(s)
\* What is sent: a list of parameters, of whatever values, or another message.
Sent(kind, m) ==
    \/ kind = "SetParameters" /\ IsList(m.Parameters)
       /\ m = [SessionId |-> m.SessionId, Parameters |-> m.Parameters]
    \/ kind = "Parameters" /\ IsList(m)
    \/ kind \in DOMAIN Message /\ m \in Message[kind]

LEMMA KindsAre ==
    DOMAIN Message =
      {"GetParameters", "ParameterStatuses", "MulticastList", "DeviceInformation", "UwbStatus",
       "UwbStatusDevice", "UwbSessionStatus", "UwbSessionUpdateMulticastListStatus",
       "UwbRangingData"}
  BY DEF Message

LEMMA MessageIsSent ==
    ASSUME NEW kind, NEW m, IsMessage(kind, m)
    PROVE  Sent(kind, m)
<1>1. CASE kind = "SetParameters"
  <2>1. m = [SessionId |-> m.SessionId, Parameters |-> m.Parameters] /\ IsParameters(m.Parameters)
    BY <1>1 DEF IsMessage
  <2>2. IsList(m.Parameters)
    BY <2>1 DEF IsParameters, IsList
  <2>3. QED
    BY <1>1, <2>1, <2>2 DEF Sent
<1>2. CASE kind = "Parameters"
  <2>1. IsParameters(m)
    BY <1>2 DEF IsMessage
  <2>2. IsList(m)
    BY <2>1 DEF IsParameters, IsList
  <2>3. QED
    BY <1>2, <2>2 DEF Sent
<1>3. CASE kind \notin {"SetParameters", "Parameters"}
  <2>1. kind # "SetParameters" /\ kind # "Parameters"
    BY <1>3
  <2>2. kind \in DOMAIN Message /\ m \in Message[kind]
    BY <2>1, Zenon DEF IsMessage
  <2>3. QED
    BY <2>2 DEF Sent
<1>4. QED
  BY <1>1, <1>2, <1>3

\* A message that fits is decoded as it was sent.
LEMMA MessageReturns ==
    ASSUME NEW kind, NEW m, Sent(kind, m), Fits(kind, m)
    PROVE  Decode(kind, Encode(kind, m).content) = Normal(kind, m)
<1>1. CASE kind = "SetParameters"
  <2>1. IsList(m.Parameters) /\ m = [SessionId |-> m.SessionId, Parameters |-> m.Parameters]
    BY <1>1, KindsAre DEF Sent
  <2>2. QED
    BY <1>1, <2>1, SetParametersReturn DEF IsList
<1>2. CASE kind = "Parameters"
  <2>1. IsList(m)
    BY <1>2, KindsAre DEF Sent
  <2>2. QED
    BY <1>2, <2>1, ParametersReturn DEF IsList
<1>3. CASE kind \notin {"SetParameters", "Parameters"}
  <2>1. kind \in DOMAIN Message /\ m \in Message[kind]
    BY <1>3 DEF Sent
  <2>2. CASE kind = "GetParameters"
    BY <2>1, <2>2, GetParametersReturn
  <2>3. CASE kind = "ParameterStatuses"
    BY <2>1, <2>3, ParameterStatusesReturn
  <2>4. CASE kind = "MulticastList"
    BY <2>1, <2>4, MulticastListReturns
  <2>5. CASE kind = "DeviceInformation"
    BY <2>1, <2>5, DeviceInformationReturns
  <2>6. CASE kind = "UwbStatus"
    BY <2>1, <2>6, StatusNotificationReturns
  <2>7. CASE kind = "UwbStatusDevice"
    BY <2>1, <2>7, StatusDeviceReturns
  <2>8. CASE kind = "UwbSessionStatus"
    BY <2>1, <2>8, SessionStatusReturns
  <2>9. CASE kind = "UwbSessionUpdateMulticastListStatus"
    BY <2>1, <2>9, MulticastListStatusReturns
  <2>10. CASE kind = "UwbRangingData"
    BY <2>1, <2>10, RangingDataReturns
  <2>11. QED
    BY <2>1, <2>2, <2>3, <2>4, <2>5, <2>6, <2>7, <2>8, <2>9, <2>10, KindsAre
<1>4. QED
  BY <1>1, <1>2, <1>3

-----------------------------------------------------------------------------
\* What passed the driver interface last was sent by it.
Passed(t) == \E kind, m : t = Transfer(kind, m) /\ Sent(kind, m)
TransferInv == transfer = None \/ Passed(transfer)

LEMMA ListIsSent ==
    ASSUME NEW byType, NEW id
    PROVE  /\ Passed(Transfer("Parameters", InTypeOrder(byType)))
           /\ Passed(Transfer("SetParameters",
                        [SessionId |-> id, Parameters |-> InTypeOrder(byType)]))
<1> DEFINE s == InTypeOrder(byType)
           m == [SessionId |-> id, Parameters |-> s]
<1>1. IsList(s)
  BY InTypeOrderIs DEF IsList
<1>2. m = [SessionId |-> m.SessionId, Parameters |-> m.Parameters] /\ m.Parameters = s
  OBVIOUS
<1> HIDE DEF s, m
<1>3. Sent("Parameters", s) /\ Sent("SetParameters", m)
  BY <1>1, <1>2 DEF Sent
<1>4. QED
  BY <1>3 DEF Passed, s, m

LEMMA TransferInvStep ==
    ASSUME TransferInv, [Next]_vars
    PROVE  TransferInv'
<1>1. CASE UNCHANGED vars
  BY <1>1 DEF TransferInv, Passed, vars
<1>2. ASSUME NEW kind \in DOMAIN Messages, NEW i \in DOMAIN Messages[kind], Pass(kind, i)
      PROVE  TransferInv'
  <2>1. IsMessage(kind, Messages[kind][i])
    BY MessagesAssumption
  <2>2. Sent(kind, Messages[kind][i])
    BY <2>1, MessageIsSent
  <2>3. transfer' = Transfer(kind, Messages[kind][i])
    BY <1>2 DEF Pass
  <2>4. QED
    BY <2>2, <2>3 DEF TransferInv, Passed
<1>3. ASSUME NEW h \in Host, NEW id \in SessionIds, NEW i \in DOMAIN Configurations,
             Configure(h, id, i)
      PROVE  TransferInv'
  <2> DEFINE m == [SessionId |-> id, Parameters |-> Configurations[i]]
  <2>1. IsParameters(Configurations[i])
    BY ConfigurationsAssumption
  <2>2. m.Parameters = Configurations[i] /\ m = [SessionId |-> m.SessionId, Parameters |-> m.Parameters]
    OBVIOUS
  <2>3. transfer' = Transfer("SetParameters", m)
    BY <1>3 DEF Configure
  <2> HIDE DEF m
  <2>4. Sent("SetParameters", m)
    BY <2>1, <2>2 DEF Sent, IsParameters, IsList
  <2>5. QED
    BY <2>3, <2>4 DEF TransferInv, Passed
<1>4. ASSUME NEW h \in Host, NEW id \in SessionIds, GetOobDataObject(h, id) PROVE TransferInv'
  <2>1. transfer' = ReadBack(h)
    BY <1>4 DEF GetOobDataObject
  <2>2. Passed(ReadBack(h))
    BY ListIsSent DEF ReadBack
  <2>3. QED
    BY <2>1, <2>2 DEF TransferInv, Passed
<1>5. ASSUME NEW h \in Host, NEW i, SendSessionData(h, i) \/ SendCapabilities(h, i)
      PROVE  TransferInv'
  BY <1>5 DEF SendSessionData, SendCapabilities, TransferInv
<1>6. ASSUME NEW h \in Host, Receive(h) PROVE TransferInv'
  BY <1>6 DEF Receive, TransferInv
<1>7. ASSUME NEW h \in Host, Join(h) PROVE TransferInv'
  <2> DEFINE data == decoded[h].content
             values == GetUciConfigParams(data.ConfigurationParameters, DeviceType.Controlee)
             t == Transfer("SetParameters",
                    [SessionId |-> data.SessionId, Parameters |-> InTypeOrder(values)])
  <2>1. transfer' = t
    BY <1>7 DEF Join
  <2>2. Passed(t)
    BY ListIsSent
  <2> HIDE DEF t
  <2>3. QED
    BY <2>1, <2>2 DEF TransferInv, Passed
<1>8. ASSUME NEW n \in Ends, EndEarly(n) PROVE TransferInv'
  BY <1>8 DEF EndEarly, TransferInv, Passed
<1>9. QED
  BY <1>1, <1>2, <1>3, <1>4, <1>5, <1>6, <1>7, <1>8 DEF Next

LEMMA TransferInvImplies == TransferInv => Stable
<1> SUFFICES ASSUME TransferInv, transfer # None, Fits(transfer.kind, transfer.sent)
             PROVE  transfer.received = Normal(transfer.kind, transfer.sent)
  BY DEF Stable
<1>1. PICK kind, m : transfer = Transfer(kind, m) /\ Sent(kind, m)
  BY DEF TransferInv, Passed
<1>2. transfer.kind = kind /\ transfer.sent = m
      /\ transfer.received = Decode(kind, Encode(kind, m).content)
  BY <1>1 DEF Transfer
<1>3. QED
  BY <1>1, <1>2, MessageReturns

\* Every message that fits arrives as it was sent: requests, answers and
\* notifications, of any numbers and with arrays of any length.
THEOREM MessagesArrive == Spec => []Stable
<1>1. Init => TransferInv
  BY DEF Init, TransferInv
<1>2. TransferInv /\ [Next]_vars => TransferInv'
  BY TransferInvStep
<1>3. QED
  BY <1>1, <1>2, TransferInvImplies, PTL DEF Spec

-----------------------------------------------------------------------------
(* Sequences, whatever is in them.                                         *)

IsBytes(s) == Len(s) \in Nat /\ s = [i \in 1 .. Len(s) |-> s[i]]
ElementsOf(s) == {s[i] : i \in 1 .. Len(s)}

LEMMA BytesAre ==
    /\ \A s : IsBytes(s) => s \in Seq(ElementsOf(s))
    /\ \A X : \A s \in Seq(X) : IsBytes(s)
    /\ \A X : \A n \in Nat : \A s \in [1 .. n -> X] : IsBytes(s) /\ Len(s) = n
<1>1. ASSUME NEW s, IsBytes(s) PROVE s \in Seq(ElementsOf(s))
  <2>1. \A i \in 1 .. Len(s) : s[i] \in ElementsOf(s)
    BY DEF ElementsOf
  <2>2. s \in [1 .. Len(s) -> ElementsOf(s)]
    BY <1>1, <2>1 DEF IsBytes
  <2>3. QED
    BY <1>1, <2>2 DEF IsBytes
<1>2. ASSUME NEW X, NEW s \in Seq(X) PROVE IsBytes(s)
  BY DEF IsBytes
<1>3. ASSUME NEW X, NEW n \in Nat, NEW s \in [1 .. n -> X] PROVE IsBytes(s) /\ Len(s) = n
  BY DEF IsBytes
<1>4. QED
  BY <1>1, <1>2, <1>3

LEMMA BytesJoin ==
    ASSUME NEW a, NEW b, IsBytes(a), IsBytes(b)
    PROVE  IsBytes(a \o b) /\ Len(a \o b) = Len(a) + Len(b)
<1> DEFINE X == ElementsOf(a) \cup ElementsOf(b)
<1>1. a \in Seq(ElementsOf(a)) /\ b \in Seq(ElementsOf(b))
  BY BytesAre
<1>2. a \in Seq(X) /\ b \in Seq(X)
  <2>1. ElementsOf(a) \subseteq X /\ ElementsOf(b) \subseteq X
    OBVIOUS
  <2> HIDE DEF X
  <2>2. QED
    BY <1>1, <2>1, SeqMonotonic
<1> HIDE DEF X
<1>3. a \o b \in Seq(X) /\ Len(a \o b) = Len(a) + Len(b)
  BY <1>2, ConcatProperties
<1>4. QED
  BY <1>3, BytesAre

LEMMA BytesFlatten ==
    ASSUME NEW n \in Nat, NEW ss, ss = [i \in 1 .. n |-> ss[i]], \A i \in 1 .. n : IsBytes(ss[i])
    PROVE  /\ IsBytes(FlattenSeq(ss))
           /\ \A i \in 1 .. n : Len(ss[i]) <= Len(FlattenSeq(ss))
<1> DEFINE X == UNION {ElementsOf(ss[i]) : i \in 1 .. n}
           length == [i \in 1 .. n |-> Len(ss[i])]
           at == EndsOf(n, length)
           f == FlattenSeq(ss)
<1>1. \A i \in 1 .. n : ss[i] \in Seq(X)
  <2> TAKE i \in 1 .. n
  <2>1. ss[i] \in Seq(ElementsOf(ss[i]))
    BY BytesAre
  <2>2. ElementsOf(ss[i]) \subseteq X
    OBVIOUS
  <2> HIDE DEF X
  <2>3. QED
    BY <2>1, <2>2, SeqMonotonic
<1> HIDE DEF X
<1>2. ss \in [1 .. n -> Seq(X)]
  BY <1>1
<1>3. length \in [1 .. n -> Nat] /\ \A i \in 1 .. n : length[i] = Len(ss[i])
  BY <1>1, LenProperties
<1> HIDE DEF length
<1>4. f \in Seq(X) /\ \A i \in 1 .. n : Holds(f, at[i - 1], ss[i])
  BY <1>2, <1>3, FlattenIs
<1>5. \A i \in 1 .. n : at[i - 1] \in Nat
  BY <1>3, EndsOfIs
<1> HIDE DEF f, at
<1>6. IsBytes(f)
  BY <1>4, BytesAre
<1>7. \A i \in 1 .. n : Len(ss[i]) <= Len(f)
  <2> TAKE i \in 1 .. n
  <2>1. at[i - 1] \in Nat /\ at[i - 1] + Len(ss[i]) <= Len(f) /\ Len(ss[i]) \in Nat /\ Len(f) \in Nat
    BY <1>3, <1>4, <1>5, <1>6 DEF Holds, IsBytes
  <2>2. QED
    BY <2>1
<1>8. QED
  BY <1>6, <1>7 DEF f

LEMMA IntegerBytes ==
    ASSUME NEW x, NEW n \in Nat
    PROVE  IsBytes(LittleEndian(x, n)) /\ Len(LittleEndian(x, n)) = n
<1> DEFINE s == LittleEndian(x, n)
           X == {s[i] : i \in 1 .. n}
<1>1. s = [i \in 1 .. n |-> s[i]]
  BY DEF LittleEndian
<1>2. \A i \in 1 .. n : s[i] \in X
  OBVIOUS
<1> HIDE DEF s, X
<1>3. s \in [1 .. n -> X]
  BY <1>1, <1>2
<1>4. QED
  BY <1>3, BytesAre DEF s

\* The bytes of a parameter: at least those of its header.
LEMMA ParameterBytes ==
    ASSUME NEW p, IsBytes(ParamValue(p))
    PROVE  IsBytes(FromParameter(p)) /\ 12 <= Len(FromParameter(p))
<1> DEFINE v == ParamValue(p)
           a == LittleEndian(ParamHeader + Len(v), 4)
           b == LittleEndian(FromUwbParameterType(p.Type), 4)
           c == LittleEndian(Len(v), 4)
<1>1. /\ IsBytes(a) /\ Len(a) = 4 /\ IsBytes(b) /\ Len(b) = 4 /\ IsBytes(c) /\ Len(c) = 4
  BY IntegerBytes
<1>2. FromParameter(p) = a \o b \o c \o v
  BY DEF FromParameter
<1> HIDE DEF a, b, c, v
<1>3. IsBytes(v) /\ Len(v) \in Nat
  BY DEF v, IsBytes
<1>4. IsBytes(a \o b) /\ Len(a \o b) = 8
  <2>1. IsBytes(a \o b) /\ Len(a \o b) = Len(a) + Len(b)
    BY ONLY <1>1, BytesJoin
  <2>2. QED
    BY <1>1, <2>1
<1>5. IsBytes(a \o b \o c) /\ Len(a \o b \o c) = 12
  BY <1>1, <1>4, BytesJoin
<1>6. IsBytes(a \o b \o c \o v) /\ Len(a \o b \o c \o v) = 12 + Len(v)
  BY <1>3, <1>5, BytesJoin
<1>7. QED
  BY <1>2, <1>3, <1>6

\* The bytes of a list of parameters.
LEMMA ArrayBytes ==
    ASSUME NEW parameters, IsList(parameters),
           \A i \in DOMAIN parameters : IsBytes(ParamValue(parameters[i]))
    PROVE  /\ Len(ArrayOfParameters(parameters)) \in Nat
           /\ Len(parameters) > 0 => 12 <= Len(ArrayOfParameters(parameters))
<1> DEFINE n == Len(parameters)
           ss == [i \in 1 .. n |-> FromParameter(parameters[i])]
<1>1. n \in Nat /\ DOMAIN parameters = 1 .. n
  BY DEF IsList
<1>2. ArrayOfParameters(parameters) = FlattenSeq(ss)
  BY <1>1 DEF ArrayOfParameters
<1>3. \A i \in 1 .. n : ss[i] = FromParameter(parameters[i])
  OBVIOUS
<1>4. ss = [i \in 1 .. n |-> ss[i]]
  OBVIOUS
<1> HIDE DEF ss, n
<1>5. \A i \in 1 .. n : IsBytes(ss[i]) /\ 12 <= Len(ss[i])
  BY <1>1, <1>3, ParameterBytes
<1>6. IsBytes(FlattenSeq(ss)) /\ \A i \in 1 .. n : Len(ss[i]) <= Len(FlattenSeq(ss))
  BY <1>1, <1>4, <1>5, BytesFlatten
<1>7. ASSUME n > 0 PROVE 12 <= Len(FlattenSeq(ss))
  <2>1. 1 \in 1 .. n
    BY <1>1, <1>7
  <2>2. 12 <= Len(ss[1]) /\ Len(ss[1]) <= Len(FlattenSeq(ss)) /\ Len(ss[1]) \in Nat
        /\ Len(FlattenSeq(ss)) \in Nat
    BY <1>5, <1>6, <2>1 DEF IsBytes
  <2>3. QED
    BY <2>2
<1>8. QED
  BY <1>2, <1>6, <1>7 DEF IsBytes, n

-----------------------------------------------------------------------------
(* The structures.                                                         *)

LEMMA FieldsAre ==
    /\ u8 \in Field /\ u16 \in Field /\ u32 \in Field /\ ArrayOf(u8, 8) \in Field
    /\ u8.size = 1 /\ u32.size = 4 /\ u32.align = 4
  BY DEF u8, u16, u32, ArrayOf, Field

LEMMA StructsAre ==
    /\ IsStruct(UWB_DEVICE_INFO) /\ IsStruct(UWB_DEVICE_STATUS) /\ IsStruct(UWB_SESSION_STATUS)
    /\ IsStruct(<<u32>>) /\ IsStruct(UWB_APP_CONFIG_PARAM) /\ IsStruct(UWB_GET_APP_CONFIG_PARAMS)
    /\ IsStruct(UWB_SET_APP_CONFIG_PARAMS) /\ IsStruct(UWB_APP_CONFIG_PARAMS)
    /\ IsStruct(UWB_SET_APP_CONFIG_PARAMS_STATUS)
    /\ IsStruct(UWB_SESSION_UPDATE_CONTROLLER_MULTICAST_LIST)
    /\ IsStruct(UWB_SESSION_UPDATE_CONTROLLER_MULTICAST_LIST_NTF)
    /\ IsStruct(UWB_RANGING_DATA)
<1> USE FieldsAre
<1>1. IsStruct(UWB_DEVICE_INFO)
  BY DEF IsStruct, UWB_DEVICE_INFO
<1>2. IsStruct(UWB_DEVICE_STATUS) /\ IsStruct(UWB_SESSION_STATUS) /\ IsStruct(<<u32>>)
  BY DEF IsStruct, UWB_DEVICE_STATUS, UWB_SESSION_STATUS
<1>3. IsStruct(UWB_APP_CONFIG_PARAM) /\ IsStruct(UWB_GET_APP_CONFIG_PARAMS)
  BY DEF IsStruct, UWB_APP_CONFIG_PARAM, UWB_GET_APP_CONFIG_PARAMS
<1>4. IsStruct(UWB_SET_APP_CONFIG_PARAMS) /\ IsStruct(UWB_APP_CONFIG_PARAMS)
  <2>1. Nested(UWB_APP_CONFIG_PARAM) \in Field
    BY <1>3, NestedIs
  <2>2. QED
    BY <2>1 DEF IsStruct, UWB_SET_APP_CONFIG_PARAMS, UWB_APP_CONFIG_PARAMS
<1>5. IsStruct(UWB_SET_APP_CONFIG_PARAMS_STATUS)
  <2>1. IsStruct(UWB_APP_CONFIG_PARAM_STATUS)
    BY DEF IsStruct, UWB_APP_CONFIG_PARAM_STATUS
  <2>2. Nested(UWB_APP_CONFIG_PARAM_STATUS) \in Field
    BY <2>1, NestedIs
  <2>3. QED
    BY <2>2 DEF IsStruct, UWB_SET_APP_CONFIG_PARAMS_STATUS
<1>6. IsStruct(UWB_SESSION_UPDATE_CONTROLLER_MULTICAST_LIST)
  <2>1. IsStruct(UWB_MULTICAST_CONTROLEE_LIST_ENTRY)
    BY DEF IsStruct, UWB_MULTICAST_CONTROLEE_LIST_ENTRY
  <2>2. Nested(UWB_MULTICAST_CONTROLEE_LIST_ENTRY) \in Field
    BY <2>1, NestedIs
  <2>3. QED
    BY <2>2 DEF IsStruct, UWB_SESSION_UPDATE_CONTROLLER_MULTICAST_LIST
<1>7. IsStruct(UWB_SESSION_UPDATE_CONTROLLER_MULTICAST_LIST_NTF)
  <2>1. IsStruct(UWB_MULTICAST_LIST_STATUS)
    BY DEF IsStruct, UWB_MULTICAST_LIST_STATUS
  <2>2. Nested(UWB_MULTICAST_LIST_STATUS) \in Field
    BY <2>1, NestedIs
  <2>3. QED
    BY <2>2 DEF IsStruct, UWB_SESSION_UPDATE_CONTROLLER_MULTICAST_LIST_NTF
<1>8. IsStruct(UWB_RANGING_DATA)
  <2>1. IsStruct(UWB_MAC_ADDRESS)
    BY DEF IsStruct, UWB_MAC_ADDRESS
  <2>2. Nested(UWB_MAC_ADDRESS) \in Field
    BY <2>1, NestedIs
  <2>3. IsStruct(UWB_RANGING_MEASUREMENT)
    BY <2>2 DEF IsStruct, UWB_RANGING_MEASUREMENT
  <2>4. Nested(UWB_RANGING_MEASUREMENT) \in Field
    BY <2>3, NestedIs
  <2>5. QED
    BY <2>4 DEF IsStruct, UWB_RANGING_DATA
<1>9. QED
  BY <1>1, <1>2, <1>3, <1>4, <1>5, <1>6, <1>7, <1>8

\* The longest of five alternatives.
LEMMA UnionIs ==
    ASSUME NEW a, NEW b, NEW c, NEW d, NEW e,
           IsStruct(a), IsStruct(b), IsStruct(c), IsStruct(d), IsStruct(e)
    PROVE  Union({a, b, c, d, e}) \in Field
<1> DEFINE sizes == {SizeOf(s) : s \in {a, b, c, d, e}}
           aligns == {AlignOf(s) : s \in {a, b, c, d, e}}
           n == SizeOf(a) + SizeOf(b) + SizeOf(c) + SizeOf(d) + SizeOf(e)
<1>1. \A s \in {a, b, c, d, e} : SizeOf(s) \in Nat
  BY SizeIs
<1>2. n \in Nat
  BY <1>1
<1>3. sizes \in SUBSET (0 .. n) /\ sizes # {}
  <2>1. SizeOf(a) \in sizes
    OBVIOUS
  <2>2. \A s \in {a, b, c, d, e} : SizeOf(s) \in 0 .. n
    BY <1>1
  <2> HIDE DEF n
  <2>3. QED
    BY <2>1, <2>2
<1>4. aligns \in SUBSET (0 .. 4) /\ aligns # {} /\ aligns \subseteq {1, 2, 4}
  <2>1. AlignOf(a) \in aligns
    OBVIOUS
  <2>2. \A s \in {a, b, c, d, e} : AlignOf(s) \in {1, 2, 4}
    BY AlignIs
  <2>3. QED
    BY <2>1, <2>2
<1> HIDE DEF sizes, aligns, n
<1>5. Max(sizes) \in Nat
  <2>1. Max(sizes) \in sizes
    BY <1>2, <1>3, MaxIs
  <2>2. \A x \in sizes : x \in 0 .. n
    BY <1>3
  <2>3. QED
    BY <1>2, <2>1, <2>2
<1>6. Max(aligns) \in {1, 2, 4}
  <2>1. Max(aligns) \in aligns
    BY <1>4, MaxIs
  <2>2. QED
    BY <1>4, <2>1
<1>7. Union({a, b, c, d, e}) = [size |-> Max(sizes), align |-> Max(aligns)]
  BY DEF Union, sizes, aligns
<1>8. QED
  BY <1>5, <1>6, <1>7 DEF Field

LEMMA NotificationIsStruct == IsStruct(UWB_NOTIFICATION_DATA)
<1> DEFINE u == Union({UWB_DEVICE_STATUS, <<u32>>, UWB_SESSION_STATUS, UWB_RANGING_DATA,
                       UWB_SESSION_UPDATE_CONTROLLER_MULTICAST_LIST_NTF})
<1>1. u \in Field
  BY StructsAre, UnionIs
<1>2. UWB_NOTIFICATION_DATA = <<u32, u32, u>>
  BY DEF UWB_NOTIFICATION_DATA
<1> HIDE DEF u
<1>3. QED
  BY <1>1, <1>2, FieldsAre DEF IsStruct

\* A structure of words and a field that is aligned as they are.
LEMMA WordsAre ==
    ASSUME NEW f \in Field
    PROVE  LET s == <<u32, u32, u32, f>> IN
           /\ IsStruct(s) /\ AlignOf(s) = 4
           /\ FlexOffset(s) = 12 /\ FlexElement(s) = f.size
           /\ SizeOf(s) = RoundUp(12 + f.size, 4)
<1> DEFINE s == <<u32, u32, u32, f>>
<1>1. Len(s) = 4 /\ s[4] = f /\ s[1] = u32 /\ DOMAIN s = 1 .. 4
  OBVIOUS
<1>2. IsStruct(s)
  BY FieldsAre DEF IsStruct
<1>3. OffsetOf(s, 4) = 12
  BY ThreeWords
<1> HIDE DEF s
<1>4. AlignOf(s) = 4
  <2>1. AlignOf(s) \in {1, 2, 4} /\ \A i \in DOMAIN s : s[i].align <= AlignOf(s)
    BY <1>2, AlignIs
  <2>2. s[1].align <= AlignOf(s)
    BY <1>1, <2>1
  <2>3. QED
    BY <1>1, <2>1, <2>2, FieldsAre
<1>5. FlexOffset(s) = 12 /\ FlexElement(s) = f.size
  BY <1>1, <1>3 DEF FlexOffset, FlexElement
<1>6. SizeOf(s) = RoundUp(12 + f.size, 4)
  BY <1>1, <1>3, <1>4 DEF SizeOf
<1>7. QED
  BY <1>2, <1>4, <1>5, <1>6 DEF s

LEMMA ParameterStructs ==
    /\ SizeOf(UWB_SET_APP_CONFIG_PARAMS) = 28 /\ AlignOf(UWB_SET_APP_CONFIG_PARAMS) = 4
    /\ FlexOffset(UWB_SET_APP_CONFIG_PARAMS) = 12
    /\ SizeOf(UWB_APP_CONFIG_PARAMS) = 28 /\ AlignOf(UWB_APP_CONFIG_PARAMS) = 4
    /\ FlexOffset(UWB_APP_CONFIG_PARAMS) = 12
    /\ SizeOf(UWB_GET_APP_CONFIG_PARAMS) = 16 /\ AlignOf(UWB_GET_APP_CONFIG_PARAMS) = 4
    /\ FlexOffset(UWB_GET_APP_CONFIG_PARAMS) = 12 /\ FlexElement(UWB_GET_APP_CONFIG_PARAMS) = 4
<1> DEFINE f == Nested(UWB_APP_CONFIG_PARAM)
<1>1. SizeOf(UWB_APP_CONFIG_PARAM) = 16
  <2>1. SizeOf(<<u32, u32, u32, u8>>) = RoundUp(12 + u8.size, 4)
    BY FieldsAre, WordsAre
  <2>2. RoundUp(12 + 1, 4) = 16
    BY DEF RoundUp
  <2>3. QED
    BY <2>1, <2>2, FieldsAre DEF UWB_APP_CONFIG_PARAM
<1>2. f \in Field /\ f.size = 16
  <2>1. f \in Field
    BY StructsAre, NestedIs
  <2>2. f.size = SizeOf(UWB_APP_CONFIG_PARAM)
    BY DEF Nested
  <2>3. QED
    BY <1>1, <2>1, <2>2
<1>3. UWB_SET_APP_CONFIG_PARAMS = <<u32, u32, u32, f>> /\ UWB_APP_CONFIG_PARAMS = <<u32, u32, u32, f>>
  BY DEF UWB_SET_APP_CONFIG_PARAMS, UWB_APP_CONFIG_PARAMS
<1> HIDE DEF f
<1>4. RoundUp(12 + 16, 4) = 28 /\ RoundUp(12 + 4, 4) = 16
  BY DEF RoundUp
<1>5. /\ SizeOf(<<u32, u32, u32, f>>) = 28 /\ AlignOf(<<u32, u32, u32, f>>) = 4
      /\ FlexOffset(<<u32, u32, u32, f>>) = 12
  BY <1>2, <1>4, WordsAre
<1>6. /\ SizeOf(<<u32, u32, u32, u32>>) = 16 /\ AlignOf(<<u32, u32, u32, u32>>) = 4
      /\ FlexOffset(<<u32, u32, u32, u32>>) = 12 /\ FlexElement(<<u32, u32, u32, u32>>) = 4
  BY <1>4, FieldsAre, WordsAre
<1>7. QED
  BY <1>3, <1>5, <1>6 DEF UWB_GET_APP_CONFIG_PARAMS

-----------------------------------------------------------------------------
(* Buffers.                                                                *)

\* What is written of a structure is inside its buffer, and so is the default
\* value that the constructor assigns, if there are elements.
Inside(w, elements) ==
    LET allocated == Allocated(w.struct, w.total) IN
    /\ w.end <= allocated
    /\ elements > 0 => DefaultSize(w.struct) <= allocated

LEMMA InsideIs ==
    ASSUME NEW s, NEW total \in Int, NEW end \in Int, NEW content, NEW n \in Nat,
           AlignOf(s) \in Nat, SizeOf(s) \in Nat,
           end <= AlignOf(s) + total, n > 0 => SizeOf(s) <= AlignOf(s) + total
    PROVE  Inside(Wrapper(s, total, end, content), n)
BY DEF Inside, Wrapper, Allocated, DefaultSize

\* A buffer for a number of elements.
LEMMA ElementsInside ==
    ASSUME NEW s, IsStruct(s), NEW n \in Nat, NEW content
    PROVE  /\ RequiredSize(s, n) \in Nat
           /\ Inside(Wrapper(s, RequiredSize(s, n), FlexOffset(s) + n * FlexElement(s), content), n)
<1>1. PICK size \in Nat : size = SizeOf(s)
  BY SizeIs
<1>2. PICK element \in Nat : element = FlexElement(s)
  BY SizeIs
<1>3. PICK offset \in Nat : offset = FlexOffset(s)
  BY SizeIs
<1>4. PICK align \in {1, 2, 4} : align = AlignOf(s)
  BY AlignIs
<1>5. offset + element <= size
  BY <1>1, <1>2, <1>3, SizeIs
<1>6. PICK room \in Nat : room = n * element
  <2>1. n * element \in Nat
    OBVIOUS
  <2>2. QED
    BY <2>1
<1>7. element * (n - 1) = room - element
  BY <1>6
<1>8. RequiredSize(s, n) = size + room - element
  <2>1. RequiredSize(s, n) = size + element * (n - 1)
    BY <1>1, <1>2 DEF RequiredSize
  <2>2. QED
    BY <1>7, <2>1
<1>9. FlexOffset(s) + n * FlexElement(s) = offset + room
  BY <1>2, <1>3, <1>6
<1>10. n > 0 => room >= element
  <2>1. CASE n = 0
    BY <2>1
  <2>2. CASE n > 0
    <3>1. (n - 1) * element \in Nat
      <4>1. n - 1 \in Nat
        BY <2>2
      <4>2. QED
        BY <4>1
    <3>2. (n - 1) * element = room - element
      BY <1>6
    <3>3. QED
      BY <3>1, <3>2
  <2>3. QED
    BY <2>1, <2>2
<1>11. /\ offset + room <= align + (size + room - element)
       /\ n > 0 => size <= align + (size + room - element)
       /\ size + room - element \in Nat
  BY <1>5, <1>10
<1>12. Inside(Wrapper(s, size + room - element, offset + room, content), n)
  BY <1>1, <1>4, <1>11, InsideIs
<1>13. QED
  BY <1>8, <1>9, <1>11, <1>12

\* A buffer for parameters.
LEMMA ParametersInside ==
    ASSUME NEW s \in {UWB_SET_APP_CONFIG_PARAMS, UWB_APP_CONFIG_PARAMS},
           NEW parameters, IsList(parameters),
           \A i \in DOMAIN parameters : IsBytes(ParamValue(parameters[i])), NEW header
    PROVE  Inside(FromParameterArray(s, parameters, header), Len(parameters))
<1>1. SizeOf(s) = 28 /\ AlignOf(s) = 4 /\ FlexOffset(s) = 12
  BY ParameterStructs
<1>2. PICK length \in Nat : length = Len(ArrayOfParameters(parameters))
  BY ArrayBytes
<1>3. Len(parameters) \in Nat /\ (Len(parameters) > 0 => 12 <= length)
  BY <1>2, ArrayBytes DEF IsList
<1>4. FromParameterArray(s, parameters, header)
        = Wrapper(s, 12 + length, 12 + length,
                  [header |-> header, appConfigParamsCount |-> Len(parameters),
                   appConfigParams |-> ArrayOfParameters(parameters)])
  BY <1>1, <1>2 DEF FromParameterArray, ArrayOfParameters
<1>5. QED
  BY <1>1, <1>3, <1>4, InsideIs

LEMMA GetParametersInside ==
    ASSUME NEW m, Len(m.ParameterTypes) \in Nat
    PROVE  Inside(FromGetParameters(m), Len(m.ParameterTypes))
<1> DEFINE s == UWB_GET_APP_CONFIG_PARAMS
           n == Len(m.ParameterTypes)
           content == [sessionId |-> m.SessionId, appConfigParamsCount |-> n,
                       appConfigParams |-> [i \in 1 .. n |-> FromUwbParameterType(m.ParameterTypes[i])]]
<1>1. SizeOf(s) = 16 /\ AlignOf(s) = 4 /\ FlexOffset(s) = 12 /\ FlexElement(s) = 4
  BY ParameterStructs
<1>2. FromGetParameters(m) = Wrapper(s, 12 + n * 4, 12 + n * 4, content)
  BY <1>1 DEF FromGetParameters
<1> HIDE DEF s, n, content
<1>3. n \in Nat
  BY DEF n
<1>4. Inside(Wrapper(s, 12 + n * 4, 12 + n * 4, content), n)
  BY <1>1, <1>3, InsideIs
<1>5. QED
  BY <1>2, <1>4 DEF n

LEMMA DeviceInformationInside ==
    ASSUME NEW m \in Message["DeviceInformation"]
    PROVE  Inside(FromDeviceInformation(m), Elements("DeviceInformation", m))
<1> DEFINE s == UWB_DEVICE_INFO
           vendor == IF m.VendorSpecificInfo = None THEN << >> ELSE m.VendorSpecificInfo
           elements == IF m.VendorSpecificInfo = None THEN 1 ELSE Len(vendor)
           content == [status |-> FromUwbStatus(m.Status),
             versions |-> [v \in Versions |-> FromUwbVersion(m.Version[v])],
             vendorSpecificInfoLength |-> Len(vendor), vendorSpecificInfo |-> vendor]
           w(end) == Wrapper(s, RequiredSize(s, elements), end, content)
<1>1. Elements("DeviceInformation", m) = elements
  <2>1. CASE m.VendorSpecificInfo = None
    <3>1. Elements("DeviceInformation", m) = 1
      BY <2>1, Zenon DEF Elements
    <3>2. QED
      BY <2>1, <3>1
  <2>2. CASE m.VendorSpecificInfo # None
    <3>1. Elements("DeviceInformation", m) = Len(m.VendorSpecificInfo)
      BY <2>2, Zenon DEF Elements
    <3>2. QED
      BY <2>2, <3>1
  <2>3. QED
    BY <2>1, <2>2
<1>2. FromDeviceInformation(m) = w(FlexOffset(s) + Len(vendor))
  BY DEF FromDeviceInformation
<1>3. FlexElement(s) = 1
  BY FieldsAre DEF FlexElement, UWB_DEVICE_INFO
<1>4. vendor \in Seq(Byte) /\ (m.VendorSpecificInfo = None => Len(vendor) = 0)
  <2>1. m.VendorSpecificInfo \in {None} \cup Seq(Byte)
    BY DEF Message
  <2>2. << >> \in Seq(Byte) /\ Len(<< >>) = 0
    OBVIOUS
  <2>3. QED
    BY <2>1, <2>2
<1>5. Len(vendor) \in Nat /\ elements \in Nat /\ Len(vendor) <= elements
  <2> HIDE DEF vendor
  <2>1. Len(vendor) \in Nat
    BY <1>4, LenProperties
  <2>2. QED
    BY <1>4, <2>1
<1>6. IsStruct(s)
  BY StructsAre
<1> HIDE DEF s, elements, vendor, content
<1>7. Inside(w(FlexOffset(s) + elements * 1), elements)
  <2>1. Inside(w(FlexOffset(s) + elements * FlexElement(s)), elements)
    BY <1>5, <1>6, ElementsInside
  <2>2. QED
    BY <1>3, <2>1
<1>8. QED
  <2>1. PICK offset \in Nat : offset = FlexOffset(s)
    BY <1>6, SizeIs
  <2>2. PICK allocated \in Int : allocated = Allocated(s, RequiredSize(s, elements))
    <3>1. AlignOf(s) \in Nat /\ RequiredSize(s, elements) \in Nat
      BY <1>5, <1>6, AlignIs, ElementsInside
    <3>2. QED
      BY <3>1 DEF Allocated
  <2>3. offset + elements <= allocated /\ (elements > 0 => DefaultSize(s) <= allocated)
    BY <1>5, <1>7, <2>1, <2>2 DEF Inside, Wrapper
  <2>4. offset + Len(vendor) <= allocated
    BY <1>5, <2>3
  <2>5. Inside(w(offset + Len(vendor)), elements)
    BY <2>2, <2>3, <2>4 DEF Inside, Wrapper
  <2>6. QED
    BY <1>1, <1>2, <2>1, <2>5

\* A notification of some size behind the type and the size.
LEMMA NotificationInside ==
    ASSUME NEW size \in Nat, NEW content
    PROVE  LET s == UWB_NOTIFICATION_DATA IN
           Inside(Wrapper(s, SizeOf(s) + size, OffsetOf(s, 3) + size, content), 1)
<1> DEFINE s == UWB_NOTIFICATION_DATA
<1>1. IsStruct(s)
  BY NotificationIsStruct
<1>2. FlexOffset(s) = OffsetOf(s, 3)
  BY DEF FlexOffset, UWB_NOTIFICATION_DATA
<1> HIDE DEF s
<1>3. PICK total \in Nat : total = SizeOf(s)
  BY <1>1, SizeIs
<1>4. PICK offset \in Nat : offset = OffsetOf(s, 3)
  BY <1>1, <1>2, SizeIs
<1>5. AlignOf(s) \in Nat
  BY <1>1, AlignIs
<1>6. offset <= total
  BY <1>1, <1>2, <1>3, <1>4, SizeIs
<1>7. Inside(Wrapper(s, total + size, offset + size, content), 1)
  BY <1>3, <1>5, <1>6, InsideIs
<1>8. QED
  BY <1>3, <1>4, <1>7 DEF s

LEMMA NotificationsInside ==
    ASSUME NEW kind \in Notifications, NEW m \in Message[kind]
    PROVE  Inside(FromNotificationData(kind, m), 1)
<1>1. CASE kind = "UwbStatus"
  <2>1. u32.size \in Nat
    BY FieldsAre
  <2>2. QED
    BY <1>1, <2>1, FromNotificationIs, NotificationInside
<1>2. CASE kind = "UwbStatusDevice"
  <2>1. SizeOf(UWB_DEVICE_STATUS) \in Nat
    BY StructsAre, SizeIs
  <2>2. QED
    BY <1>2, <2>1, FromNotificationIs, NotificationInside
<1>3. CASE kind = "UwbSessionStatus"
  <2>1. SizeOf(UWB_SESSION_STATUS) \in Nat
    BY StructsAre, SizeIs
  <2>2. QED
    BY <1>3, <2>1, FromNotificationIs, NotificationInside
<1>4. CASE kind = "UwbSessionUpdateMulticastListStatus"
  <2>1. Len(m.Status) \in Nat
    BY <1>4 DEF Message
  <2>2. FromMulticastListNotification(m).total
          = RequiredSize(UWB_SESSION_UPDATE_CONTROLLER_MULTICAST_LIST_NTF, Len(m.Status))
    BY DEF FromMulticastListNotification, Wrapper
  <2>3. FromMulticastListNotification(m).total \in Nat
    BY <2>1, <2>2, StructsAre, ElementsInside
  <2>4. QED
    BY <1>4, <2>3, FromNotificationIs, NotificationInside
<1>5. CASE kind = "UwbRangingData"
  <2>1. Len(m.RangingMeasurements) \in Nat
    BY <1>5 DEF Message
  <2>2. FromRangingData(m).total = RequiredSize(UWB_RANGING_DATA, Len(m.RangingMeasurements))
    BY DEF FromRangingData, Wrapper
  <2>3. FromRangingData(m).total \in Nat
    BY <2>1, <2>2, StructsAre, ElementsInside
  <2>4. QED
    BY <1>5, <2>3, FromNotificationIs, NotificationInside
<1>6. QED
  BY <1>1, <1>2, <1>3, <1>4, <1>5 DEF Notifications

LEMMA ElementsAre ==
    ASSUME NEW kind, NEW m
    PROVE  /\ kind = "SetParameters" => Elements(kind, m) = Len(m.Parameters)
           /\ kind = "GetParameters" => Elements(kind, m) = Len(m.ParameterTypes)
           /\ kind = "Parameters" => Elements(kind, m) = Len(m)
           /\ kind = "ParameterStatuses" => Elements(kind, m) = Len(m.ParameterStatuses)
           /\ kind = "MulticastList" => Elements(kind, m) = Len(m.Controlees)
           /\ kind \in Notifications => Elements(kind, m) = 1
<1>1. kind = "SetParameters" => Elements(kind, m) = Len(m.Parameters)
  BY DEF Elements
<1>2. kind = "GetParameters" => Elements(kind, m) = Len(m.ParameterTypes)
  BY DEF Elements
<1>3. kind = "Parameters" => Elements(kind, m) = Len(m)
  BY DEF Elements
<1>4. kind = "ParameterStatuses" => Elements(kind, m) = Len(m.ParameterStatuses)
  BY DEF Elements
<1>5. kind = "MulticastList" => Elements(kind, m) = Len(m.Controlees)
  BY DEF Elements
<1>6. kind \in Notifications => Elements(kind, m) = 1
  <2>1. kind \in Notifications =>
           /\ kind # "SetParameters" /\ kind # "GetParameters" /\ kind # "Parameters"
           /\ kind # "ParameterStatuses" /\ kind # "MulticastList" /\ kind # "DeviceInformation"
    BY DEF Notifications
  <2>2. QED
    BY <2>1, Zenon DEF Elements
<1>7. QED
  BY <1>1, <1>2, <1>3, <1>4, <1>5, <1>6

LEMMA EncodeIs ==
    ASSUME NEW kind, NEW m
    PROVE  /\ kind = "SetParameters" => Encode(kind, m) = FromSetParameters(m)
           /\ kind = "GetParameters" => Encode(kind, m) = FromGetParameters(m)
           /\ kind = "Parameters" => Encode(kind, m) = FromParameters(m)
           /\ kind = "ParameterStatuses" => Encode(kind, m) = FromSetParametersStatus(m)
           /\ kind = "MulticastList" => Encode(kind, m) = FromMulticastList(m)
           /\ kind = "DeviceInformation" => Encode(kind, m) = FromDeviceInformation(m)
<1>1. kind = "SetParameters" => Encode(kind, m) = FromSetParameters(m)
  BY DEF Encode
<1>2. kind = "GetParameters" => Encode(kind, m) = FromGetParameters(m)
  BY DEF Encode
<1>3. kind = "Parameters" => Encode(kind, m) = FromParameters(m)
  BY DEF Encode
<1>4. kind = "ParameterStatuses" => Encode(kind, m) = FromSetParametersStatus(m)
  BY DEF Encode
<1>5. kind = "MulticastList" => Encode(kind, m) = FromMulticastList(m)
  BY DEF Encode
<1>6. kind = "DeviceInformation" => Encode(kind, m) = FromDeviceInformation(m)
  BY DEF Encode
<1>7. QED
  BY <1>1, <1>2, <1>3, <1>4, <1>5, <1>6

-----------------------------------------------------------------------------
\* What is sent with values that are bytes.
Valued(parameters) == \A i \in DOMAIN parameters : IsBytes(ParamValue(parameters[i]))
Written(kind, m) ==
    /\ Sent(kind, m)
    /\ kind = "SetParameters" => Valued(m.Parameters)
    /\ kind = "Parameters" => Valued(m)

LEMMA MessageInside ==
    ASSUME NEW kind, NEW m, Written(kind, m)
    PROVE  Inside(Encode(kind, m), Elements(kind, m))
<1>1. CASE kind = "SetParameters"
  <2>1. IsList(m.Parameters) /\ Valued(m.Parameters)
    BY <1>1, KindsAre DEF Written, Sent
  <2>2. Inside(FromSetParameters(m), Len(m.Parameters))
    BY <2>1, ParametersInside DEF FromSetParameters, Valued
  <2>3. QED
    BY <1>1, <2>2, EncodeIs, ElementsAre
<1>2. CASE kind = "Parameters"
  <2>1. IsList(m) /\ Valued(m)
    BY <1>2, KindsAre DEF Written, Sent
  <2>2. Inside(FromParameters(m), Len(m))
    BY <2>1, ParametersInside DEF FromParameters, Valued
  <2>3. QED
    BY <1>2, <2>2, EncodeIs, ElementsAre
<1>3. CASE kind \notin {"SetParameters", "Parameters"}
  <2>1. kind \in DOMAIN Message /\ m \in Message[kind]
    BY <1>3 DEF Written, Sent
  <2>2. CASE kind = "GetParameters"
    <3>1. Len(m.ParameterTypes) \in Nat
      BY <2>1, <2>2 DEF Message
    <3>2. QED
      BY <2>2, <3>1, GetParametersInside, EncodeIs, ElementsAre
  <2>3. CASE kind = "ParameterStatuses"
    <3>1. Len(m.ParameterStatuses) \in Nat
      BY <2>1, <2>3 DEF Message
    <3>2. Inside(FromSetParametersStatus(m), Len(m.ParameterStatuses))
      BY <3>1, StructsAre, ElementsInside DEF FromSetParametersStatus
    <3>3. QED
      BY <2>3, <3>2, EncodeIs, ElementsAre
  <2>4. CASE kind = "MulticastList"
    <3>1. Len(m.Controlees) \in Nat
      BY <2>1, <2>4 DEF Message
    <3>2. Inside(FromMulticastList(m), Len(m.Controlees))
      BY <3>1, StructsAre, ElementsInside DEF FromMulticastList
    <3>3. QED
      BY <2>4, <3>2, EncodeIs, ElementsAre
  <2>5. CASE kind = "DeviceInformation"
    BY <2>1, <2>5, DeviceInformationInside, EncodeIs
  <2>6. CASE kind \in Notifications
    BY <2>1, <2>6, NotificationsInside, NotificationPasses, ElementsAre
  <2>7. QED
    BY <2>1, <2>2, <2>3, <2>4, <2>5, <2>6, KindsAre DEF Notifications
<1>4. QED
  BY <1>1, <1>2, <1>3

LEMMA ParametersAreValued ==
    ASSUME NEW parameters, IsParameters(parameters)
    PROVE  IsList(parameters) /\ Valued(parameters) /\ AllWritable(parameters)
<1>1. ASSUME NEW i \in DOMAIN parameters
      PROVE  IsBytes(ParamValue(parameters[i])) /\ Writable(parameters[i])
  <2>1. Typed(parameters[i]) /\ WithinBytes(ParamHeader + Len(ParamValue(parameters[i])), 4)
    BY DEF IsParameters
  <2>2. ParamValue(parameters[i]) \in Seq(Int) /\ parameters[i].Type \in ParameterType
    BY <2>1, ValueIs DEF Typed
  <2>3. QED
    BY <2>1, <2>2, HeaderIs, BytesAre DEF Writable
<1>2. QED
  BY <1>1 DEF IsParameters, IsList, Valued, AllWritable

LEMMA MessageIsWritten ==
    ASSUME NEW kind, NEW m, IsMessage(kind, m)
    PROVE  Written(kind, m)
<1>1. CASE kind = "SetParameters"
  <2>1. IsParameters(m.Parameters)
    BY <1>1 DEF IsMessage
  <2>2. QED
    BY <1>1, <2>1, MessageIsSent, ParametersAreValued DEF Written
<1>2. CASE kind = "Parameters"
  <2>1. IsParameters(m)
    BY <1>2 DEF IsMessage
  <2>2. QED
    BY <1>2, <2>1, MessageIsSent, ParametersAreValued DEF Written
<1>3. CASE kind \notin {"SetParameters", "Parameters"}
  BY <1>3, MessageIsSent DEF Written
<1>4. QED
  BY <1>1, <1>2, <1>3

-----------------------------------------------------------------------------
(* What a driver has.                                                      *)

LEMMA BytesRead ==
    ASSUME NEW memory, NEW at, NEW n \in Nat
    PROVE  IsBytes(Read(memory, at, n))
<1> DEFINE s == Read(memory, at, n)
           X == {s[i] : i \in 1 .. n}
<1>1. s = [i \in 1 .. n |-> s[i]]
  BY DEF Read
<1>2. \A i \in 1 .. n : s[i] \in X
  OBVIOUS
<1> HIDE DEF s, X
<1>3. s \in [1 .. n -> X]
  BY <1>1, <1>2
<1>4. QED
  BY <1>3, BytesAre DEF s

LEMMA AddressBytes ==
    ASSUME NEW S, IsFiniteSet(S), \A a \in S : IsBytes(a)
    PROVE  IsBytes(FlattenSeq(SetToSeq(S)))
<1> DEFINE n == Cardinality(S)
           f == SetToSeq(S)
<1>1. n \in Nat /\ f \in [1 .. n -> S]
  BY SetToSeqIs
<1> HIDE DEF n, f
<1>2. f = [i \in 1 .. n |-> f[i]] /\ \A i \in 1 .. n : IsBytes(f[i])
  BY <1>1
<1>3. QED
  BY <1>1, <1>2, BytesFlatten DEF f

LEMMA DestinationBytes ==
    ASSUME NEW param, NEW mode, param.paramLength \in Nat
    PROVE  LET p == ToDestinationAddresses(param, mode) IN
           p.Type = "DestinationMacAddresses" /\ IsBytes(ParamValue(p))
<1> DEFINE length == IF mode = UwbMacAddressType.Short THEN UwbMacAddressLength.Short
                     ELSE UwbMacAddressLength.Extended
           n == param.paramLength \div length
           f == [i \in 1 .. n |-> Read(param.paramValue, (i - 1) * length, length)]
           S == {f[i] : i \in 1 .. n}
           p == ToDestinationAddresses(param, mode)
<1>1. length \in {2, 8}
  BY DEF UwbMacAddressLength
<1>2. n \in Nat
  <2> HIDE DEF length
  <2>1. CASE length = 2
    BY <2>1
  <2>2. CASE length = 8
    BY <2>2
  <2>3. QED
    BY <1>1, <2>1, <2>2
<1>3. p = Parameter("DestinationMacAddresses", S)
  BY DEF ToDestinationAddresses
<1>4. \A i \in 1 .. n : IsBytes(f[i])
  <2> TAKE i \in 1 .. n
  <2>1. f[i] = Read(param.paramValue, (i - 1) * length, length)
    OBVIOUS
  <2> HIDE DEF f, length
  <2>2. length \in Nat
    BY <1>1
  <2>3. QED
    BY <2>1, <2>2, BytesRead
<1>5. DOMAIN f = 1 .. n
  OBVIOUS
<1> HIDE DEF n, f, p, length
<1>6. IsFiniteSet(S)
  <2>1. IsFiniteSet(1 .. n)
    BY <1>2, FS_Interval
  <2>2. [i \in 1 .. n |-> f[i]] \in Surjection(1 .. n, S)
    BY DEF Surjection
  <2> HIDE DEF S
  <2>3. QED
    BY <2>1, <2>2, FS_Surjection
<1>7. \A a \in S : IsBytes(a)
  BY <1>4
<1> HIDE DEF S
<1>8. p.Type = "DestinationMacAddresses" /\ p.Alternative = "addresses" /\ p.Value = S
  <2>1. UwbApplicationConfigurationParameterValue["DestinationMacAddresses"] = "addresses"
    BY ParameterTypeNumbers DEF UwbApplicationConfigurationParameterValue, ParameterType
  <2>2. QED
    BY <1>3, <2>1 DEF Parameter
<1>9. ParamValue(p) = FlattenSeq(SetToSeq(S))
  BY <1>8, ParamValueIs
<1>10. QED
  BY <1>6, <1>7, <1>8, <1>9, AddressBytes DEF p

\* A parameter that a driver has.
Had(p) == p.Type \in ParameterType /\ IsBytes(ParamValue(p))

LEMMA ArrayElements ==
    ASSUME NEW parameters, AllWritable(parameters), \A i \in DOMAIN parameters : Typed(parameters[i]),
           NEW w, w.appConfigParams = ArrayOfParameters(parameters),
           w.appConfigParamsCount = Len(parameters), NEW keepsMode \in BOOLEAN
    PROVE  LET array == ToParameterArray(w, keepsMode) IN
           /\ Len(array) \in Nat /\ DOMAIN array = 1 .. Len(array)
           /\ \A i \in DOMAIN array : Had(array[i])
<1> DEFINE params == ParamsIn(ArrayOfParameters(parameters), Len(parameters))
           n == Len(parameters)
           o == OtherPlaces(parameters, keepsMode)
           d == PlacesOf(parameters, "DestinationMacAddresses")
           m == PlacesOf(parameters, "MacAddressMode")
           others == Chosen(params, o)
           destinations == Chosen(params, d)
           modes == Chosen(params, m)
           kept == [i \in DOMAIN others |-> ToParameter(others[i])]
           last == Last(destinations)
           mode == IF modes = << >> THEN UwbMacAddressType.Short ELSE ToParameter(Last(modes)).Value
           array == ToParameterArray(w, keepsMode)
<1>1. array = kept \o (IF destinations = << >> THEN << >>
                       ELSE <<ToDestinationAddresses(CopyOf(last), mode)>>)
  BY ArrayIsRead
<1>2. n \in Nat /\ \A i \in 1 .. n : Typed(parameters[i]) /\ Writable(parameters[i])
  BY DEF AllWritable
<1>3. DOMAIN params = 1 .. n /\ \A i \in 1 .. n : Reads(params[i], parameters[i])
  BY ParamsInIs
<1>4. /\ Len(o) \in Nat
      /\ \A j \in 1 .. Len(o) : o[j] \in 1 .. n /\ parameters[o[j]].Type # "DestinationMacAddresses"
  <2> DEFINE keep == [i \in 1 .. n |->
               parameters[i].Type \notin (IF keepsMode THEN {} ELSE {"MacAddressMode"})
                                         \cup {"DestinationMacAddresses"}]
  <2>1. o = Places(n, keep)
    BY DEF OtherPlaces
  <2>2. \A i \in 1 .. n : keep[i] => parameters[i].Type # "DestinationMacAddresses"
    OBVIOUS
  <2> HIDE DEF keep, n, o
  <2>3. o \in Seq(1 .. n) /\ \A j \in 1 .. Len(o) : o[j] \in 1 .. n /\ keep[o[j]]
    BY <1>2, <2>1, PlacesAre
  <2>4. QED
    BY <2>2, <2>3, LenProperties
<1>5. /\ Len(d) \in Nat
      /\ \A j \in 1 .. Len(d) : d[j] \in 1 .. n
  <2> DEFINE keep == [i \in 1 .. n |-> parameters[i].Type = "DestinationMacAddresses"]
  <2>1. d = Places(n, keep)
    BY DEF PlacesOf
  <2> HIDE DEF keep, n, d
  <2>2. d \in Seq(1 .. n) /\ \A j \in 1 .. Len(d) : d[j] \in 1 .. n
    BY <1>2, <2>1, PlacesAre
  <2>3. QED
    BY <2>2, LenProperties
<1> HIDE DEF array, o, d, m, params, n
<1>6. DOMAIN others = 1 .. Len(o) /\ \A j \in 1 .. Len(o) : others[j] = params[o[j]]
  BY <1>4 DEF Chosen
<1> HIDE DEF others
<1>7. \A j \in 1 .. Len(o) : Had(kept[j])
  <2> TAKE j \in 1 .. Len(o)
  <2> DEFINE i == o[j]
  <2>1. i \in 1 .. n /\ parameters[i].Type # "DestinationMacAddresses"
    BY <1>4
  <2>2. kept[j] = ToParameter(params[i])
    BY <1>6
  <2> HIDE DEF i
  <2>3. Typed(parameters[i]) /\ Writable(parameters[i])
    BY <1>2, <2>1
  <2>4. ToParameter(params[i]) = parameters[i]
    BY <1>3, <2>1, <2>3, KindIs, ValueReturns
  <2>5. QED
    BY <2>2, <2>3, <2>4, BytesAre DEF Had, Writable
<1>8. DOMAIN kept = 1 .. Len(o)
  BY <1>6
<1>9. ASSUME destinations # << >> PROVE Had(ToDestinationAddresses(CopyOf(last), mode))
  <2>1. Len(d) # 0
    BY <1>5, <1>9 DEF Chosen
  <2>2. last = params[d[Len(d)]] /\ d[Len(d)] \in 1 .. n
    <3>1. Len(destinations) = Len(d) /\ Len(d) \in 1 .. Len(d)
      BY <1>5, <2>1 DEF Chosen
    <3>2. QED
      BY <1>5, <3>1 DEF Last, Chosen
  <2>3. Reads(last, parameters[d[Len(d)]]) /\ Writable(parameters[d[Len(d)]])
    BY <1>2, <1>3, <2>2
  <2> HIDE DEF last, mode, destinations
  <2>4. CopyOf(last).paramLength \in Nat
    <3>1. CopyOf(last).paramLength = last.paramLength
      BY <2>3 DEF CopyOf, Reads
    <3>2. last.paramLength \in Nat
      BY <2>3 DEF Reads, Writable
    <3>3. QED
      BY <3>1, <3>2
  <2>5. "DestinationMacAddresses" \in ParameterType
    BY ParameterTypeNumbers DEF ParameterType
  <2>6. QED
    BY <2>4, <2>5, DestinationBytes DEF Had
<1> DEFINE P == {p \in {kept[j] : j \in 1 .. Len(o)} \cup {ToDestinationAddresses(CopyOf(last), mode)} : Had(p)}
<1>10. kept \in Seq(P)
  <2>1. kept = [j \in 1 .. Len(o) |-> kept[j]]
    BY <1>8
  <2> HIDE DEF kept
  <2>2. kept \in [1 .. Len(o) -> P]
    BY <1>7, <2>1
  <2>3. QED
    BY <1>4, <2>2
<1>11. array \in Seq(P)
  <2> DEFINE x == ToDestinationAddresses(CopyOf(last), mode)
  <2>1. (IF destinations = << >> THEN << >> ELSE <<x>>) \in Seq(P)
    <3>1. CASE destinations = << >>
      <4> HIDE DEF P, x, destinations
      <4>1. QED
        BY <3>1
    <3>2. CASE destinations # << >>
      <4>1. x \in P
        BY <1>9, <3>2
      <4> HIDE DEF P, x, destinations
      <4>2. QED
        BY <3>2, <4>1
    <3>3. QED
      BY <3>1, <3>2
  <2> HIDE DEF P, x, destinations, kept
  <2>2. QED
    BY <1>1, <1>10, <2>1, ConcatProperties DEF x
<1>12. \A p \in P : Had(p)
  OBVIOUS
<1> HIDE DEF P
<1>13. QED
  BY <1>11, <1>12 DEF array

-----------------------------------------------------------------------------
(* What a driver is given of a decoded configuration.                      *)

LEMMA CopiedBytes ==
    ASSUME NEW s, NEW n \in Nat
    PROVE  IsBytes([i \in 1 .. n |-> s[i]])
<1> DEFINE X == {s[i] : i \in 1 .. n}
           t == [i \in 1 .. n |-> s[i]]
<1>1. t = [i \in 1 .. n |-> t[i]] /\ \A i \in 1 .. n : t[i] \in X
  OBVIOUS
<1> HIDE DEF X, t
<1>2. t \in [1 .. n -> X]
  BY <1>1
<1>3. QED
  BY <1>2, BytesAre DEF t

\* A configuration whose addresses are bytes.
Addressed(c) == \A t \in Addresses \cap DOMAIN c : IsBytes(c[t])

LEMMA DecodedAddresses ==
    ASSUME NEW bytes
    PROVE  /\ IsBytes(DecodedValue("ControleeShortMacAddress", bytes))
           /\ Accepts("ControllerMacAddress", bytes) =>
                IsBytes(DecodedValue("ControllerMacAddress", bytes))
<1>1. UwbMacAddressLength = [Short |-> 2, Extended |-> 8]
  BY DEF UwbMacAddressLength
<1>2. DecodedValue("ControleeShortMacAddress", bytes) = [i \in 1 .. UwbMacAddressLength.Short |-> bytes[i]]
  BY Zenon DEF DecodedValue, Booleans, Integers16, Integers32
<1>3. DecodedValue("ControllerMacAddress", bytes) = [i \in 1 .. Len(bytes) |-> bytes[i]]
  BY Zenon DEF DecodedValue, Booleans, Integers16, Integers32
<1>4. Accepts("ControllerMacAddress", bytes) => Len(bytes) \in Range(UwbMacAddressLength)
  <2>1. "ControllerMacAddress" \notin DOMAIN ConfigurationEnumeration
    BY DEF ConfigurationEnumeration
  <2>2. QED
    BY <2>1, Zenon DEF Accepts
<1>5. Range(UwbMacAddressLength) = {2, 8}
  BY <1>1 DEF Range
<1>6. UwbMacAddressLength.Short \in Nat
  BY <1>1
<1>7. QED
  <2>1. IsBytes([i \in 1 .. UwbMacAddressLength.Short |-> bytes[i]])
    BY <1>6, CopiedBytes
  <2>2. Len(bytes) \in {2, 8} => IsBytes([i \in 1 .. Len(bytes) |-> bytes[i]])
    BY CopiedBytes
  <2>3. QED
    BY <1>2, <1>3, <1>4, <1>5, <2>1, <2>2

LEMMA ConfigurationIsAddressed ==
    ASSUME NEW tlv, NEW before0, NEW c \in FromConfigurationObject(tlv, before0)
    PROVE  Addressed(c)
<1> DEFINE found == Found(tlv, ConfigurationTag, Empty)
           accepted == {t \in DOMAIN found : Accepts(t, found[t].value)}
           all == [t \in accepted |-> DecodedValue(t, found[t].value)]
           kept == accepted \ (Integers8 \cup Integers16)
<1>1. c = all \/ c = Restrict(all, kept)
  BY DEF FromConfigurationObject
<1>2. ASSUME NEW t \in Addresses, t \in accepted PROVE IsBytes(all[t])
  <2>1. Accepts(t, found[t].value) /\ all[t] = DecodedValue(t, found[t].value)
    BY <1>2
  <2>2. t \in {"ControleeShortMacAddress", "ControllerMacAddress"}
    BY DEF Addresses
  <2> HIDE DEF found, all
  <2>3. QED
    BY <2>1, <2>2, DecodedAddresses
<1>3. DOMAIN all = accepted /\ kept \subseteq accepted
  OBVIOUS
<1> HIDE DEF all, accepted, kept
<1>4. CASE c = all
  BY <1>2, <1>3, <1>4 DEF Addressed
<1>5. CASE c = Restrict(all, kept)
  <2>1. DOMAIN c \subseteq accepted /\ \A t \in DOMAIN c : c[t] = all[t]
    BY <1>3, <1>5 DEF Restrict
  <2>2. QED
    BY <1>2, <2>1 DEF Addressed
<1>6. QED
  BY <1>1, <1>4, <1>5

LEMMA SessionDataIsAddressed ==
    ASSUME NEW tlv, NEW before0, NEW data \in FromSessionDataObject(tlv, before0)
    PROVE  Addressed(data.ConfigurationParameters)
<1> DEFINE found == Found(tlv, SessionDataTag, EmptyPrimitive)
           number(t) == ReadSizeTFromBytesBigEndian(found[t].value)
           part(t, contents) == IF t \in DOMAIN found THEN contents ELSE {None}
           available == "UwbConfigAvailable" \in DOMAIN found /\ number("UwbConfigAvailable") # 0
           made(configuration, static, secure, regulatory) ==
             [SessionDataVersion |-> number("SessionDataVersion"),
              SessionId |-> number("SessionId"), SubSessionId |-> number("SubSessionId"),
              ConfigurationParameters |-> configuration,
              UwbConfigAvailable |-> IF available THEN 1 ELSE 0,
              StaticRangingInfo |-> static, SecureRangingInfo |-> secure,
              RegulatoryInformation |-> regulatory]
<1>1. FromSessionDataObject(tlv, before0) =
        IF ~(SessionDataRequired \subseteq DOMAIN found) THEN {}
        ELSE {made(c, static, secure, regulatory) :
                c \in FromConfigurationObject(found["ConfigurationParameters"], before0),
                static \in part("StaticRangingInfo", FromStaticObject(found["StaticRangingInfo"])),
                secure \in part("SecureRangingInfo", FromSecureObject(found["SecureRangingInfo"])),
                regulatory \in part("RegulatoryInformation", FromRegulatoryObject(found["RegulatoryInformation"]))}
  BY DEF FromSessionDataObject
<1>2. ASSUME NEW c, NEW static, NEW secure, NEW regulatory
      PROVE  made(c, static, secure, regulatory).ConfigurationParameters = c
  OBVIOUS
<1> HIDE DEF made, part, found
<1>3. \E c \in FromConfigurationObject(found["ConfigurationParameters"], before0) :
      \E static, secure, regulatory : data = made(c, static, secure, regulatory)
  BY <1>1
<1>4. QED
  BY <1>2, <1>3, ConfigurationIsAddressed

LEMMA GivenParameters ==
    ASSUME NEW c, Addressed(c)
    PROVE  LET values == GetUciConfigParams(c, DeviceType.Controlee) IN
           DOMAIN values \subseteq ParameterType /\ \A t \in DOMAIN values : Had(values[t])
<1> DEFINE uci == UciValues(c, DeviceType.Controlee)
           values == GetUciConfigParams(c, DeviceType.Controlee)
<1>1. DOMAIN uci \subseteq ParameterType
  BY DEF UciValues
<1>2. /\ "StaticStsIv" \notin DOMAIN Corresponding /\ "DeviceMacAddress" \notin DOMAIN Corresponding
      /\ "DestinationMacAddresses" \notin DOMAIN Corresponding
  BY DEF Corresponding
<1>3. "StaticStsIv" \notin DOMAIN uci
  BY <1>2 DEF UciValues
<1>4. "DeviceMacAddress" \in DOMAIN uci =>
        \E a \in Addresses \cap DOMAIN c : uci["DeviceMacAddress"] = c[a]
  BY <1>2 DEF UciValues, Addresses
<1>5. "DestinationMacAddresses" \in DOMAIN uci =>
        \E a \in Addresses \cap DOMAIN c : uci["DestinationMacAddresses"] = c[a]
  BY <1>2 DEF UciValues, Addresses
<1>6. ASSUME NEW t \in DOMAIN values PROVE Had(values[t])
  <2> DEFINE v == values[t]
             a0 == UwbApplicationConfigurationParameterValue[t]
  <2>1. t \in DOMAIN uci /\ DOMAIN values = DOMAIN uci
    BY DEF GetUciConfigParams
  <2>2. v = [Parameter(t, uci[t]) EXCEPT
              !.Alternative = CASE t = "RangingInterval" -> "uint16"
                                [] t = "DestinationMacAddresses" -> "address"
                                [] OTHER -> @]
    BY <2>1, Zenon DEF GetUciConfigParams
  <2> DEFINE alternative == CASE t = "RangingInterval" -> "uint16"
                              [] t = "DestinationMacAddresses" -> "address"
                              [] OTHER -> a0
  <2>3. v.Type = t /\ v.Value = uci[t] /\ v.Alternative = alternative
    BY <2>2 DEF Parameter
  <2> SUFFICES Had(v)
    OBVIOUS
  <2> HIDE DEF v, uci, values
  <2>4. t \in ParameterType
    BY <1>1, <2>1
  <2>5. t # "StaticStsIv"
    BY <1>3, <2>1
  <2>6. CASE v.Alternative = "address"
    <3>1. t \in {"DeviceMacAddress", "DestinationMacAddresses"}
      BY <2>3, <2>4, <2>6 DEF ParameterType, UwbApplicationConfigurationParameterValue
    <3>2. IsBytes(uci[t])
      BY <1>4, <1>5, <2>1, <3>1 DEF Addressed
    <3>3. QED
      BY <2>3, <2>4, <2>6, <3>2, ParamValueIs DEF Had
  <2>7. CASE v.Alternative = "reports"
    <3>1. ParamValue(v) = <<Bits(v.Value)>>
      BY <2>7, ParamValueIs
    <3>2. <<Bits(v.Value)>> \in [1 .. 1 -> {Bits(v.Value)}]
      OBVIOUS
    <3>3. QED
      BY <2>3, <2>4, <3>1, <3>2, BytesAre DEF Had
  <2>8. v.Alternative \notin {"addresses", "vector"}
    BY <2>3, <2>4, <2>5 DEF ParameterType, UwbApplicationConfigurationParameterValue
  <2>9. CASE v.Alternative \notin {"addresses", "address", "vector", "reports"}
    <3>1. ParamValue(v) = LittleEndian(v.Value, AlternativeBytes(v.Alternative, v.Type))
      BY <2>9, ParamValueIs
    <3>2. AlternativeBytes(v.Alternative, v.Type) \in Nat
      BY AlternativeBytesIs
    <3>3. QED
      BY <2>3, <2>4, <3>1, <3>2, IntegerBytes DEF Had
  <2>10. QED
    BY <2>6, <2>7, <2>8, <2>9 DEF v
<1>7. DOMAIN values \subseteq ParameterType
  BY <1>1 DEF GetUciConfigParams
<1>8. QED
  BY <1>6, <1>7

-----------------------------------------------------------------------------
(* What is written stays inside.                                           *)

\* A driver's parameters by type.
IsHeld(byType) == DOMAIN byType \subseteq ParameterType /\ \A t \in DOMAIN byType : Had(byType[t])

\* The last parameter of a type is one of the list.
LEMMA ByTypeIsHeld ==
    ASSUME NEW s, Len(s) \in Nat, DOMAIN s = 1 .. Len(s), \A i \in DOMAIN s : Had(s[i])
    PROVE  IsHeld(ByType(s))
<1> DEFINE types == {s[i].Type : i \in DOMAIN s}
           last(t) == CHOOSE i \in DOMAIN s :
                        s[i].Type = t /\ \A j \in DOMAIN s : s[j].Type = t => j <= i
<1>1. ByType(s) = [t \in types |-> s[last(t)]]
  BY DEF ByType
<1>2. types \subseteq ParameterType
  BY DEF Had
<1>3. ASSUME NEW t \in types PROVE last(t) \in DOMAIN s
  <2> DEFINE S == {i \in DOMAIN s : s[i].Type = t}
  <2>1. S \in SUBSET (0 .. Len(s)) /\ S # {}
    OBVIOUS
  <2>2. Max(S) \in S /\ \A y \in S : y <= Max(S)
    <3> HIDE DEF S
    <3> QED
      BY <2>1, MaxIs
  <2>3. \E i \in DOMAIN s : s[i].Type = t /\ \A j \in DOMAIN s : s[j].Type = t => j <= i
    BY <2>2
  <2>4. QED
    BY <2>3
<1> HIDE DEF types, last
<1>4. QED
  BY <1>1, <1>2, <1>3 DEF IsHeld

LEMMA AfterSetIsHeld ==
    ASSUME NEW id, NEW parameters, IsParameters(parameters)
    PROVE  IsHeld(AfterSet(<< >>, Transfer("SetParameters",
                                    [SessionId |-> id, Parameters |-> parameters])))
<1> DEFINE m == [SessionId |-> id, Parameters |-> parameters]
           w == Encode("SetParameters", m).content
           t == Transfer("SetParameters", m)
           array == ToParameterArray(w, FALSE)
<1>1. m.Parameters = parameters /\ m.SessionId = id
  OBVIOUS
<1> HIDE DEF m
<1>2. /\ w.appConfigParams = ArrayOfParameters(parameters)
      /\ w.appConfigParamsCount = Len(parameters)
  BY <1>1, EncodeIs DEF FromSetParameters, FromParameterArray, ArrayOfParameters, Wrapper
<1>3. t.received = ToSetParameters(w)
  BY DEF Transfer, Decode
<1> HIDE DEF w, t
<1>4. t.received.Parameters = array
  <2>1. ToSetParameters(w) = [SessionId |-> w.header.sessionId, Parameters |-> array]
    BY Zenon DEF ToSetParameters
  <2> HIDE DEF array
  <2>2. QED
    BY <1>3, <2>1
<1>5. /\ AllWritable(parameters) /\ \A i \in DOMAIN parameters : Typed(parameters[i])
  BY ParametersAreValued DEF IsParameters
<1>6. /\ Len(array) \in Nat /\ DOMAIN array = 1 .. Len(array)
      /\ \A i \in DOMAIN array : Had(array[i])
  BY <1>2, <1>5, ArrayElements
<1> HIDE DEF array
<1>7. IsHeld(ByType(array))
  BY <1>6, ByTypeIsHeld
<1>8. AfterSet(<< >>, t) = Over(ByType(array), << >>)
  BY <1>4 DEF AfterSet
<1>9. DOMAIN (<< >>) = {}
  OBVIOUS
<1>10. QED
  BY <1>7, <1>8, <1>9 DEF IsHeld, Over, t, m

LEMMA HeldIsWritten ==
    ASSUME NEW byType, IsHeld(byType), NEW id
    PROVE  /\ Written("Parameters", InTypeOrder(byType))
           /\ Written("SetParameters", [SessionId |-> id, Parameters |-> InTypeOrder(byType)])
<1> DEFINE s == InTypeOrder(byType)
           m == [SessionId |-> id, Parameters |-> s]
<1>1. IsList(s) /\ \A i \in DOMAIN s : \E t \in DOMAIN byType : s[i] = byType[t]
  BY InTypeOrderIs DEF IsHeld, IsList
<1>2. m = [SessionId |-> m.SessionId, Parameters |-> m.Parameters] /\ m.Parameters = s
  OBVIOUS
<1> HIDE DEF s, m
<1>3. Valued(s)
  BY <1>1 DEF Valued, IsHeld, Had
<1>4. Written("Parameters", s) /\ Written("SetParameters", m)
  BY <1>1, <1>2, <1>3 DEF Sent, Written
<1>5. QED
  BY <1>4 DEF s, m

-----------------------------------------------------------------------------
\* The hosts have a driver each, and an object has a kind.
HostsInv ==
    /\ DOMAIN driver = Host /\ DOMAIN decoded = Host /\ DOMAIN joined = Host
    /\ object # None => "kind" \in DOMAIN object

\* A driver whose parameters are read has what was set.
DriverInv == \A h \in Host : joined[h] = None => IsHeld(driver[h])
\* A decoded configuration has addresses of bytes.
DecodedInv ==
    \A h \in Host :
        decoded[h] # None /\ decoded[h].accepted /\ decoded[h].object.kind = "SessionData" =>
            Addressed(decoded[h].content.ConfigurationParameters)

Wrote(t) == \E kind, m : t = Transfer(kind, m) /\ Written(kind, m)
WrittenInv == transfer = None \/ Wrote(transfer)

WritesIInv == HostsInv /\ DriverInv /\ DecodedInv /\ WrittenInv

LEMMA WritesImplied == WrittenInv => WritesInside
<1> SUFFICES ASSUME WrittenInv, transfer # None PROVE WritesInside
  BY DEF WritesInside
<1>1. PICK kind, m : transfer = Transfer(kind, m) /\ Written(kind, m)
  BY DEF WrittenInv, Wrote
<1> DEFINE w == Encode(kind, m)
<1>2. /\ transfer.kind = kind /\ transfer.sent = m /\ transfer.struct = w.struct
      /\ transfer.total = w.total /\ transfer.end = w.end
  BY <1>1 DEF Transfer
<1>3. Inside(w, Elements(kind, m))
  BY <1>1, MessageInside
<1> HIDE DEF w
<1>4. QED
  BY <1>2, <1>3 DEF WritesInside, Inside

-----------------------------------------------------------------------------

\* What a step takes from the state before it.
LEMMA WritesIInvStep ==
    ASSUME WritesIInv, [Next]_vars
    PROVE  WritesIInv'
<1> USE DEF WritesIInv
<1>1. CASE UNCHANGED vars
  BY <1>1 DEF HostsInv, DriverInv, DecodedInv, WrittenInv, Wrote, vars
<1>2. ASSUME NEW kind \in DOMAIN Messages, NEW i \in DOMAIN Messages[kind], Pass(kind, i)
      PROVE  WritesIInv'
  <2>1. Written(kind, Messages[kind][i])
    BY MessagesAssumption, MessageIsWritten
  <2>2. transfer' = Transfer(kind, Messages[kind][i])
    BY <1>2 DEF Pass
  <2>3. WrittenInv'
    BY <2>1, <2>2 DEF WrittenInv, Wrote
  <2>4. UNCHANGED <<driver, object, decoded, joined>>
    BY <1>2 DEF Pass
  <2>5. QED
    BY <2>3, <2>4 DEF HostsInv, DriverInv, DecodedInv
<1>3. ASSUME NEW h \in Host, NEW id \in SessionIds, NEW i \in DOMAIN Configurations,
             Configure(h, id, i)
      PROVE  WritesIInv'
  <2> DEFINE m == [SessionId |-> id, Parameters |-> Configurations[i]]
             t == Transfer("SetParameters", m)
             held == AfterSet(<< >>, t)
  <2>1. IsParameters(Configurations[i])
    BY ConfigurationsAssumption
  <2>2. m.Parameters = Configurations[i]
        /\ m = [SessionId |-> m.SessionId, Parameters |-> m.Parameters]
    OBVIOUS
  <2>3. IsHeld(held)
    BY <2>1, AfterSetIsHeld
  <2>4. transfer' = t /\ driver[h] = << >> /\ driver' = [driver EXCEPT ![h] = AfterSet(@, t)]
        /\ UNCHANGED <<object, decoded, joined>>
    BY <1>3 DEF Configure
  <2>5. driver' = [driver EXCEPT ![h] = held]
    BY <2>4
  <2> HIDE DEF m, held
  <2>6. Written("SetParameters", m)
    BY <2>1, <2>2, MessageIsSent, ParametersAreValued DEF Written, Sent, IsParameters
  <2>7. WrittenInv'
    BY <2>4, <2>6 DEF WrittenInv, Wrote
  <2>8. DriverInv'
    BY <2>3, <2>4, <2>5 DEF DriverInv, HostsInv
  <2>9. QED
    BY <2>4, <2>5, <2>7, <2>8 DEF HostsInv, DecodedInv
<1>4. ASSUME NEW h \in Host, NEW id \in SessionIds, GetOobDataObject(h, id) PROVE WritesIInv'
  <2>1. /\ transfer' = ReadBack(h) /\ joined[h] = None /\ UNCHANGED <<driver, decoded, joined>>
        /\ \E data, tlv : object' = Object("SessionData", h, TRUE, data, tlv)
    BY <1>4 DEF GetOobDataObject
  <2>2. Written("Parameters", InTypeOrder(driver[h]))
    BY <2>1, HeldIsWritten DEF DriverInv
  <2>3. WrittenInv'
    BY <2>1, <2>2 DEF WrittenInv, Wrote, ReadBack
  <2>4. "kind" \in DOMAIN object'
    BY <2>1 DEF Object
  <2>5. QED
    BY <2>1, <2>3, <2>4 DEF HostsInv, DriverInv, DecodedInv
<1>5. ASSUME NEW h \in Host, NEW i, SendSessionData(h, i) \/ SendCapabilities(h, i)
      PROVE  WritesIInv'
  <2>1. /\ transfer' = None /\ UNCHANGED <<driver, decoded, joined>>
        /\ \E kind, data, tlv : object' = Object(kind, h, FALSE, data, tlv)
    <3>1. CASE SendSessionData(h, i)
      BY <3>1 DEF SendSessionData
    <3>2. CASE SendCapabilities(h, i)
      BY <3>2 DEF SendCapabilities
    <3>3. QED
      BY <1>5, <3>1, <3>2
  <2>2. "kind" \in DOMAIN object'
    BY <2>1 DEF Object
  <2>3. QED
    BY <2>1, <2>2 DEF HostsInv, DriverInv, DecodedInv, WrittenInv
<1>6. ASSUME NEW h \in Host, Receive(h) PROVE WritesIInv'
  <2> DEFINE parsed == Parse(object.bytes)
             outcomes == CASE ~parsed.succeeded -> {}
                           [] parsed.succeeded /\ object.kind = "SessionData" ->
                                 FromSessionDataObject(parsed.tlv, before[h])
                           [] parsed.succeeded /\ object.kind = "Capability" ->
                                 FromOobDataObject(parsed.tlv)
             made(accepted, content) ==
                 [object |-> [object EXCEPT !.bytes = << >>], first |-> ~before[h],
                  accepted |-> accepted, content |-> content]
  <2>1. /\ object # None
        /\ \/ \E content \in outcomes : decoded' = [decoded EXCEPT ![h] = made(TRUE, content)]
           \/ outcomes = {} /\ decoded' = [decoded EXCEPT ![h] = made(FALSE, None)]
        /\ transfer' = None /\ object' = None /\ UNCHANGED <<driver, joined>>
    BY <1>6, Zenon DEF Receive
  <2>2. \A accepted, content :
           /\ made(accepted, content).accepted = accepted
           /\ made(accepted, content).content = content
           /\ made(accepted, content).object.kind = object.kind
    <3>1. [object EXCEPT !.bytes = << >>].kind = object.kind
      BY <2>1 DEF HostsInv
    <3>2. QED
      BY <3>1
  <2>3. ASSUME NEW content \in outcomes, object.kind = "SessionData"
        PROVE  Addressed(content.ConfigurationParameters)
    <3>1. parsed.succeeded => outcomes = FromSessionDataObject(parsed.tlv, before[h])
      BY <2>3, Zenon
    <3>2. ~parsed.succeeded => outcomes = {}
      BY Zenon
    <3> HIDE DEF outcomes, parsed
    <3>3. QED
      BY <2>3, <3>1, <3>2, SessionDataIsAddressed
  <2> HIDE DEF outcomes, made
  <2>4. DecodedInv'
    <3> SUFFICES ASSUME NEW k \in Host, decoded'[k] # None, decoded'[k].accepted,
                        decoded'[k].object.kind = "SessionData"
                 PROVE  Addressed(decoded'[k].content.ConfigurationParameters)
      BY DEF DecodedInv
    <3>1. CASE k # h
      BY <2>1, <3>1 DEF DecodedInv, HostsInv
    <3>2. ASSUME k = h, NEW content \in outcomes, decoded' = [decoded EXCEPT ![h] = made(TRUE, content)]
          PROVE  Addressed(decoded'[k].content.ConfigurationParameters)
      <4>1. decoded'[k] = made(TRUE, content)
        BY <3>2 DEF HostsInv
      <4>2. made(TRUE, content).object.kind = object.kind /\ made(TRUE, content).content = content
        BY <2>2, Zenon
      <4>3. object.kind = "SessionData" /\ decoded'[k].content = content
        BY <4>1, <4>2
      <4>4. QED
        BY <2>3, <4>3
    <3>3. CASE k = h /\ decoded' = [decoded EXCEPT ![h] = made(FALSE, None)]
      <4>1. decoded'[k] = made(FALSE, None)
        BY <3>3 DEF HostsInv
      <4>2. ~decoded'[k].accepted
        BY <2>2, <4>1
      <4>3. QED
        BY <4>2
    <3>4. QED
      BY <2>1, <3>1, <3>2, <3>3
  <2>5. DOMAIN decoded' = Host
    BY <2>1 DEF HostsInv
  <2>6. QED
    BY <2>1, <2>4, <2>5 DEF HostsInv, DriverInv, WrittenInv
<1>7. ASSUME NEW h \in Host, Join(h) PROVE WritesIInv'
  <2> DEFINE data == decoded[h].content
             values == GetUciConfigParams(data.ConfigurationParameters, DeviceType.Controlee)
             m == [SessionId |-> data.SessionId, Parameters |-> InTypeOrder(values)]
             t == Transfer("SetParameters", m)
  <2>1. /\ decoded[h] # None /\ decoded[h].accepted /\ decoded[h].object.kind = "SessionData"
        /\ transfer' = t
        /\ driver' = [driver EXCEPT ![h] = AfterSet(@, t)]
        /\ joined' = [joined EXCEPT ![h] = decoded[h]]
        /\ UNCHANGED <<object, decoded>>
    BY <1>7 DEF Join
  <2>2. Addressed(data.ConfigurationParameters)
    BY <2>1 DEF DecodedInv
  <2>3. IsHeld(values)
    <3> HIDE DEF data
    <3>1. DOMAIN values \subseteq ParameterType /\ \A u \in DOMAIN values : Had(values[u])
      BY <2>2, GivenParameters
    <3> HIDE DEF values
    <3>2. QED
      BY <3>1 DEF IsHeld
  <2> HIDE DEF values
  <2>4. Written("SetParameters", m)
    BY <2>3, HeldIsWritten
  <2> HIDE DEF m
  <2>5. WrittenInv'
    BY <2>1, <2>4 DEF WrittenInv, Wrote
  <2> HIDE DEF t
  <2>6. \A k \in Host : joined'[k] = None => k # h /\ driver'[k] = driver[k] /\ joined[k] = None
    BY <2>1 DEF HostsInv
  <2>7. DriverInv'
    BY <2>6 DEF DriverInv
  <2>8. QED
    BY <2>1, <2>5, <2>7 DEF HostsInv, DecodedInv
<1>8. ASSUME NEW n \in Ends, EndEarly(n) PROVE WritesIInv'
  <2>1. /\ object # None /\ UNCHANGED <<driver, transfer, decoded, joined>>
        /\ object' = [object EXCEPT !.bytes = SubSeq(@, 1, n), !.whole = FALSE, !.content = None]
    BY <1>8 DEF EndEarly
  <2>2. DOMAIN object' = DOMAIN object
    BY <2>1
  <2>3. QED
    BY <2>1, <2>2 DEF HostsInv, DriverInv, DecodedInv, WrittenInv, Wrote
<1>9. QED
  BY <1>1, <1>2, <1>3, <1>4, <1>5, <1>6, <1>7, <1>8 DEF Next

\* No conversion writes past the end of its buffer, whatever the parameters of
\* the driver and of the other host are.
THEOREM ConversionsStayInside == Spec => []WritesInside
<1>1. Init => WritesIInv
  <2> SUFFICES ASSUME Init PROVE WritesIInv
    OBVIOUS
  <2>1. HostsInv /\ DecodedInv /\ WrittenInv
    BY DEF Init, HostsInv, DecodedInv, WrittenInv
  <2>2. \A h \in Host : driver[h] = << >>
    BY DEF Init
  <2>3. DOMAIN (<< >>) = {}
    OBVIOUS
  <2>4. DriverInv
    BY <2>2, <2>3 DEF DriverInv, IsHeld
  <2>5. QED
    BY <2>1, <2>4 DEF WritesIInv
<1>2. WritesIInv /\ [Next]_vars => WritesIInv'
  BY WritesIInvStep
<1>3. WritesIInv => WritesInside
  BY WritesImplied DEF WritesIInv
<1>4. QED
  BY <1>1, <1>2, <1>3, PTL DEF Spec

-----------------------------------------------------------------------------
(* Objects on the link.                                                    *)

\* An object of primitive ones is one that the parser reads, too.
LEMMA BranchIsTree ==
    ASSUME NEW t, Branch(t)
    PROVE  Tree(t)
<1> DEFINE n == Len(t.values)
<1>1. n \in Nat /\ DOMAIN t.values = 1 .. n /\ \A i \in 1 .. n : Leaf(t.values[i])
  BY DEF Branch, IsObject
<1>2. \A i \in 1 .. n : BranchBytes(t.values[i]) = LeafBytes(t.values[i])
  BY <1>1, Zenon DEF Leaf, BranchBytes, LeafBytes
<1>3. [i \in DOMAIN t.values |-> BranchBytes(t.values[i])]
        = [i \in DOMAIN t.values |-> LeafBytes(t.values[i])]
  BY <1>1, <1>2, Zenon
<1>4. BranchesBytes(t) = LeavesBytes(t)
  BY <1>3, Zenon DEF BranchesBytes, LeavesBytes
<1>5. QED
  BY <1>4, Zenon DEF Branch, Tree

LEMMA TreeLength ==
    ASSUME NEW t, Tree(t)
    PROVE  Len(ToBytes(t)) \in Nat
<1>1. PICK tag, value : tag = t.tag /\ value = BranchesBytes(t)
  OBVIOUS
<1>2. ToBytes(t) = Encoded(tag, value)
  BY <1>1, TreeBytes DEF Tree
<1>3. Returns(Encoded(tag, value), t)
  BY <1>1, BranchesReturn
<1>4. ToBytes(t) \in Seq(Int)
  BY <1>2, <1>3, Zenon DEF Returns
<1>5. QED
  BY <1>4, LenProperties

\* What an object that is sent stands for.
StandsFor(kind, content, tlv) ==
    \/ kind = "SessionData" /\ IsSessionData(content, Int) /\ tlv = ToSessionDataObject(content)
    \/ kind = "Capability" /\ IsCapability(content) /\ tlv = ToOobDataObject(content)

LEMMA ObjectIsTree ==
    ASSUME NEW kind, NEW content, NEW tlv, StandsFor(kind, content, tlv)
    PROVE  Tree(tlv)
<1>1. CASE kind = "SessionData" /\ IsSessionData(content, Int) /\ tlv = ToSessionDataObject(content)
  BY <1>1, SessionDataTree
<1>2. CASE kind = "Capability" /\ IsCapability(content) /\ tlv = ToOobDataObject(content)
  BY <1>2, CapabilityObject, BranchIsTree
<1>3. QED
  BY <1>1, <1>2 DEF StandsFor

\* An object on the link: all of its bytes, or the first ones.
OnLink(o) ==
    /\ o = [kind |-> o.kind, from |-> o.from, ofSession |-> o.ofSession, whole |-> o.whole,
            content |-> o.content, bytes |-> o.bytes]
    /\ o.whole \in BOOLEAN
    /\ \E content, tlv :
         /\ StandsFor(o.kind, content, tlv)
         /\ o.whole => o.content = content /\ o.bytes = ToBytes(tlv)
         /\ ~o.whole => \E n \in Nat : n < Len(ToBytes(tlv)) /\ o.bytes = SubSeq(ToBytes(tlv), 1, n)

LEMMA ObjectOnLink ==
    ASSUME NEW kind, NEW h, NEW ofSession, NEW content, NEW tlv, StandsFor(kind, content, tlv)
    PROVE  OnLink(Object(kind, h, ofSession, content, tlv))
<1> DEFINE o == Object(kind, h, ofSession, content, tlv)
<1>1. /\ o = [kind |-> kind, from |-> h, ofSession |-> ofSession, whole |-> TRUE,
              content |-> content, bytes |-> ToBytes(tlv)]
  BY Zenon DEF Object
<1> HIDE DEF o
<1>2. /\ o.kind = kind /\ o.whole = TRUE /\ o.content = content /\ o.bytes = ToBytes(tlv)
      /\ o = [kind |-> o.kind, from |-> o.from, ofSession |-> o.ofSession, whole |-> o.whole,
              content |-> o.content, bytes |-> o.bytes]
  BY <1>1
<1>3. OnLink(o)
  BY <1>2, Zenon DEF OnLink
<1>4. QED
  BY <1>3 DEF o

\* The bytes of a whole object are many: it can end early once only.
LEMMA EarlyEnd ==
    ASSUME NEW o, OnLink(o), o.whole, NEW n \in Nat, n < Len(o.bytes)
    PROVE  OnLink([o EXCEPT !.bytes = SubSeq(@, 1, n), !.whole = FALSE, !.content = None])
<1> DEFINE e == [o EXCEPT !.bytes = SubSeq(@, 1, n), !.whole = FALSE, !.content = None]
<1>1. e = [kind |-> o.kind, from |-> o.from, ofSession |-> o.ofSession, whole |-> FALSE,
           content |-> None, bytes |-> SubSeq(o.bytes, 1, n)]
  <2>1. PICK k, f, s, w, c, y : o = [kind |-> k, from |-> f, ofSession |-> s, whole |-> w,
                                     content |-> c, bytes |-> y]
    BY DEF OnLink
  <2>2. PICK no : no = FALSE
    OBVIOUS
  <2> DEFINE bytes == SubSeq(o.bytes, 1, n)
             shorter == [o EXCEPT !.bytes = bytes]
             partial == [shorter EXCEPT !.whole = FALSE]
             unsaid == [partial EXCEPT !.content = None]
  <2>3. e = unsaid /\ o.bytes = y /\ o.kind = k /\ o.from = f /\ o.ofSession = s
    BY <2>1
  <2> HIDE DEF bytes
  <2>4. shorter = [kind |-> k, from |-> f, ofSession |-> s, whole |-> w, content |-> c, bytes |-> bytes]
    <3>1. shorter = [[kind |-> k, from |-> f, ofSession |-> s, whole |-> w, content |-> c, bytes |-> y]
                      EXCEPT !.bytes = bytes]
      BY <2>1, Zenon
    <3>2. QED
      BY <3>1
  <2> HIDE DEF shorter
  <2>5. partial = [kind |-> k, from |-> f, ofSession |-> s, whole |-> no, content |-> c, bytes |-> bytes]
    <3>1. partial = [[kind |-> k, from |-> f, ofSession |-> s, whole |-> w, content |-> c, bytes |-> bytes]
                      EXCEPT !.whole = no]
      BY <2>4, <2>2, Zenon
    <3>2. QED
      BY <3>1
  <2> HIDE DEF partial
  <2>6. unsaid = [kind |-> k, from |-> f, ofSession |-> s, whole |-> no, content |-> None, bytes |-> bytes]
    <3>1. unsaid = [[kind |-> k, from |-> f, ofSession |-> s, whole |-> no, content |-> c, bytes |-> bytes]
                      EXCEPT !.content = None]
      BY <2>5, Zenon
    <3>2. QED
      BY <3>1
  <2> HIDE DEF unsaid
  <2>7. QED
    BY <2>2, <2>3, <2>6, Zenon DEF bytes
<1> HIDE DEF e
<1>2. /\ e.kind = o.kind /\ e.whole = FALSE /\ e.bytes = SubSeq(o.bytes, 1, n)
      /\ e = [kind |-> e.kind, from |-> e.from, ofSession |-> e.ofSession, whole |-> e.whole,
              content |-> e.content, bytes |-> e.bytes]
  BY <1>1
<1>3. PICK content, tlv : StandsFor(o.kind, content, tlv) /\ o.bytes = ToBytes(tlv)
  BY Zenon DEF OnLink
<1>4. n < Len(ToBytes(tlv)) /\ e.bytes = SubSeq(ToBytes(tlv), 1, n)
  BY <1>2, <1>3
<1>5. OnLink(e)
  BY <1>2, <1>3, <1>4, Zenon DEF OnLink
<1>6. QED
  BY <1>5 DEF e

\* What the receiver makes of it.
OutcomesOf(o, b) ==
    CASE ~Parse(o.bytes).succeeded -> {}
      [] Parse(o.bytes).succeeded /\ o.kind = "SessionData" ->
            FromSessionDataObject(Parse(o.bytes).tlv, b)
      [] Parse(o.bytes).succeeded /\ o.kind = "Capability" -> FromOobDataObject(Parse(o.bytes).tlv)

LEMMA PartIsRefused ==
    ASSUME NEW o, OnLink(o), ~o.whole, NEW b
    PROVE  OutcomesOf(o, b) = {}
<1>1. PICK content, tlv : /\ StandsFor(o.kind, content, tlv)
                          /\ \E n \in Nat : n < Len(ToBytes(tlv)) /\ o.bytes = SubSeq(ToBytes(tlv), 1, n)
  BY Zenon DEF OnLink
<1>2. PICK n \in Nat : n < Len(ToBytes(tlv)) /\ o.bytes = SubSeq(ToBytes(tlv), 1, n)
  BY <1>1
<1>3. Len(ToBytes(tlv)) \in Nat
  BY <1>1, ObjectIsTree, TreeLength
<1>4. n \in 0 .. Len(ToBytes(tlv)) - 1
  BY <1>2, <1>3
<1>5. Parse(o.bytes) = Failed
  BY <1>1, <1>2, <1>4, ObjectIsTree, ObjectsReturn
<1>6. ~Parse(o.bytes).succeeded
  BY <1>5 DEF Failed
<1>7. QED
  BY <1>6, Zenon DEF OutcomesOf

\* What is certain of what the receiver makes of a whole object.
Arrives(kind, got, sent, first) ==
    /\ kind = "Capability" => got = sent
    /\ kind = "SessionData" =>
         [got EXCEPT !.ConfigurationParameters = Plain(@, first)]
           = [sent EXCEPT !.ConfigurationParameters = Plain(@, first)]

LEMMA WholeIsAccepted ==
    ASSUME NEW o, OnLink(o), o.whole, NEW b \in BOOLEAN
    PROVE  /\ OutcomesOf(o, b) # {}
           /\ \A got \in OutcomesOf(o, b) : Arrives(o.kind, got, o.content, ~b)
<1>1. PICK tlv : StandsFor(o.kind, o.content, tlv) /\ o.bytes = ToBytes(tlv)
  BY Zenon DEF OnLink
<1>2. Parse(o.bytes) = Succeeded(Len(o.bytes), tlv)
  BY <1>1, ObjectIsTree, ObjectsReturn, Zenon
<1>3. Parse(o.bytes).succeeded /\ Parse(o.bytes).tlv = tlv
  BY <1>2 DEF Succeeded
<1>4. CASE o.kind = "SessionData" /\ IsSessionData(o.content, Int) /\ tlv = ToSessionDataObject(o.content)
  <2>1. o.kind # "Capability"
    BY <1>4
  <2>2. OutcomesOf(o, b) = FromSessionDataObject(tlv, b)
    BY <1>3, <1>4, <2>1, Zenon DEF OutcomesOf
  <2>3. /\ OutcomesOf(o, b) # {}
        /\ \A r \in OutcomesOf(o, b) : PlainData(r, ~b) = PlainData(o.content, ~b)
    <3> DEFINE outcomes == FromSessionDataObject(ToSessionDataObject(o.content), b)
    <3>1. outcomes # {} /\ \A r \in outcomes : PlainData(r, ~b) = PlainData(o.content, ~b)
      BY <1>4, SessionDataReturns
    <3>2. OutcomesOf(o, b) = outcomes
      BY <1>4, <2>2
    <3> HIDE DEF outcomes
    <3>3. QED
      BY <3>1, <3>2
  <2>4. QED
    BY <2>1, <2>3, Zenon DEF Arrives, PlainData
<1>5. CASE o.kind = "Capability" /\ IsCapability(o.content) /\ tlv = ToOobDataObject(o.content)
  <2>1. o.kind # "SessionData"
    BY <1>5
  <2>2. OutcomesOf(o, b) = FromOobDataObject(tlv)
    BY <1>3, <1>5, <2>1, Zenon DEF OutcomesOf
  <2>3. OutcomesOf(o, b) = {o.content}
    BY <1>5, <2>2, CapabilityReturns, Zenon
  <2>4. QED
    BY <2>1, <2>3, Zenon DEF Arrives
<1>6. QED
  BY <1>1, <1>4, <1>5 DEF StandsFor

-----------------------------------------------------------------------------
(* What a list of parameters becomes on its way, whatever is in it.        *)

LEMMA TypeIsRead ==
    ASSUME NEW p, Writable(p), NEW param, Reads(param, p)
    PROVE  ToParameter(param).Type = p.Type
<1>1. ToUwbParameterType(param.paramType) = p.Type
  BY ParameterTypeReturns DEF Reads, Writable
<1>2. \E v : ToParameter(param) = Parameter(p.Type, v)
  BY <1>1, ToParameterIs
<1>3. QED
  BY <1>2 DEF Parameter

\* The mode that the destination addresses are read with.
ModeOf(parameters, mode) ==
    \/ mode = UwbMacAddressType.Short
       /\ \A k \in DOMAIN parameters : parameters[k].Type # "MacAddressMode"
    \/ \E k \in DOMAIN parameters :
         parameters[k].Type = "MacAddressMode" /\ (Typed(parameters[k]) => mode = parameters[k].Value)

\* One that is kept, and the last destination addresses.
Keeps(q, keepsMode) == q.Type # "MacAddressMode" \/ keepsMode
SameAs(p, q) ==
    /\ p.Type = q.Type
    /\ q.Type # "DestinationMacAddresses" /\ Typed(q) => p = q

ComesOf(p, q, mode, keepsMode) ==
    /\ Keeps(q, keepsMode) /\ SameAs(p, q)
    /\ q.Type = "DestinationMacAddresses" =>
         \E param : Reads(param, q) /\ p = ToDestinationAddresses(CopyOf(param), mode)

\* Some parameters of a list, as they are read at the places of those to keep.
AtPlaces(parameters, keep, o, some) ==
    /\ Len(o) \in Nat /\ DOMAIN some = 1 .. Len(o) /\ Len(some) = Len(o)
    /\ \A j \in 1 .. Len(o) :
         /\ o[j] \in 1 .. Len(parameters) /\ keep[o[j]]
         /\ Reads(some[j], parameters[o[j]]) /\ Writable(parameters[o[j]])
    /\ \A i \in 1 .. Len(parameters) : keep[i] => \E j \in 1 .. Len(o) : o[j] = i

LEMMA PlacesOfTest ==
    ASSUME NEW parameters, AllWritable(parameters), NEW keep, NEW o, o = Places(Len(parameters), keep)
    PROVE  AtPlaces(parameters, keep, o,
                    Chosen(ParamsIn(ArrayOfParameters(parameters), Len(parameters)), o))
<1> DEFINE n == Len(parameters)
           params == ParamsIn(ArrayOfParameters(parameters), n)
           some == Chosen(params, o)
<1>1. n \in Nat /\ \A i \in 1 .. n : Writable(parameters[i])
  BY DEF AllWritable
<1>2. DOMAIN params = 1 .. n /\ \A i \in 1 .. n : Reads(params[i], parameters[i])
  BY ParamsInIs
<1> HIDE DEF n, params
<1>3. o \in Seq(1 .. n) /\ \A j \in 1 .. Len(o) : o[j] \in 1 .. n /\ keep[o[j]]
  BY <1>1, PlacesAre DEF n
<1>4. \A i \in 1 .. n : keep[i] => \E j \in 1 .. Len(o) : o[j] = i
  BY <1>1, PlacesCover DEF n
<1>5. Len(o) \in Nat
  BY <1>3, LenProperties
<1>6. DOMAIN some = 1 .. Len(o) /\ \A j \in 1 .. Len(o) : some[j] = params[o[j]]
  BY DEF Chosen
<1>7. Len(some) = Len(o)
  BY <1>5 DEF Chosen
<1> HIDE DEF some
<1>8. QED
  BY <1>1, <1>2, <1>3, <1>4, <1>5, <1>6, <1>7 DEF n, params, some, AtPlaces

LEMMA PassageIs ==
    ASSUME NEW parameters, AllWritable(parameters),
           NEW w, w.appConfigParams = ArrayOfParameters(parameters),
           w.appConfigParamsCount = Len(parameters), NEW keepsMode \in BOOLEAN
    PROVE  LET array == ToParameterArray(w, keepsMode) IN
           /\ IsList(array)
           /\ \E mode : ModeOf(parameters, mode)
                /\ \A i \in DOMAIN array : \E q \in DOMAIN parameters :
                     ComesOf(array[i], parameters[q], mode, keepsMode)
           /\ \A q \in DOMAIN parameters : Keeps(parameters[q], keepsMode) =>
                \E i \in DOMAIN array : SameAs(array[i], parameters[q])
<1> DEFINE params == ParamsIn(ArrayOfParameters(parameters), Len(parameters))
           n == Len(parameters)
           o == OtherPlaces(parameters, keepsMode)
           d == PlacesOf(parameters, "DestinationMacAddresses")
           m == PlacesOf(parameters, "MacAddressMode")
           others == Chosen(params, o)
           destinations == Chosen(params, d)
           modes == Chosen(params, m)
           kept == [i \in DOMAIN others |-> ToParameter(others[i])]
           last == Last(destinations)
           mode == IF modes = << >> THEN UwbMacAddressType.Short ELSE ToParameter(Last(modes)).Value
           x == ToDestinationAddresses(CopyOf(last), mode)
           rest == IF destinations = << >> THEN << >> ELSE <<x>>
           array == ToParameterArray(w, keepsMode)
           otherTest == [i \in 1 .. n |->
               parameters[i].Type \notin (IF keepsMode THEN {} ELSE {"MacAddressMode"})
                                         \cup {"DestinationMacAddresses"}]
           destinationTest == [i \in 1 .. n |-> parameters[i].Type = "DestinationMacAddresses"]
           modeTest == [i \in 1 .. n |-> parameters[i].Type = "MacAddressMode"]
<1>1. array = kept \o rest
  BY ArrayIsRead
<1>2. n \in Nat /\ DOMAIN parameters = 1 .. n
  BY DEF AllWritable
<1>3. o = Places(n, otherTest) /\ d = Places(n, destinationTest) /\ m = Places(n, modeTest)
  BY Zenon DEF OtherPlaces, PlacesOf
<1>4. \A i \in 1 .. n : otherTest[i] <=>
        parameters[i].Type # "DestinationMacAddresses" /\ Keeps(parameters[i], keepsMode)
  BY DEF Keeps
<1>5. /\ \A i \in 1 .. n : destinationTest[i] <=> parameters[i].Type = "DestinationMacAddresses"
      /\ \A i \in 1 .. n : modeTest[i] <=> parameters[i].Type = "MacAddressMode"
  OBVIOUS
<1> HIDE DEF otherTest, destinationTest, modeTest, o, d, m
<1>6. /\ Len(o) \in Nat /\ DOMAIN others = 1 .. Len(o) /\ Len(others) = Len(o)
      /\ \A j \in 1 .. Len(o) :
           /\ o[j] \in 1 .. n /\ parameters[o[j]].Type # "DestinationMacAddresses"
           /\ Keeps(parameters[o[j]], keepsMode)
           /\ Reads(others[j], parameters[o[j]]) /\ Writable(parameters[o[j]])
      /\ \A i \in 1 .. n : parameters[i].Type # "DestinationMacAddresses" /\ Keeps(parameters[i], keepsMode) => \E j \in 1 .. Len(o) : o[j] = i
  <2>1. AtPlaces(parameters, otherTest, o, others)
    BY <1>3, PlacesOfTest
  <2> HIDE DEF params, others
  <2>2. QED
    BY <2>1, <1>4 DEF AtPlaces
<1>7. /\ Len(d) \in Nat /\ DOMAIN destinations = 1 .. Len(d) /\ Len(destinations) = Len(d)
      /\ \A j \in 1 .. Len(d) :
           /\ d[j] \in 1 .. n /\ parameters[d[j]].Type = "DestinationMacAddresses"
           /\ Reads(destinations[j], parameters[d[j]]) /\ Writable(parameters[d[j]])
      /\ \A i \in 1 .. n : parameters[i].Type = "DestinationMacAddresses" => \E j \in 1 .. Len(d) : d[j] = i
  <2>1. AtPlaces(parameters, destinationTest, d, destinations)
    BY <1>3, PlacesOfTest
  <2> HIDE DEF params, destinations
  <2>2. QED
    BY <2>1, <1>5 DEF AtPlaces
<1>8. /\ Len(m) \in Nat /\ DOMAIN modes = 1 .. Len(m) /\ Len(modes) = Len(m)
      /\ \A j \in 1 .. Len(m) :
           /\ m[j] \in 1 .. n /\ parameters[m[j]].Type = "MacAddressMode"
           /\ Reads(modes[j], parameters[m[j]]) /\ Writable(parameters[m[j]])
      /\ \A i \in 1 .. n : parameters[i].Type = "MacAddressMode" => \E j \in 1 .. Len(m) : m[j] = i
  <2>1. AtPlaces(parameters, modeTest, m, modes)
    BY <1>3, PlacesOfTest
  <2> HIDE DEF params, modes
  <2>2. QED
    BY <2>1, <1>5 DEF AtPlaces
<1>9. destinations = << >> <=> Len(d) = 0
  BY <1>7 DEF Chosen
<1>10. modes = << >> <=> Len(m) = 0
  BY <1>8 DEF Chosen
<1> HIDE DEF n, params, others, destinations, modes
<1>11. ModeOf(parameters, mode)
  <2>1. CASE Len(m) = 0
    <3>1. mode = UwbMacAddressType.Short
      BY <1>10, <2>1, Zenon
    <3>2. \A k \in DOMAIN parameters : parameters[k].Type # "MacAddressMode"
      BY <1>2, <1>8, <2>1
    <3>3. QED
      BY <3>1, <3>2, Zenon DEF ModeOf
  <2>2. CASE Len(m) # 0
    <3> DEFINE k == m[Len(m)]
    <3>1. Len(m) \in 1 .. Len(m)
      BY <1>8, <2>2
    <3>2. Last(modes) = modes[Len(m)]
      BY <1>8 DEF Last
    <3>3. mode = ToParameter(modes[Len(m)]).Value
      BY <1>10, <2>2, <3>2, Zenon
    <3>4. /\ k \in DOMAIN parameters /\ parameters[k].Type = "MacAddressMode"
          /\ Reads(modes[Len(m)], parameters[k]) /\ Writable(parameters[k])
      BY <1>2, <1>8, <3>1
    <3> HIDE DEF k, mode
    <3>5. ASSUME Typed(parameters[k]) PROVE mode = parameters[k].Value
      <4>1. parameters[k].Alternative # "addresses"
        BY <3>4, <3>5, KindIs
      <4>2. ToParameter(modes[Len(m)]) = parameters[k]
        BY <3>4, <3>5, <4>1, ValueReturns
      <4>3. QED
        BY <3>3, <4>2
    <3>6. QED
      BY <3>4, <3>5, Zenon DEF ModeOf
  <2>3. QED
    BY <2>1, <2>2
<1>12. ASSUME NEW j \in 1 .. Len(o) PROVE SameAs(kept[j], parameters[o[j]])
  <2> DEFINE p == parameters[o[j]]
  <2>1. kept[j] = ToParameter(others[j])
    BY <1>6
  <2>2. Writable(p) /\ Reads(others[j], p) /\ p.Type # "DestinationMacAddresses"
    BY <1>6
  <2> HIDE DEF p, kept
  <2>3. kept[j].Type = p.Type
    BY <2>1, <2>2, TypeIsRead
  <2>4. ASSUME Typed(p) PROVE kept[j] = p
    BY <2>1, <2>2, <2>4, KindIs, ValueReturns
  <2>5. QED
    BY <2>3, <2>4 DEF SameAs, p
<1>13. DOMAIN kept = 1 .. Len(o)
  BY <1>6
<1>14. x.Type = "DestinationMacAddresses"
  BY DEF ToDestinationAddresses, Parameter
<1>15. kept = [j \in 1 .. Len(o) |-> kept[j]]
  BY <1>13
<1> HIDE DEF kept, mode, x, array
<1>16. CASE Len(d) = 0
  <2>1. rest = << >>
    BY <1>9, <1>16
  <2>2. array = kept
    <3>1. kept \in Seq({kept[j] : j \in 1 .. Len(o)})
      BY <1>6, <1>15, BytesOfLength
    <3>2. QED
      BY <1>1, <2>1, <3>1
  <2>3. DOMAIN array = 1 .. Len(o) /\ Len(array) = Len(o)
    BY <1>6, <1>15, <2>2
  <2>4. IsList(array)
    BY <1>6, <2>3 DEF IsList
  <2>5. ASSUME NEW i \in DOMAIN array
        PROVE  \E q \in DOMAIN parameters : ComesOf(array[i], parameters[q], mode, keepsMode)
    <3>1. i \in 1 .. Len(o)
      BY <2>3
    <3>2. SameAs(array[i], parameters[o[i]]) /\ o[i] \in DOMAIN parameters
          /\ parameters[o[i]].Type # "DestinationMacAddresses" /\ Keeps(parameters[o[i]], keepsMode)
      BY <1>2, <1>6, <1>12, <2>2, <3>1
    <3>3. QED
      BY <3>2, Zenon DEF ComesOf
  <2>6. ASSUME NEW q \in DOMAIN parameters, Keeps(parameters[q], keepsMode)
        PROVE  \E i \in DOMAIN array : SameAs(array[i], parameters[q])
    <3>1. parameters[q].Type # "DestinationMacAddresses"
      BY <1>2, <1>7, <1>16
    <3>2. PICK j \in 1 .. Len(o) : o[j] = q
      BY <1>2, <1>6, <2>6, <3>1
    <3>3. QED
      BY <1>12, <2>2, <2>3, <3>2
  <2>7. QED
    BY <1>11, <2>4, <2>5, <2>6 DEF array
<1>17. CASE Len(d) # 0
  <2>1. rest = <<x>>
    BY <1>9, <1>17
  <2> DEFINE l == Len(o)
  <2>2. Len(array) = l + 1 /\ DOMAIN array = 1 .. l + 1 /\ array[l + 1] = x
        /\ \A j \in 1 .. l : array[j] = kept[j]
    <3> DEFINE S == {kept[j] : j \in 1 .. l} \cup {x}
    <3>1. kept \in Seq(S) /\ Len(kept) = l
      <4>1. \A j \in 1 .. l : kept[j] \in S
        OBVIOUS
      <4> HIDE DEF S
      <4>2. kept \in [1 .. l -> S]
        BY <1>15, <4>1
      <4>3. QED
        BY <1>6, <4>2, BytesOfLength
    <3>2. <<x>> \in Seq(S)
      <4>1. x \in S
        OBVIOUS
      <4> HIDE DEF S
      <4>2. QED
        BY <4>1
    <3> HIDE DEF S
    <3>3. array = kept \o <<x>>
      BY <1>1, <2>1
    <3> HIDE DEF x
    <3>4. Len(<<x>>) = 1 /\ <<x>>[1] = x
      OBVIOUS
    <3>5. Len(array) = l + 1 /\ l \in Nat
      BY <1>6, <3>1, <3>2, <3>3, <3>4, ConcatProperties
    <3>6. DOMAIN array = 1 .. l + 1
      BY <3>1, <3>2, <3>3, <3>5, ConcatProperties, LenProperties
    <3>7. array[l + 1] = x
      BY <3>1, <3>2, <3>3, <3>4, <3>5, ConcatProperties
    <3>8. \A j \in 1 .. l : array[j] = kept[j]
      BY <3>1, <3>2, <3>3, <3>4, <3>5, ConcatProperties
    <3>9. QED
      BY <3>5, <3>6, <3>7, <3>8
  <2>3. l \in Nat /\ IsList(array)
    BY <1>6, <2>2 DEF IsList
  <2> DEFINE k == d[Len(d)]
  <2>4. /\ k \in DOMAIN parameters /\ parameters[k].Type = "DestinationMacAddresses"
        /\ Reads(last, parameters[k])
    <3>1. Len(d) \in 1 .. Len(d)
      BY <1>7, <1>17
    <3>2. last = destinations[Len(d)]
      BY <1>7 DEF Last
    <3>3. QED
      BY <1>2, <1>7, <3>1, <3>2
  <2> HIDE DEF k, last, l
  <2>5. ComesOf(x, parameters[k], mode, keepsMode)
    <3>1. Keeps(parameters[k], keepsMode)
      BY <2>4 DEF Keeps
    <3>2. QED
      BY <1>14, <2>4, <3>1 DEF ComesOf, SameAs, x
  <2>6. ASSUME NEW i \in DOMAIN array
        PROVE  \E q \in DOMAIN parameters : ComesOf(array[i], parameters[q], mode, keepsMode)
    <3>1. CASE i = l + 1
      BY <2>2, <2>4, <2>5, <3>1
    <3>2. CASE i \in 1 .. l
      <4>1. SameAs(array[i], parameters[o[i]]) /\ o[i] \in DOMAIN parameters
            /\ parameters[o[i]].Type # "DestinationMacAddresses" /\ Keeps(parameters[o[i]], keepsMode)
        BY <1>2, <1>6, <1>12, <2>2, <3>2 DEF l
      <4>2. QED
        BY <4>1, Zenon DEF ComesOf
    <3>3. QED
      BY <2>2, <2>3, <3>1, <3>2
  <2>7. ASSUME NEW q \in DOMAIN parameters, Keeps(parameters[q], keepsMode)
        PROVE  \E i \in DOMAIN array : SameAs(array[i], parameters[q])
    <3>1. CASE parameters[q].Type = "DestinationMacAddresses"
      <4>1. SameAs(array[l + 1], parameters[q])
        BY <1>14, <2>2, <3>1 DEF SameAs
      <4>2. l + 1 \in DOMAIN array
        BY <2>2, <2>3
      <4>3. QED
        BY <4>1, <4>2
    <3>2. CASE parameters[q].Type # "DestinationMacAddresses"
      <4>1. PICK j \in 1 .. Len(o) : o[j] = q
        BY <1>2, <1>6, <2>7, <3>2
      <4>2. j \in DOMAIN array /\ array[j] = kept[j]
        BY <1>6, <2>2 DEF l
      <4>3. QED
        BY <1>12, <4>1, <4>2
    <3>3. QED
      BY <3>1, <3>2
  <2>8. QED
    BY <1>11, <2>3, <2>6, <2>7 DEF array
<1>18. QED
  BY <1>16, <1>17

-----------------------------------------------------------------------------
(* The parameters of a driver by type, and in the order of their types.    *)

LEMMA ByTypeIs ==
    ASSUME NEW s, IsList(s)
    PROVE  /\ DOMAIN ByType(s) = {s[i].Type : i \in DOMAIN s}
           /\ \A t \in DOMAIN ByType(s) : \E i \in DOMAIN s : s[i].Type = t /\ ByType(s)[t] = s[i]
<1> DEFINE types == {s[i].Type : i \in DOMAIN s}
           last(t) == CHOOSE i \in DOMAIN s :
                        s[i].Type = t /\ \A j \in DOMAIN s : s[j].Type = t => j <= i
<1>1. ByType(s) = [t \in types |-> s[last(t)]]
  BY DEF ByType
<1>2. ASSUME NEW t \in types PROVE last(t) \in DOMAIN s /\ s[last(t)].Type = t
  <2> DEFINE S == {i \in DOMAIN s : s[i].Type = t}
  <2>1. S \in SUBSET (0 .. Len(s)) /\ S # {}
    BY DEF IsList
  <2>2. Max(S) \in S /\ \A y \in S : y <= Max(S)
    <3> HIDE DEF S
    <3> QED
      BY <2>1, MaxIs DEF IsList
  <2>3. \E i \in DOMAIN s : s[i].Type = t /\ \A j \in DOMAIN s : s[j].Type = t => j <= i
    BY <2>2
  <2>4. QED
    BY <2>3
<1> HIDE DEF last
<1>3. DOMAIN ByType(s) = types /\ \A t \in types : ByType(s)[t] = s[last(t)]
  BY <1>1
<1> HIDE DEF types
<1>4. \A t \in DOMAIN ByType(s) : \E i \in DOMAIN s : s[i].Type = t /\ ByType(s)[t] = s[i]
  BY <1>2, <1>3
<1>5. QED
  BY <1>3, <1>4 DEF types

LEMMA InTypeOrderHas ==
    ASSUME NEW byType, DOMAIN byType \subseteq ParameterType
    PROVE  \A t \in DOMAIN byType : \E i \in DOMAIN InTypeOrder(byType) : InTypeOrder(byType)[i] = byType[t]
<1> DEFINE e == UwbApplicationConfigurationParameterType
           o == InOrder(DOMAIN byType, e)
<1>1. Numbered(e, 0, 255) /\ DOMAIN e # {} /\ DOMAIN byType \in SUBSET (DOMAIN e)
  <2>1. Numbered(e, 0, 53) /\ DOMAIN e # {}
    BY ParameterTypeNumbers
  <2>2. DOMAIN byType \in SUBSET (DOMAIN e)
    BY DEF ParameterType
  <2> HIDE DEF e
  <2>3. QED
    BY <2>1, <2>2 DEF Numbered
<1>2. InTypeOrder(byType) = [i \in DOMAIN o |-> byType[o[i]]]
  BY DEF InTypeOrder
<1> HIDE DEF e
<1>3. DOMAIN o = 1 .. Len(o) /\ \A n \in DOMAIN byType : \E j \in 1 .. Len(o) : o[j] = n
  BY <1>1, InOrderIs
<1> HIDE DEF o
<1>4. QED
  BY <1>2, <1>3

-----------------------------------------------------------------------------
(* Destination addresses, whatever they are read as.                       *)

LengthOf(mode) ==
    IF mode = UwbMacAddressType.Short THEN UwbMacAddressLength.Short ELSE UwbMacAddressLength.Extended

Destinations(p, length) ==
    /\ p = Parameter("DestinationMacAddresses", p.Value)
    /\ IsFiniteSet(p.Value) /\ p.Value # {} /\ p.Value \subseteq [1 .. length -> Int]
    /\ Writable(p)

LEMMA Lengths == \A mode : LengthOf(mode) \in {2, 8}
<1>1. UwbMacAddressLength.Short = 2 /\ UwbMacAddressLength.Extended = 8
  BY DEF UwbMacAddressLength
<1>2. QED
  BY <1>1 DEF LengthOf

LEMMA FewerBytes ==
    ASSUME NEW x \in Nat, NEW y, WithinBytes(y, 4), x <= y
    PROVE  WithinBytes(x, 4)
<1>1. y \in Nat /\ y \div 65536 < 65536
  BY DEF WithinBytes
<1>2. x \div 65536 < 65536
  BY <1>1
<1>3. QED
  BY <1>2 DEF WithinBytes

\* The bytes of addresses of one length.
LEMMA SameLengths ==
    ASSUME NEW length \in {2, 8}, NEW S, IsFiniteSet(S), S \subseteq [1 .. length -> Int]
    PROVE  LET bytes == FlattenSeq(SetToSeq(S)) IN
           bytes \in Seq(Int) /\ Len(bytes) = Cardinality(S) * length
<1> DEFINE n == Cardinality(S)
           f == SetToSeq(S)
           lengths == [i \in 1 .. n |-> Len(f[i])]
           e == EndsOf(n, lengths)
<1>1. \A a \in S : a \in Seq(Int) /\ Len(a) = length
  BY BytesOfLength
<1>2. FlattenSeq(f) \in Seq(Int) /\ Len(FlattenSeq(f)) = e[n]
  BY <1>1, AddressesAre
<1>3. n \in Nat /\ f \in [1 .. n -> S]
  BY SetToSeqIs
<1> HIDE DEF n, f
<1>4. \A i \in 1 .. n : lengths[i] = length
  BY <1>1, <1>3
<1>5. lengths \in [1 .. n -> Nat]
  BY <1>1, <1>3
<1> HIDE DEF lengths
<1> DEFINE g == [i \in 0 .. n |-> i * length]
<1>6. g[0] = 0 /\ \A i \in 1 .. n : g[i] = g[i - 1] + lengths[i]
  <2>1. CASE length = 2
    BY <1>3, <1>4, <2>1
  <2>2. CASE length = 8
    BY <1>3, <1>4, <2>2
  <2>3. QED
    BY <2>1, <2>2
<1>7. g[n] = n * length
  BY <1>3
<1> HIDE DEF g
<1>8. \A i \in 0 .. n : g[i] = e[i]
  BY <1>3, <1>5, <1>6, EndsOfUnique
<1> HIDE DEF e
<1>9. Len(FlattenSeq(f)) = n * length
  BY <1>2, <1>3, <1>7, <1>8
<1>10. QED
  BY <1>2, <1>9 DEF n, f

LEMMA DestinationsRead ==
    ASSUME NEW q, Writable(q), NEW param, Reads(param, q), NEW mode,
           LengthOf(mode) <= Len(ParamValue(q))
    PROVE  Destinations(ToDestinationAddresses(CopyOf(param), mode), LengthOf(mode))
<1> DEFINE copy == CopyOf(param)
           length == LengthOf(mode)
           n == copy.paramLength \div length
           a == [i \in 1 .. n |-> Read(copy.paramValue, (i - 1) * length, length)]
           S == {a[i] : i \in 1 .. n}
           T == {Read(copy.paramValue, (i - 1) * length, length) : i \in 1 .. n}
           p == ToDestinationAddresses(copy, mode)
<1>1. length \in {2, 8}
  BY Lengths
<1>2. p = Parameter("DestinationMacAddresses", T)
  BY Zenon DEF ToDestinationAddresses, LengthOf
<1>3. S = T
  OBVIOUS
<1>4. copy.paramLength = Len(ParamValue(q)) /\ copy.paramValue = Read(param.paramValue, 0, SizeOf(UWB_APP_CONFIG_PARAM) - ParamHeader)
  BY DEF CopyOf, Reads
<1>5. copy.paramValue \in Seq(Int)
  <2>1. SizeOf(UWB_APP_CONFIG_PARAM) - ParamHeader = 4
    BY ParameterSize, HeaderIs
  <2>2. Read(param.paramValue, 0, 4) \in [1 .. 4 -> Int]
    BY ReadTyped DEF Reads
  <2>3. copy.paramValue \in [1 .. 4 -> Int]
    BY <1>4, <2>1, <2>2
  <2> HIDE DEF copy
  <2>4. QED
    BY <2>3, BytesOfLength
<1>6. PICK l \in Nat : l = Len(ParamValue(q)) /\ length <= l
  BY HeaderFits DEF WithinBytes
<1> HIDE DEF copy, length, p
<1>7. n \in Nat /\ 1 <= n /\ n * length <= l
  <2>1. CASE length = 2
    BY <1>4, <1>6, <2>1
  <2>2. CASE length = 8
    BY <1>4, <1>6, <2>2
  <2>3. QED
    BY <1>1, <2>1, <2>2
<1> HIDE DEF n
<1>8. a \in [1 .. n -> [1 .. length -> Int]]
  <2>1. \A i \in 1 .. n : (i - 1) * length \in Nat /\ length \in Nat
    <3>1. CASE length = 2
      BY <1>7, <3>1
    <3>2. CASE length = 8
      BY <1>7, <3>2
    <3>3. QED
      BY <1>1, <3>1, <3>2
  <2>2. \A i \in 1 .. n : Read(copy.paramValue, (i - 1) * length, length) \in [1 .. length -> Int]
    BY <1>5, <2>1, ReadTyped
  <2>3. QED
    BY <2>2
<1> HIDE DEF a
<1>9. S # {} /\ S \subseteq [1 .. length -> Int]
  BY <1>7, <1>8
<1>10. IsFiniteSet(S) /\ Cardinality(S) <= n
  <2>1. IsFiniteSet(1 .. n) /\ Cardinality(1 .. n) = n
    BY <1>7, FS_Interval
  <2>2. a \in Surjection(1 .. n, S)
    BY <1>8 DEF Surjection, S
  <2>3. QED
    BY <2>1, <2>2, FS_Surjection
<1> HIDE DEF S
<1>11. Cardinality(S) \in Nat
  BY <1>10, FS_CardinalityType
<1>12. FlattenSeq(SetToSeq(S)) \in Seq(Int) /\ Len(FlattenSeq(SetToSeq(S))) = Cardinality(S) * length
  BY <1>1, <1>9, <1>10, SameLengths
<1>13. Cardinality(S) * length <= l /\ Cardinality(S) * length \in Nat
  <2>1. CASE length = 2
    BY <1>6, <1>7, <1>10, <1>11, <2>1
  <2>2. CASE length = 8
    BY <1>6, <1>7, <1>10, <1>11, <2>2
  <2>3. QED
    BY <1>1, <2>1, <2>2
<1>14. p = Parameter("DestinationMacAddresses", S) /\ p.Value = S
       /\ p.Type = "DestinationMacAddresses"
  BY <1>2, <1>3 DEF Parameter
<1>15. p.Alternative = "addresses"
  BY <1>14, ParameterTypeNumbers DEF Parameter, UwbApplicationConfigurationParameterValue, ParameterType
<1>16. ParamValue(p) = FlattenSeq(SetToSeq(S))
  BY <1>14, <1>15, ParamValueIs
<1>17. WithinBytes(12 + Len(ParamValue(p)), 4)
  <2>1. WithinBytes(12 + l, 4)
    BY <1>6 DEF Writable
  <2>2. Len(ParamValue(p)) \in Nat /\ Len(ParamValue(p)) <= l
    BY <1>12, <1>13, <1>16
  <2>3. QED
    BY <2>1, <2>2, FewerBytes
<1>18. Writable(p)
  BY <1>12, <1>14, <1>16, <1>17, ParameterTypeNumbers DEF Writable, ParameterType
<1>19. QED
  BY <1>9, <1>10, <1>14, <1>18 DEF Destinations, p, copy, length

-----------------------------------------------------------------------------
(* What a driver has of a configured session.                              *)

RequiredTypes == {"DeviceType", "DeviceMacAddress", "DestinationMacAddresses"}
\* A parameter of its type, with an enumerator if it is an enumeration's.
Proper(p) ==
    Typed(p) /\ (p.Alternative = "enum" => p.Value \in Range(ParameterEnumeration[p.Type]))

\* Parameters that can be sent for a session, if the destination addresses have enough
\* bytes for one of the length that they are read with.
Ready(parameters) ==
    /\ AllWritable(parameters)
    /\ \A i \in DOMAIN parameters :
         parameters[i].Type # "DestinationMacAddresses" => Proper(parameters[i])
    /\ \A t \in RequiredTypes : \E i \in DOMAIN parameters : parameters[i].Type = t
    /\ \A mode : ModeOf(parameters, mode) => \A i \in DOMAIN parameters :
         parameters[i].Type = "DestinationMacAddresses" =>
            LengthOf(mode) <= Len(ParamValue(parameters[i]))

KeptTypes(parameters, keepsMode) ==
    {parameters[i].Type : i \in {j \in DOMAIN parameters : Keeps(parameters[j], keepsMode)}}

\* What the driver has after a passage.
PassageKeeps(r, parameters) ==
    /\ \A t \in DOMAIN r \ {"DestinationMacAddresses"} :
         \E i \in DOMAIN parameters : parameters[i].Type = t /\ r[t] = parameters[i]
    /\ \E mode : ModeOf(parameters, mode)
         /\ Destinations(r["DestinationMacAddresses"], LengthOf(mode))

LEMMA Passage ==
    ASSUME NEW parameters, Ready(parameters),
           NEW w, w.appConfigParams = ArrayOfParameters(parameters),
           w.appConfigParamsCount = Len(parameters), NEW keepsMode \in BOOLEAN
    PROVE  LET r == ByType(ToParameterArray(w, keepsMode)) IN
           DOMAIN r = KeptTypes(parameters, keepsMode) /\ PassageKeeps(r, parameters)
<1> DEFINE array == ToParameterArray(w, keepsMode)
           r == ByType(array)
<1>1. AllWritable(parameters)
  BY DEF Ready
<1>2. IsList(array)
  BY <1>1, PassageIs
<1>3. PICK mode : /\ ModeOf(parameters, mode)
                  /\ \A i \in DOMAIN array : \E q \in DOMAIN parameters :
                       ComesOf(array[i], parameters[q], mode, keepsMode)
  BY <1>1, PassageIs
<1>4. \A q \in DOMAIN parameters : Keeps(parameters[q], keepsMode) =>
        \E i \in DOMAIN array : SameAs(array[i], parameters[q])
  BY <1>1, PassageIs
<1> HIDE DEF array
<1>5. /\ DOMAIN r = {array[i].Type : i \in DOMAIN array}
      /\ \A t \in DOMAIN r : \E i \in DOMAIN array : array[i].Type = t /\ r[t] = array[i]
  BY <1>2, ByTypeIs
<1> HIDE DEF r
<1>6. \A t \in DOMAIN r : \E q \in DOMAIN parameters :
        parameters[q].Type = t /\ ComesOf(r[t], parameters[q], mode, keepsMode)
  BY <1>3, <1>5 DEF ComesOf, SameAs
<1>7. DOMAIN r = KeptTypes(parameters, keepsMode)
  <2>1. DOMAIN r \subseteq KeptTypes(parameters, keepsMode)
    BY <1>6 DEF KeptTypes, ComesOf
  <2>2. ASSUME NEW q \in DOMAIN parameters, Keeps(parameters[q], keepsMode)
        PROVE  parameters[q].Type \in DOMAIN r
    BY <1>4, <1>5, <2>2 DEF SameAs
  <2>3. QED
    BY <2>1, <2>2 DEF KeptTypes
<1>8. ASSUME NEW t \in DOMAIN r \ {"DestinationMacAddresses"}
      PROVE  \E i \in DOMAIN parameters : parameters[i].Type = t /\ r[t] = parameters[i]
  <2>1. PICK q \in DOMAIN parameters :
               parameters[q].Type = t /\ ComesOf(r[t], parameters[q], mode, keepsMode)
    BY <1>6
  <2>2. Typed(parameters[q])
    BY <2>1 DEF Ready, Proper
  <2>3. r[t] = parameters[q]
    BY <2>1, <2>2 DEF ComesOf, SameAs
  <2>4. QED
    BY <2>1, <2>3
<1>9. Destinations(r["DestinationMacAddresses"], LengthOf(mode))
  <2> DEFINE t == "DestinationMacAddresses"
  <2>1. t \in DOMAIN r
    <3>1. PICK q \in DOMAIN parameters : parameters[q].Type = t
      BY DEF Ready, RequiredTypes
    <3>2. Keeps(parameters[q], keepsMode)
      BY <3>1 DEF Keeps
    <3>3. QED
      BY <1>7, <3>1, <3>2 DEF KeptTypes
  <2>2. PICK q \in DOMAIN parameters :
               parameters[q].Type = t /\ ComesOf(r[t], parameters[q], mode, keepsMode)
    BY <1>6, <2>1
  <2>3. PICK param : Reads(param, parameters[q])
                     /\ r[t] = ToDestinationAddresses(CopyOf(param), mode)
    BY <2>2 DEF ComesOf
  <2>4. Writable(parameters[q]) /\ LengthOf(mode) <= Len(ParamValue(parameters[q]))
    BY <1>1, <1>3, <2>2 DEF Ready, AllWritable
  <2>5. Destinations(ToDestinationAddresses(CopyOf(param), mode), LengthOf(mode))
    BY <2>3, <2>4, DestinationsRead
  <2>6. QED
    BY <2>3, <2>5
<1>10. PassageKeeps(r, parameters)
  BY <1>3, <1>8, <1>9 DEF PassageKeeps
<1>11. QED
  BY <1>7, <1>10 DEF r, array

-----------------------------------------------------------------------------
\* A set of sequences has at least as many elements as one of them.
LEMMA SomeBytes ==
    ASSUME NEW S, IsFiniteSet(S), \A a \in S : IsBytes(a), NEW a \in S
    PROVE  Len(a) <= Len(FlattenSeq(SetToSeq(S)))
<1> DEFINE n == Cardinality(S)
           f == SetToSeq(S)
<1>1. n \in Nat /\ f \in [1 .. n -> S] /\ \E i \in 1 .. n : f[i] = a
  BY SetToSeqIs
<1> HIDE DEF n, f
<1>2. f = [i \in 1 .. n |-> f[i]] /\ \A i \in 1 .. n : IsBytes(f[i])
  BY <1>1
<1>3. \A i \in 1 .. n : Len(f[i]) <= Len(FlattenSeq(f))
  BY <1>1, <1>2, BytesFlatten
<1>4. QED
  BY <1>1, <1>3 DEF f

LEMMA AddressesHave ==
    ASSUME NEW p, p.Alternative = "addresses", IsFiniteSet(p.Value), \A a \in p.Value : IsBytes(a),
           NEW a \in p.Value
    PROVE  Len(a) <= Len(ParamValue(p))
<1>1. ParamValue(p) = FlattenSeq(SetToSeq(p.Value))
  BY ParamValueIs
<1>2. QED
  BY <1>1, SomeBytes

\* What a driver has of a session.
Configured(byType) ==
    /\ DOMAIN byType \subseteq ParameterType \ {"MacAddressMode"}
    /\ RequiredTypes \subseteq DOMAIN byType
    /\ \A t \in DOMAIN byType \ {"DestinationMacAddresses"} :
         Proper(byType[t]) /\ byType[t].Type = t
    /\ \E length \in {2, 8} : Destinations(byType["DestinationMacAddresses"], length)

LEMMA SessionIsReady ==
    ASSUME NEW parameters, IsParameters(parameters), IsForSession(parameters)
    PROVE  Ready(parameters)
<1>1. AllWritable(parameters) /\ \A i \in DOMAIN parameters : Typed(parameters[i])
  BY ParametersAreValued DEF IsParameters
<1>2. \A i \in DOMAIN parameters : Proper(parameters[i])
  BY <1>1 DEF Proper, IsForSession
<1>3. \A t \in RequiredTypes : \E i \in DOMAIN parameters : parameters[i].Type = t
  BY DEF IsForSession, RequiredTypes
<1>4. ASSUME NEW mode, ModeOf(parameters, mode), NEW i \in DOMAIN parameters,
             parameters[i].Type = "DestinationMacAddresses"
      PROVE  LengthOf(mode) <= Len(ParamValue(parameters[i]))
  <2> DEFINE p == parameters[i]
  <2>1. Typed(p) /\ p.Alternative = "addresses"
    BY <1>1, <1>4, KindIs
  <2>2. IsFiniteSet(p.Value) /\ p.Value \subseteq Address
    BY <2>1 DEF Typed
  <2>3. \A a \in p.Value : IsBytes(a) /\ Len(a) \in {2, 8}
    BY <2>2, AddressIs, BytesAre
  <2>4. \A a \in p.Value : Len(a) <= Len(ParamValue(p))
    <3> HIDE DEF p
    <3> QED
      BY <2>1, <2>2, <2>3, AddressesHave
  <2>5. Len(ParamValue(p)) \in Nat
    BY <1>1, HeaderFits DEF AllWritable, WithinBytes
  <2>6. \E a \in p.Value : LengthOf(mode) <= Len(a)
    <3>1. CASE mode = UwbMacAddressType.Short
      <4>1. LengthOf(mode) = 2
        BY <3>1 DEF LengthOf, UwbMacAddressLength
      <4>2. p.Value # {}
        BY <1>4 DEF IsForSession
      <4> HIDE DEF p
      <4>3. PICK a \in p.Value : TRUE
        BY <4>2
      <4>4. LengthOf(mode) <= Len(a)
        BY <2>3, <4>1, <4>3
      <4>5. QED
        BY <4>3, <4>4
    <3>2. CASE mode # UwbMacAddressType.Short
      <4>1. LengthOf(mode) = UwbMacAddressLength.Extended /\ UwbMacAddressLength.Extended = 8
        BY <3>2 DEF LengthOf, UwbMacAddressLength
      <4>2. PICK k \in DOMAIN parameters : parameters[k].Type = "MacAddressMode"
              /\ (Typed(parameters[k]) => mode = parameters[k].Value)
        BY <1>4, <3>2 DEF ModeOf
      <4>3. parameters[k].Value # UwbMacAddressType.Short
        BY <1>1, <3>2, <4>2
      <4>4. \E a \in p.Value : Len(a) = UwbMacAddressLength.Extended
        BY <1>4, <4>2, <4>3 DEF IsForSession
      <4> HIDE DEF p
      <4>5. PICK a \in p.Value : Len(a) = UwbMacAddressLength.Extended
        BY <4>4
      <4>6. LengthOf(mode) <= Len(a)
        BY <4>1, <4>5
      <4>7. QED
        BY <4>5, <4>6
    <3>3. QED
      BY <3>1, <3>2
  <2>7. LengthOf(mode) \in {2, 8}
    BY Lengths
  <2>8. QED
    BY <2>3, <2>4, <2>5, <2>6, <2>7
<1>5. QED
  BY <1>1, <1>2, <1>3, <1>4 DEF Ready

LEMMA FirstPassage ==
    ASSUME NEW parameters, IsParameters(parameters), IsForSession(parameters),
           NEW w, w.appConfigParams = ArrayOfParameters(parameters),
           w.appConfigParamsCount = Len(parameters)
    PROVE  Configured(ByType(ToParameterArray(w, FALSE)))
<1> DEFINE r == ByType(ToParameterArray(w, FALSE))
<1>1. Ready(parameters)
  BY SessionIsReady
<1>2. DOMAIN r = KeptTypes(parameters, FALSE) /\ PassageKeeps(r, parameters)
  BY <1>1, Passage
<1> HIDE DEF r
<1>3. DOMAIN r \subseteq ParameterType \ {"MacAddressMode"}
  <2>1. \A i \in DOMAIN parameters : parameters[i].Type \in ParameterType
    BY DEF IsParameters, Typed
  <2>2. QED
    BY <1>2, <2>1 DEF KeptTypes, Keeps
<1>4. RequiredTypes \subseteq DOMAIN r
  <2>1. \A t \in RequiredTypes : t # "MacAddressMode" /\ \E i \in DOMAIN parameters : parameters[i].Type = t
    BY <1>1 DEF Ready, RequiredTypes
  <2>2. QED
    BY <1>2, <2>1 DEF KeptTypes, Keeps
<1>5. \A t \in DOMAIN r \ {"DestinationMacAddresses"} : Proper(r[t]) /\ r[t].Type = t
  BY <1>1, <1>2 DEF PassageKeeps, Ready
<1>6. \E length \in {2, 8} : Destinations(r["DestinationMacAddresses"], length)
  BY <1>2, Lengths DEF PassageKeeps
<1>7. QED
  BY <1>3, <1>4, <1>5, <1>6 DEF Configured, r

-----------------------------------------------------------------------------
LEMMA ProperIsWritable ==
    ASSUME NEW p, Proper(p), p.Type # "DestinationMacAddresses"
    PROVE  Writable(p)
<1>1. Typed(p) /\ p.Alternative # "addresses"
  BY KindIs DEF Proper
<1>2. ParamValue(p) \in Seq(Int) /\ Len(ParamValue(p)) \in 0 .. 8
  BY <1>1, ValueIs
<1> DEFINE length == Len(ParamValue(p))
<1>3. length \in 0 .. 8
  BY <1>2
<1> HIDE DEF length
<1>4. WithinBytes(12 + length, 4)
  BY <1>3 DEF WithinBytes
<1>5. QED
  BY <1>1, <1>2, <1>4 DEF Writable, Typed, length

LEMMA DestinationsHave ==
    ASSUME NEW p, NEW length \in {2, 8}, Destinations(p, length)
    PROVE  2 <= Len(ParamValue(p))
<1>1. p.Alternative = "addresses"
  BY ParameterTypeNumbers
     DEF Destinations, Parameter, UwbApplicationConfigurationParameterValue, ParameterType
<1>2. \A a \in p.Value : a \in Seq(Int) /\ Len(a) = length
  BY BytesOfLength DEF Destinations
<1>3. \A a \in p.Value : IsBytes(a)
  BY <1>2, BytesAre
<1>4. PICK a \in p.Value : Len(a) = length
  BY <1>2 DEF Destinations
<1>5. Len(a) <= Len(ParamValue(p))
  BY <1>1, <1>3, AddressesHave DEF Destinations
<1>6. Len(ParamValue(p)) \in Nat
  BY HeaderFits DEF Destinations, WithinBytes
<1>7. QED
  BY <1>4, <1>5, <1>6

\* The parameters of a configured driver in order.
LEMMA ConfiguredIsReady ==
    ASSUME NEW byType, Configured(byType)
    PROVE  LET parameters == InTypeOrder(byType) IN
           /\ Ready(parameters)
           /\ \A i \in DOMAIN parameters :
                parameters[i].Type \in DOMAIN byType /\ parameters[i] = byType[parameters[i].Type]
           /\ \A t \in DOMAIN byType : \E i \in DOMAIN parameters : parameters[i].Type = t
           /\ \A mode : ModeOf(parameters, mode) => mode = UwbMacAddressType.Short
<1> DEFINE parameters == InTypeOrder(byType)
           d == "DestinationMacAddresses"
<1>1. DOMAIN byType \subseteq ParameterType
  BY DEF Configured
<1>2. /\ IsList(parameters)
      /\ \A i \in DOMAIN parameters : \E t \in DOMAIN byType : parameters[i] = byType[t]
  BY <1>1, InTypeOrderIs DEF IsList
<1>3. \A t \in DOMAIN byType : \E i \in DOMAIN parameters : parameters[i] = byType[t]
  BY <1>1, InTypeOrderHas
<1> HIDE DEF parameters
<1>4. PICK length \in {2, 8} : Destinations(byType[d], length)
  BY DEF Configured
<1>5. byType[d].Type = d
  BY <1>4 DEF Destinations, Parameter
<1>6. \A t \in DOMAIN byType : byType[t].Type = t
  BY <1>5 DEF Configured
<1>7. /\ \A i \in DOMAIN parameters :
           parameters[i].Type \in DOMAIN byType /\ parameters[i] = byType[parameters[i].Type]
      /\ \A t \in DOMAIN byType : \E i \in DOMAIN parameters : parameters[i].Type = t
  BY <1>2, <1>3, <1>6
<1>8. \A i \in DOMAIN parameters : parameters[i].Type # d => Proper(parameters[i])
  BY <1>7 DEF Configured
<1>9. AllWritable(parameters)
  <2>1. ASSUME NEW i \in DOMAIN parameters PROVE Writable(parameters[i])
    <3>1. CASE parameters[i].Type = d
      BY <1>4, <1>7, <3>1 DEF Destinations
    <3>2. CASE parameters[i].Type # d
      BY <1>8, <3>2, ProperIsWritable
    <3>3. QED
      BY <3>1, <3>2
  <2>2. QED
    BY <1>2, <2>1 DEF AllWritable, IsList
<1>10. \A mode : ModeOf(parameters, mode) => mode = UwbMacAddressType.Short
  <2>1. \A i \in DOMAIN parameters : parameters[i].Type # "MacAddressMode"
    BY <1>7 DEF Configured
  <2>2. QED
    BY <2>1 DEF ModeOf
<1>11. ASSUME NEW mode, ModeOf(parameters, mode), NEW i \in DOMAIN parameters, parameters[i].Type = d
       PROVE  LengthOf(mode) <= Len(ParamValue(parameters[i]))
  <2>1. LengthOf(mode) = 2
    BY <1>10, <1>11 DEF LengthOf, UwbMacAddressLength
  <2>2. parameters[i] = byType[d]
    BY <1>7, <1>11
  <2>3. 2 <= Len(ParamValue(byType[d]))
    BY <1>4, DestinationsHave
  <2>4. QED
    BY <2>1, <2>2, <2>3
<1>12. Ready(parameters)
  <2>1. \A t \in RequiredTypes : \E i \in DOMAIN parameters : parameters[i].Type = t
    BY <1>7 DEF Configured
  <2>2. QED
    BY <1>8, <1>9, <1>11, <2>1 DEF Ready
<1>13. QED
  BY <1>7, <1>10, <1>12 DEF parameters

LEMMA SecondPassage ==
    ASSUME NEW byType, Configured(byType),
           NEW w, w.appConfigParams = ArrayOfParameters(InTypeOrder(byType)),
           w.appConfigParamsCount = Len(InTypeOrder(byType))
    PROVE  LET r == ByType(ToParameterArray(w, TRUE)) IN
           /\ DOMAIN r = DOMAIN byType
           /\ \A t \in DOMAIN r \ {"DestinationMacAddresses"} : r[t] = byType[t]
           /\ Destinations(r["DestinationMacAddresses"], 2)
<1> DEFINE r == ByType(ToParameterArray(w, TRUE))
           parameters == InTypeOrder(byType)
<1>1. /\ Ready(parameters)
      /\ \A i \in DOMAIN parameters :
           parameters[i].Type \in DOMAIN byType /\ parameters[i] = byType[parameters[i].Type]
      /\ \A t \in DOMAIN byType : \E i \in DOMAIN parameters : parameters[i].Type = t
      /\ \A mode : ModeOf(parameters, mode) => mode = UwbMacAddressType.Short
  BY ConfiguredIsReady
<1>2. w.appConfigParams = ArrayOfParameters(parameters) /\ w.appConfigParamsCount = Len(parameters)
  OBVIOUS
<1> HIDE DEF parameters
<1>3. DOMAIN r = KeptTypes(parameters, TRUE) /\ PassageKeeps(r, parameters)
  BY <1>1, <1>2, Passage
<1> HIDE DEF r
<1>4. DOMAIN r = DOMAIN byType
  BY <1>1, <1>3 DEF KeptTypes, Keeps
<1>5. ASSUME NEW t \in DOMAIN r \ {"DestinationMacAddresses"} PROVE r[t] = byType[t]
  <2>1. PICK i \in DOMAIN parameters : parameters[i].Type = t /\ r[t] = parameters[i]
    BY <1>3 DEF PassageKeeps
  <2>2. QED
    BY <1>1, <2>1
<1>6. LengthOf(UwbMacAddressType.Short) = 2
  BY DEF LengthOf, UwbMacAddressLength
<1>7. Destinations(r["DestinationMacAddresses"], 2)
  BY <1>1, <1>3, <1>6 DEF PassageKeeps
<1>8. QED
  BY <1>4, <1>5, <1>7 DEF r

-----------------------------------------------------------------------------
(* The session data of a driver's parameters.                              *)

DirectEnumerations ==
    {"DeviceRole", "StsConfiguration", "MultiNodeMode", "ChannelNumber", "MacFcsType",
     "RFrameConfiguration", "RangingTimeStruct", "ScheduledMode"}

Direct8 == {"PreambleCodeIndex", "SlotsPerRangingRound", "KeyRotationRate"}
Direct16 == {"SlotDuration", "MaxRangingRoundRetry"}
Direct32 == {"RangingInterval", "UwbInitiationTime"}
DirectTypes == DirectEnumerations \cup Direct8 \cup Direct16 \cup Direct32

LEMMA CorrespondingTypes == DOMAIN Corresponding = DirectTypes \cup {"MacAddressMode"}
BY DEF Corresponding, DirectTypes, DirectEnumerations, Direct8, Direct16, Direct32

\* The alternatives of these parameters.
LEMMA DirectKinds ==
    /\ \A t \in DirectEnumerations : KindOf(t) = "enum"
    /\ \A t \in Direct8 : KindOf(t) = "uint8"
    /\ \A t \in Direct16 : KindOf(t) = "uint16"
    /\ \A t \in Direct32 : KindOf(t) = "uint32"
    /\ KindOf("SubSessionId") = "uint32"
    /\ KindOf("DeviceMacAddress") = "address"
    /\ KindOf("ResultReportConfig") = "reports"
<1>1. KindOf("DeviceRole") = "enum"
  BY ParameterTypeNumbers, Zenon
     DEF KindOf, UwbApplicationConfigurationParameterValue, ParameterType
<1>2. KindOf("StsConfiguration") = "enum"
  BY ParameterTypeNumbers, Zenon
     DEF KindOf, UwbApplicationConfigurationParameterValue, ParameterType
<1>3. KindOf("MultiNodeMode") = "enum"
  BY ParameterTypeNumbers, Zenon
     DEF KindOf, UwbApplicationConfigurationParameterValue, ParameterType
<1>4. KindOf("ChannelNumber") = "enum"
  BY ParameterTypeNumbers, Zenon
     DEF KindOf, UwbApplicationConfigurationParameterValue, ParameterType
<1>5. KindOf("MacFcsType") = "enum"
  BY ParameterTypeNumbers, Zenon
     DEF KindOf, UwbApplicationConfigurationParameterValue, ParameterType
<1>6. KindOf("RFrameConfiguration") = "enum"
  BY ParameterTypeNumbers, Zenon
     DEF KindOf, UwbApplicationConfigurationParameterValue, ParameterType
<1>7. KindOf("RangingTimeStruct") = "enum"
  BY ParameterTypeNumbers, Zenon
     DEF KindOf, UwbApplicationConfigurationParameterValue, ParameterType
<1>8. KindOf("ScheduledMode") = "enum"
  BY ParameterTypeNumbers, Zenon
     DEF KindOf, UwbApplicationConfigurationParameterValue, ParameterType
<1>9. KindOf("PreambleCodeIndex") = "uint8"
  BY ParameterTypeNumbers, Zenon
     DEF KindOf, UwbApplicationConfigurationParameterValue, ParameterType
<1>10. KindOf("SlotsPerRangingRound") = "uint8"
  BY ParameterTypeNumbers, Zenon
     DEF KindOf, UwbApplicationConfigurationParameterValue, ParameterType
<1>11. KindOf("KeyRotationRate") = "uint8"
  BY ParameterTypeNumbers, Zenon
     DEF KindOf, UwbApplicationConfigurationParameterValue, ParameterType
<1>12. KindOf("SlotDuration") = "uint16"
  BY ParameterTypeNumbers, Zenon
     DEF KindOf, UwbApplicationConfigurationParameterValue, ParameterType
<1>13. KindOf("MaxRangingRoundRetry") = "uint16"
  BY ParameterTypeNumbers, Zenon
     DEF KindOf, UwbApplicationConfigurationParameterValue, ParameterType
<1>14. KindOf("RangingInterval") = "uint32"
  BY ParameterTypeNumbers, Zenon
     DEF KindOf, UwbApplicationConfigurationParameterValue, ParameterType
<1>15. KindOf("UwbInitiationTime") = "uint32"
  BY ParameterTypeNumbers, Zenon
     DEF KindOf, UwbApplicationConfigurationParameterValue, ParameterType
<1>16. KindOf("SubSessionId") = "uint32"
  BY ParameterTypeNumbers, Zenon
     DEF KindOf, UwbApplicationConfigurationParameterValue, ParameterType
<1>17. KindOf("DeviceMacAddress") = "address"
  BY ParameterTypeNumbers, Zenon
     DEF KindOf, UwbApplicationConfigurationParameterValue, ParameterType
<1>18. KindOf("ResultReportConfig") = "reports"
  BY ParameterTypeNumbers, Zenon
     DEF KindOf, UwbApplicationConfigurationParameterValue, ParameterType
<1>19. QED
  BY <1>1, <1>2, <1>3, <1>4, <1>5, <1>6, <1>7, <1>8, <1>9, <1>10, <1>11, <1>12, <1>13, <1>14, <1>15, <1>16, <1>17, <1>18
     DEF DirectEnumerations, Direct8, Direct16, Direct32

LEMMA Widths ==
    \A t : /\ AlternativeBytes("uint8", t) = 1
           /\ AlternativeBytes("uint16", t) = 2
           /\ AlternativeBytes("uint32", t) = 4
<1> TAKE t
<1>1. AlternativeBytes("uint16", t) = 2
  BY Zenon DEF AlternativeBytes
<1>2. AlternativeBytes("uint32", t) = 4
  <2>1. "uint32" # "uint16"
    OBVIOUS
  <2>2. QED
    BY <2>1, Zenon DEF AlternativeBytes
<1>3. AlternativeBytes("uint8", t) = 1
  <2>1. "uint8" # "uint16" /\ "uint8" # "uint32" /\ "uint8" # "enum"
    OBVIOUS
  <2>2. QED
    BY <2>1, Zenon DEF AlternativeBytes
<1>4. QED
  BY <1>1, <1>2, <1>3

\* An integer, of its type's width.
LEMMA IntegerIs ==
    ASSUME NEW p, Proper(p)
    PROVE  /\ KindOf(p.Type) = "uint8" => p.Value \in Byte
           /\ KindOf(p.Type) = "uint16" => WithinBytes(p.Value, 2)
           /\ KindOf(p.Type) = "uint32" => WithinBytes(p.Value, 4)
           /\ KindOf(p.Type) = "enum" => p.Value \in Range(ParameterEnumeration[p.Type])
           /\ KindOf(p.Type) = "address" => p.Value \in Address
           /\ KindOf(p.Type) = "reports" => p.Value \subseteq DOMAIN ResultReportConfiguration
<1>1. Typed(p) /\ p.Alternative = KindOf(p.Type)
  BY KindIs DEF Proper
<1>2. KindOf(p.Type) \in {"uint8", "uint16", "uint32"} =>
        WithinBytes(p.Value, AlternativeBytes(KindOf(p.Type), p.Type))
  BY <1>1 DEF Typed
<1>3. ASSUME KindOf(p.Type) = "uint8" PROVE p.Value \in Byte
  <2>1. WithinBytes(p.Value, 1)
    BY <1>2, <1>3, Widths
  <2>2. QED
    BY <2>1 DEF WithinBytes, Byte
<1>4. KindOf(p.Type) = "uint16" => WithinBytes(p.Value, 2)
  BY <1>2, Widths
<1>5. KindOf(p.Type) = "uint32" => WithinBytes(p.Value, 4)
  BY <1>2, Widths
<1>6. KindOf(p.Type) = "enum" => p.Value \in Range(ParameterEnumeration[p.Type])
  BY <1>1 DEF Proper
<1>7. /\ KindOf(p.Type) = "address" => p.Value \in Address
      /\ KindOf(p.Type) = "reports" => p.Value \subseteq DOMAIN ResultReportConfiguration
  BY <1>1 DEF Typed
<1>8. QED
  BY <1>3, <1>4, <1>5, <1>6, <1>7



LEMMA DirectEnumerators ==
    ASSUME NEW t \in DirectEnumerations, NEW value \in Range(ParameterEnumeration[t])
    PROVE  IsValue(Corresponding[t], value, Int)
<1>1. CASE t = "DeviceRole"
  <2>1. Corresponding[t] = "DeviceRole" /\ ParameterEnumeration[t] = DeviceRole
    BY <1>1 DEF Corresponding, ParameterEnumeration
  <2>2. ConfigurationEnumeration["DeviceRole"] = DeviceRole
    BY DEF ConfigurationEnumeration
  <2>3. "DeviceRole" \notin Booleans \cup Integers8 \cup Integers16 \cup Integers32 \cup Addresses
    BY DEF Booleans, Integers8, Integers16, Integers32, Addresses
  <2>4. QED
    BY <2>1, <2>2, <2>3 DEF IsValue
<1>2. CASE t = "StsConfiguration"
  <2>1. Corresponding[t] = "StsConfig" /\ ParameterEnumeration[t] = StsConfiguration
    BY <1>2 DEF Corresponding, ParameterEnumeration
  <2>2. ConfigurationEnumeration["StsConfig"] = StsConfiguration
    BY DEF ConfigurationEnumeration
  <2>3. "StsConfig" \notin Booleans \cup Integers8 \cup Integers16 \cup Integers32 \cup Addresses
    BY DEF Booleans, Integers8, Integers16, Integers32, Addresses
  <2>4. QED
    BY <2>1, <2>2, <2>3 DEF IsValue
<1>3. CASE t = "MultiNodeMode"
  <2>1. Corresponding[t] = "MultiNodeMode" /\ ParameterEnumeration[t] = MultiNodeMode
    BY <1>3 DEF Corresponding, ParameterEnumeration
  <2>2. ConfigurationEnumeration["MultiNodeMode"] = MultiNodeMode
    BY DEF ConfigurationEnumeration
  <2>3. "MultiNodeMode" \notin Booleans \cup Integers8 \cup Integers16 \cup Integers32 \cup Addresses
    BY DEF Booleans, Integers8, Integers16, Integers32, Addresses
  <2>4. QED
    BY <2>1, <2>2, <2>3 DEF IsValue
<1>4. CASE t = "ChannelNumber"
  <2>1. Corresponding[t] = "ChannelNumber" /\ ParameterEnumeration[t] = Channel
    BY <1>4 DEF Corresponding, ParameterEnumeration
  <2>2. ConfigurationEnumeration["ChannelNumber"] = Channel
    BY DEF ConfigurationEnumeration
  <2>3. "ChannelNumber" \notin Booleans \cup Integers8 \cup Integers16 \cup Integers32 \cup Addresses
    BY DEF Booleans, Integers8, Integers16, Integers32, Addresses
  <2>4. QED
    BY <2>1, <2>2, <2>3 DEF IsValue
<1>5. CASE t = "MacFcsType"
  <2>1. Corresponding[t] = "MacFcsType" /\ ParameterEnumeration[t] = UwbMacAddressFcsType
    BY <1>5 DEF Corresponding, ParameterEnumeration
  <2>2. ConfigurationEnumeration["MacFcsType"] = UwbMacAddressFcsType
    BY DEF ConfigurationEnumeration
  <2>3. "MacFcsType" \notin Booleans \cup Integers8 \cup Integers16 \cup Integers32 \cup Addresses
    BY DEF Booleans, Integers8, Integers16, Integers32, Addresses
  <2>4. QED
    BY <2>1, <2>2, <2>3 DEF IsValue
<1>6. CASE t = "RFrameConfiguration"
  <2>1. Corresponding[t] = "RFrameConfig" /\ ParameterEnumeration[t] = RFrameConfiguration
    BY <1>6 DEF Corresponding, ParameterEnumeration
  <2>2. ConfigurationEnumeration["RFrameConfig"] = RFrameConfiguration
    BY DEF ConfigurationEnumeration
  <2>3. "RFrameConfig" \notin Booleans \cup Integers8 \cup Integers16 \cup Integers32 \cup Addresses
    BY DEF Booleans, Integers8, Integers16, Integers32, Addresses
  <2>4. QED
    BY <2>1, <2>2, <2>3 DEF IsValue
<1>7. CASE t = "RangingTimeStruct"
  <2>1. Corresponding[t] = "RangingTimeStruct" /\ ParameterEnumeration[t] = RangingMode
    BY <1>7 DEF Corresponding, ParameterEnumeration
  <2>2. ConfigurationEnumeration["RangingTimeStruct"] = RangingMode
    BY DEF ConfigurationEnumeration
  <2>3. "RangingTimeStruct" \notin Booleans \cup Integers8 \cup Integers16 \cup Integers32 \cup Addresses
    BY DEF Booleans, Integers8, Integers16, Integers32, Addresses
  <2>4. QED
    BY <2>1, <2>2, <2>3 DEF IsValue
<1>8. CASE t = "ScheduledMode"
  <2>1. Corresponding[t] = "ScheduledMode" /\ ParameterEnumeration[t] = SchedulingMode
    BY <1>8 DEF Corresponding, ParameterEnumeration
  <2>2. ConfigurationEnumeration["ScheduledMode"] = SchedulingMode
    BY DEF ConfigurationEnumeration
  <2>3. "ScheduledMode" \notin Booleans \cup Integers8 \cup Integers16 \cup Integers32 \cup Addresses
    BY DEF Booleans, Integers8, Integers16, Integers32, Addresses
  <2>4. QED
    BY <2>1, <2>2, <2>3 DEF IsValue
<1>9. QED
  BY <1>1, <1>2, <1>3, <1>4, <1>5, <1>6, <1>7, <1>8 DEF DirectEnumerations

LEMMA DirectIntegers ==
    ASSUME NEW t, NEW value
    PROVE  /\ t \in Direct8 /\ value \in Byte => IsValue(Corresponding[t], value, Int)
           /\ t \in Direct16 \cup {"RangingInterval"} /\ WithinBytes(value, 2) =>
                IsValue(Corresponding[t], value, Int)
           /\ t = "UwbInitiationTime" /\ WithinBytes(value, 4) => IsValue(Corresponding[t], value, Int)
<1> DEFINE tag == Corresponding[t]
<1>1. t \in Direct8 => tag \in Integers8
  BY DEF Direct8, Corresponding, Integers8
<1>2. t \in Direct16 \cup {"RangingInterval"} => tag \in Integers16
  BY DEF Direct16, Corresponding, Integers16
<1>3. t = "UwbInitiationTime" => tag \in Integers32
  BY DEF Corresponding, Integers32
<1> HIDE DEF tag
<1>4. \A x \in Integers8 \cup Integers16 \cup Integers32 :
        x \notin DOMAIN ConfigurationEnumeration /\ x \notin Booleans /\ x \notin Addresses
        /\ x # "ResultReportConfig"
  BY DEF ConfigurationEnumeration, Booleans, Integers8, Integers16, Integers32, Addresses
<1>5. /\ Integers8 \cap Integers16 = {} /\ Integers8 \cap Integers32 = {}
      /\ Integers16 \cap Integers32 = {}
  BY DEF Integers8, Integers16, Integers32
<1>6. t \in Direct8 /\ value \in Byte => IsValue(tag, value, Int)
  BY <1>1, <1>4, <1>5, Zenon DEF IsValue
<1>7. t \in Direct16 \cup {"RangingInterval"} /\ WithinBytes(value, 2) => IsValue(tag, value, Int)
  BY <1>2, <1>4, <1>5, Zenon DEF IsValue
<1>8. t = "UwbInitiationTime" /\ WithinBytes(value, 4) => IsValue(tag, value, Int)
  BY <1>3, <1>4, <1>5, Zenon DEF IsValue
<1>9. QED
  BY <1>6, <1>7, <1>8 DEF tag

LEMMA DirectIsValue ==
    ASSUME NEW p, Proper(p), p.Type \in DirectTypes
    PROVE  IsValue(Corresponding[p.Type], DirectValue(p.Type, p.Value), Int)
<1>1. CASE p.Type \in DirectEnumerations
  <2>1. p.Type # "RangingInterval"
    BY <1>1 DEF DirectEnumerations
  <2>2. p.Value \in Range(ParameterEnumeration[p.Type])
    BY <1>1, DirectKinds, IntegerIs
  <2>3. QED
    BY <1>1, <2>1, <2>2, DirectEnumerators DEF DirectValue
<1>2. CASE p.Type \in Direct8
  <2>1. p.Type # "RangingInterval" /\ p.Value \in Byte
    BY <1>2, DirectKinds, IntegerIs DEF Direct8
  <2>2. QED
    BY <1>2, <2>1, DirectIntegers DEF DirectValue
<1>3. CASE p.Type \in Direct16
  <2>1. p.Type # "RangingInterval" /\ WithinBytes(p.Value, 2)
    BY <1>3, DirectKinds, IntegerIs DEF Direct16
  <2>2. QED
    BY <1>3, <2>1, DirectIntegers DEF DirectValue
<1>4. CASE p.Type = "RangingInterval"
  <2>1. WithinBytes(p.Value, 4)
    BY <1>4, DirectKinds, IntegerIs DEF Direct32
  <2>2. p.Value \in Nat
    BY <2>1 DEF WithinBytes
  <2>3. p.Value % 65536 \in Nat /\ p.Value % 65536 < 65536
    BY <2>2
  <2>4. WithinBytes(p.Value % 65536, 2)
    BY <2>3 DEF WithinBytes
  <2>5. QED
    BY <1>4, <2>4, DirectIntegers DEF DirectValue
<1>5. CASE p.Type = "UwbInitiationTime"
  <2>1. WithinBytes(p.Value, 4)
    BY <1>5, DirectKinds, IntegerIs DEF Direct32
  <2>2. QED
    BY <1>5, <2>1, DirectIntegers DEF DirectValue
<1>6. QED
  BY <1>1, <1>2, <1>3, <1>4, <1>5 DEF DirectTypes, Direct32

-----------------------------------------------------------------------------
\* The parameter that a tag corresponds to.
SourceOf ==
    [DeviceRole |-> "DeviceRole", StsConfig |-> "StsConfiguration",
     MultiNodeMode |-> "MultiNodeMode", ChannelNumber |-> "ChannelNumber",
     SlotDuration |-> "SlotDuration", RangingInterval |-> "RangingInterval",
     MacFcsType |-> "MacFcsType", RFrameConfig |-> "RFrameConfiguration",
     PreambleCodeIndex |-> "PreambleCodeIndex", RangingTimeStruct |-> "RangingTimeStruct",
     SlotsPerRr |-> "SlotsPerRangingRound", ScheduledMode |-> "ScheduledMode",
     KeyRotationRate |-> "KeyRotationRate", MacAddressMode |-> "MacAddressMode",
     MaxRrRetry |-> "MaxRangingRoundRetry", UwbInitiationTime |-> "UwbInitiationTime"]

LEMMA CorrespondingIs ==
    /\ \A t \in DOMAIN Corresponding : SourceOf[Corresponding[t]] = t
    /\ \A t, u \in DOMAIN Corresponding : Corresponding[t] = Corresponding[u] => t = u
    /\ \A t \in DOMAIN Corresponding :
         /\ Corresponding[t] \in DOMAIN ConfigurationTag
         /\ Corresponding[t] \notin Addresses /\ Corresponding[t] # "ResultReportConfig"
<1>1. \A t \in DOMAIN Corresponding : SourceOf[Corresponding[t]] = t
  BY DEF Corresponding, SourceOf
<1>2. \A t, u \in DOMAIN Corresponding : Corresponding[t] = Corresponding[u] => t = u
  BY <1>1
<1>3. \A t \in DOMAIN Corresponding : Corresponding[t] \notin Addresses /\ Corresponding[t] # "ResultReportConfig"
  BY DEF Corresponding, Addresses
<1>4. \A t \in DOMAIN Corresponding : Corresponding[t] \in DOMAIN ConfigurationTag
  <2>1. DOMAIN ConfigurationTag = Range(<<"FiraPhyVersion", "FiraMacVersion", "DeviceRole", "RangingMethod", "StsConfig",
      "MultiNodeMode", "RangingTimeStruct", "ScheduledMode", "HoppingMode", "BlockStriding",
      "UwbInitiationTime", "ChannelNumber", "RFrameConfig", "CcConstraintLength", "PrfMode",
      "Sp0PhySetNumber", "Sp1PhySetNumber", "Sp3PhySetNumber", "PreambleCodeIndex",
      "ResultReportConfig", "MacAddressMode", "ControleeShortMacAddress",
      "ControllerMacAddress", "SlotsPerRr", "MaxContentionPhaseLength", "SlotDuration",
      "RangingInterval", "KeyRotationRate", "MacFcsType", "MaxRrRetry">>)
    BY EnumerationDomain DEF ConfigurationTag
  <2>2. QED
    BY <2>1 DEF Corresponding, Range
<1>5. QED
  BY <1>1, <1>2, <1>3, <1>4

LEMMA ValuesAre ==
    ASSUME NEW r
    PROVE  /\ ValueOf(r, "ControllerMacAddress") = AddressOf(r, DeviceType.Controller)
           /\ ValueOf(r, "ControleeShortMacAddress") = ControleeAddress(r)
           /\ ValueOf(r, "ResultReportConfig") = ReportsOf(r)
           /\ \A t \in DOMAIN r \cap DOMAIN Corresponding :
                ValueOf(r, Corresponding[t]) = DirectValue(t, r[t].Value)
<1>1. "ControleeShortMacAddress" # "ControllerMacAddress"
      /\ "ResultReportConfig" # "ControllerMacAddress"
      /\ "ResultReportConfig" # "ControleeShortMacAddress"
  OBVIOUS
<1>2. ValueOf(r, "ControllerMacAddress") = AddressOf(r, DeviceType.Controller)
  BY Zenon DEF ValueOf
<1>3. ValueOf(r, "ControleeShortMacAddress") = ControleeAddress(r)
  BY <1>1, Zenon DEF ValueOf
<1>4. ValueOf(r, "ResultReportConfig") = ReportsOf(r)
  BY <1>1, Zenon DEF ValueOf
<1>5. ASSUME NEW t \in DOMAIN r \cap DOMAIN Corresponding
      PROVE  ValueOf(r, Corresponding[t]) = DirectValue(t, r[t].Value)
  <2> DEFINE tag == Corresponding[t]
             u == CHOOSE x \in DOMAIN r \cap DOMAIN Corresponding : Corresponding[x] = tag
  <2>1. tag # "ControllerMacAddress" /\ tag # "ControleeShortMacAddress" /\ tag # "ResultReportConfig"
    BY CorrespondingIs DEF Addresses
  <2>2. ValueOf(r, tag) = DirectValue(u, r[u].Value)
    BY <2>1, Zenon DEF ValueOf
  <2>3. u = t
    <3>1. \E x \in DOMAIN r \cap DOMAIN Corresponding : Corresponding[x] = tag
      OBVIOUS
    <3>2. u \in DOMAIN r \cap DOMAIN Corresponding /\ Corresponding[u] = tag
      BY <3>1, Zenon
    <3> HIDE DEF u
    <3>3. QED
      BY <3>2, CorrespondingIs
  <2> HIDE DEF u
  <2>4. QED
    BY <2>2, <2>3
<1>6. QED
  BY <1>2, <1>3, <1>4, <1>5

-----------------------------------------------------------------------------
\* What a host has read of its driver.
ReadOf(r) ==
    /\ DOMAIN r \subseteq ParameterType \ {"MacAddressMode"}
    /\ RequiredTypes \subseteq DOMAIN r
    /\ \A t \in DOMAIN r \ {"DestinationMacAddresses"} : Proper(r[t]) /\ r[t].Type = t
    /\ Destinations(r["DestinationMacAddresses"], 2)

ConfigurationOf(r) == [tag \in TagsOf(r) |-> ValueOf(r, tag)]

LEMMA AddressesOf ==
    ASSUME NEW r, ReadOf(r)
    PROVE  /\ \A d : AddressOf(r, d) \in [1 .. 2 -> Int] \cup [1 .. 8 -> Int]
           /\ ControleeAddress(r) \in [1 .. 2 -> Int]
<1>1. DestinationOf(r) \in [1 .. 2 -> Int]
  BY DEF DestinationOf, ReadOf, Destinations
<1>2. r["DeviceMacAddress"].Value \in [1 .. 2 -> Int] \cup [1 .. 8 -> Int]
  <2>1. Proper(r["DeviceMacAddress"]) /\ r["DeviceMacAddress"].Type = "DeviceMacAddress"
    BY DEF ReadOf, RequiredTypes
  <2>2. r["DeviceMacAddress"].Value \in Address
    BY <2>1, DirectKinds, IntegerIs
  <2> DEFINE value == r["DeviceMacAddress"].Value
  <2> HIDE DEF value
  <2>3. Address = [1 .. 2 -> Byte] \cup [1 .. 8 -> Byte]
    BY DEF Address, ShortAddress, UwbMacAddressLength
  <2>4. Byte \subseteq Int
    BY DEF Byte
  <2>5. [1 .. 2 -> Byte] \subseteq [1 .. 2 -> Int] /\ [1 .. 8 -> Byte] \subseteq [1 .. 8 -> Int]
    BY <2>4, Zenon
  <2>6. value \in Address
    BY <2>2 DEF value
  <2>7. value \in [1 .. 2 -> Int] \cup [1 .. 8 -> Int]
    BY <2>3, <2>5, <2>6, Zenon
  <2>8. QED
    BY <2>7 DEF value
<1>3. \A d : AddressOf(r, d) \in [1 .. 2 -> Int] \cup [1 .. 8 -> Int]
  BY <1>1, <1>2 DEF AddressOf
<1>4. ControleeAddress(r) \in [1 .. 2 -> Int]
  <2> DEFINE a == AddressOf(r, DeviceType.Controlee)
  <2>0. a \in [1 .. 2 -> Int] \cup [1 .. 8 -> Int]
    BY <1>3
  <2> HIDE DEF a
  <2>1. \/ a \in [1 .. 2 -> Int]
        \/ a \in [1 .. 8 -> Int] /\ Len(a) = 8
    BY <2>0, BytesOfLength
  <2>2. UwbMacAddressLength.Short = 2
    BY DEF UwbMacAddressLength
  <2>3. ControleeAddress(r) = IF Len(a) = UwbMacAddressLength.Short THEN a ELSE DestinationOf(r)
    BY DEF ControleeAddress, a
  <2>4. QED
    BY <1>1, <2>1, <2>2, <2>3
<1>5. QED
  BY <1>3, <1>4

-----------------------------------------------------------------------------
LEMMA AddressIsValue ==
    ASSUME NEW value
    PROVE  /\ value \in [1 .. 2 -> Int] \cup [1 .. 8 -> Int] => IsValue("ControllerMacAddress", value, Int)
           /\ value \in [1 .. 2 -> Int] => IsValue("ControleeShortMacAddress", value, Int)
<1>1. \A x \in Addresses :
        /\ x \notin DOMAIN ConfigurationEnumeration
        /\ x \notin Booleans /\ x # "ResultReportConfig"
        /\ x \notin Integers8 /\ x \notin Integers16 /\ x \notin Integers32
  BY DEF ConfigurationEnumeration, Booleans, Integers8, Integers16, Integers32, Addresses
<1>2. UwbMacAddressLength.Short = 2 /\ UwbMacAddressLength.Extended = 8
  BY DEF UwbMacAddressLength
<1>3. "ControllerMacAddress" \in Addresses /\ "ControleeShortMacAddress" \in Addresses
  BY DEF Addresses
<1>4. QED
  BY <1>1, <1>2, <1>3 DEF IsValue

LEMMA ReportsAreValue ==
    ASSUME NEW value, value \subseteq DOMAIN ResultReportConfiguration
    PROVE  IsValue("ResultReportConfig", value, Int)
<1> DEFINE x == "ResultReportConfig"
<1>1. /\ x \notin DOMAIN ConfigurationEnumeration
      /\ x \notin Booleans /\ x \notin Addresses
      /\ x \notin Integers8 /\ x \notin Integers16 /\ x \notin Integers32
  BY DEF ConfigurationEnumeration, Booleans, Integers8, Integers16, Integers32, Addresses
<1>2. QED
  BY <1>1 DEF IsValue

LEMMA OtherTags ==
    {"ControllerMacAddress", "ControleeShortMacAddress", "ResultReportConfig"} \subseteq DOMAIN ConfigurationTag
<1>1. DOMAIN ConfigurationTag = Range(<<"FiraPhyVersion", "FiraMacVersion", "DeviceRole", "RangingMethod", "StsConfig",
      "MultiNodeMode", "RangingTimeStruct", "ScheduledMode", "HoppingMode", "BlockStriding",
      "UwbInitiationTime", "ChannelNumber", "RFrameConfig", "CcConstraintLength", "PrfMode",
      "Sp0PhySetNumber", "Sp1PhySetNumber", "Sp3PhySetNumber", "PreambleCodeIndex",
      "ResultReportConfig", "MacAddressMode", "ControleeShortMacAddress",
      "ControllerMacAddress", "SlotsPerRr", "MaxContentionPhaseLength", "SlotDuration",
      "RangingInterval", "KeyRotationRate", "MacFcsType", "MaxRrRetry">>)
  BY EnumerationDomain DEF ConfigurationTag
<1>2. QED
  BY <1>1 DEF Range

LEMMA ReportsRead ==
    ASSUME NEW r, ReadOf(r)
    PROVE  ReportsOf(r) \subseteq DOMAIN ResultReportConfiguration
<1>1. CASE "ResultReportConfig" \in DOMAIN r
  <2>1. Proper(r["ResultReportConfig"]) /\ r["ResultReportConfig"].Type = "ResultReportConfig"
    BY <1>1 DEF ReadOf
  <2>2. r["ResultReportConfig"].Value \subseteq DOMAIN ResultReportConfiguration
    BY <2>1, DirectKinds, IntegerIs
  <2>3. QED
    BY <1>1, <2>2, Zenon DEF ReportsOf
<1>2. CASE "ResultReportConfig" \notin DOMAIN r
  BY <1>2 DEF ReportsOf
<1>3. QED
  BY <1>1, <1>2

LEMMA TagsAre ==
    ASSUME NEW r, NEW tag \in TagsOf(r)
    PROVE  \/ \E t \in DOMAIN r \cap DOMAIN Corresponding : tag = Corresponding[t]
           \/ tag \in {"ControllerMacAddress", "ControleeShortMacAddress", "ResultReportConfig"}
BY Zenon DEF TagsOf

\* A configuration that is made of the parameters of a driver is one.
LEMMA ConfigurationOfIs ==
    ASSUME NEW r, ReadOf(r)
    PROVE  IsConfiguration(ConfigurationOf(r), Int)
<1> DEFINE c == ConfigurationOf(r)
<1>1. ASSUME NEW tag \in TagsOf(r)
      PROVE  tag \in DOMAIN ConfigurationTag /\ IsValue(tag, ValueOf(r, tag), Int)
  <2>1. ASSUME NEW t \in DOMAIN r \cap DOMAIN Corresponding, tag = Corresponding[t]
        PROVE  tag \in DOMAIN ConfigurationTag /\ IsValue(tag, ValueOf(r, tag), Int)
    <3>1. t \in DirectTypes
      BY CorrespondingTypes DEF ReadOf
    <3>2. t # "DestinationMacAddresses"
      BY <3>1 DEF DirectTypes, DirectEnumerations, Direct8, Direct16, Direct32
    <3>3. Proper(r[t]) /\ r[t].Type = t
      BY <3>2 DEF ReadOf
    <3>4. IsValue(Corresponding[t], DirectValue(t, r[t].Value), Int)
      BY <3>1, <3>3, DirectIsValue
    <3>5. ValueOf(r, tag) = DirectValue(t, r[t].Value)
      BY <2>1, ValuesAre
    <3>6. tag \in DOMAIN ConfigurationTag
      BY <2>1, CorrespondingIs
    <3>7. QED
      BY <2>1, <3>4, <3>5, <3>6
  <2>2. CASE tag = "ControllerMacAddress"
    BY <2>2, ValuesAre, AddressesOf, AddressIsValue, OtherTags
  <2>3. CASE tag = "ControleeShortMacAddress"
    BY <2>3, ValuesAre, AddressesOf, AddressIsValue, OtherTags
  <2>4. CASE tag = "ResultReportConfig"
    BY <2>4, ValuesAre, ReportsRead, ReportsAreValue, OtherTags
  <2>5. QED
    BY <2>1, <2>2, <2>3, <2>4, TagsAre
<1>2. c = [tag \in TagsOf(r) |-> ValueOf(r, tag)]
  BY DEF ConfigurationOf
<1> HIDE DEF c
<1>3. DOMAIN c = TagsOf(r) /\ \A t \in TagsOf(r) : c[t] = ValueOf(r, t)
  BY <1>2
<1>4. c = [t \in DOMAIN c |-> c[t]]
  BY <1>2
<1>5. QED
  BY <1>1, <1>3, <1>4 DEF IsConfiguration, c

\* The session data of a driver's parameters.
DataOf(r, id, sub) ==
    [SessionDataVersion |-> Version_1_1, SessionId |-> id, SubSessionId |-> sub,
     ConfigurationParameters |-> ConfigurationOf(r), UwbConfigAvailable |-> 1,
     StaticRangingInfo |-> None, SecureRangingInfo |-> None, RegulatoryInformation |-> None]

SubSessionOf(r) == IF "SubSessionId" \in DOMAIN r THEN r["SubSessionId"].Value ELSE 0

LEMMA SessionDataOf ==
    ASSUME NEW r, NEW data \in GetUwbSessionData(r), NEW id
    PROVE  [data EXCEPT !.SessionId = id] = DataOf(r, id, SubSessionOf(r))
<1>1. data = [DefaultSessionData EXCEPT !.SubSessionId = SubSessionOf(r),
                !.ConfigurationParameters = ConfigurationOf(r), !.UwbConfigAvailable = 1]
  BY Zenon DEF GetUwbSessionData, SubSessionOf, ConfigurationOf
<1> DEFINE sub == SubSessionOf(r)
           c == ConfigurationOf(r)
<1> HIDE DEF sub, c
<1>2. data = [[SessionDataVersion |-> Version_1_1, SessionId |-> 0, SubSessionId |-> 0,
               ConfigurationParameters |-> << >>, UwbConfigAvailable |-> 0,
               StaticRangingInfo |-> None, SecureRangingInfo |-> None, RegulatoryInformation |-> None]
              EXCEPT !.SubSessionId = sub, !.ConfigurationParameters = c, !.UwbConfigAvailable = 1]
  BY <1>1, Zenon DEF DefaultSessionData, sub, c
<1>3. data = [SessionDataVersion |-> Version_1_1, SessionId |-> 0, SubSessionId |-> sub,
               ConfigurationParameters |-> c, UwbConfigAvailable |-> 1,
               StaticRangingInfo |-> None, SecureRangingInfo |-> None, RegulatoryInformation |-> None]
  BY <1>2
<1>4. [data EXCEPT !.SessionId = id] =
        [SessionDataVersion |-> Version_1_1, SessionId |-> id, SubSessionId |-> sub,
         ConfigurationParameters |-> c, UwbConfigAvailable |-> 1,
         StaticRangingInfo |-> None, SecureRangingInfo |-> None, RegulatoryInformation |-> None]
  BY <1>3
<1>5. QED
  BY <1>4, Zenon DEF DataOf, sub, c

LEMMA SubSessionIs ==
    ASSUME NEW r, ReadOf(r)
    PROVE  WithinBytes(SubSessionOf(r), 4)
<1>1. CASE "SubSessionId" \in DOMAIN r
  <2>1. Proper(r["SubSessionId"]) /\ r["SubSessionId"].Type = "SubSessionId"
    BY <1>1 DEF ReadOf
  <2>2. WithinBytes(r["SubSessionId"].Value, 4)
    BY <2>1, DirectKinds, IntegerIs
  <2>3. QED
    BY <1>1, <2>2, Zenon DEF SubSessionOf
<1>2. CASE "SubSessionId" \notin DOMAIN r
  <2>1. SubSessionOf(r) = 0
    BY <1>2 DEF SubSessionOf
  <2>2. WithinBytes(0, 4)
    BY DEF WithinBytes
  <2>3. QED
    BY <2>1, <2>2
<1>3. QED
  BY <1>1, <1>2

LEMMA DataOfIs ==
    ASSUME NEW r, ReadOf(r), NEW data \in GetUwbSessionData(r), NEW id, WithinBytes(id, 4)
    PROVE  IsSessionData([data EXCEPT !.SessionId = id], Int)
<1> DEFINE d == DataOf(r, id, SubSessionOf(r))
<1>1. [data EXCEPT !.SessionId = id] = d
  BY SessionDataOf
<1>2. WithinBytes(SubSessionOf(r), 4) /\ IsConfiguration(ConfigurationOf(r), Int)
  BY SubSessionIs, ConfigurationOfIs
<1> DEFINE sub == SubSessionOf(r)
           c == ConfigurationOf(r)
<1>3. d = [SessionDataVersion |-> Version_1_1, SessionId |-> id, SubSessionId |-> sub,
         ConfigurationParameters |-> c, UwbConfigAvailable |-> 1,
         StaticRangingInfo |-> None, SecureRangingInfo |-> None, RegulatoryInformation |-> None]
  BY Zenon DEF DataOf
<1>4. WithinBytes(sub, 4) /\ IsConfiguration(c, Int)
  BY <1>2
<1> HIDE DEF d, sub, c
<1>5. /\ d = [SessionDataVersion |-> d.SessionDataVersion, SessionId |-> d.SessionId,
              SubSessionId |-> d.SubSessionId, ConfigurationParameters |-> d.ConfigurationParameters,
              UwbConfigAvailable |-> d.UwbConfigAvailable, StaticRangingInfo |-> d.StaticRangingInfo,
              SecureRangingInfo |-> d.SecureRangingInfo,
              RegulatoryInformation |-> d.RegulatoryInformation]
      /\ d.SessionDataVersion = Version_1_1 /\ d.SessionId = id /\ d.SubSessionId = sub
      /\ d.ConfigurationParameters = c /\ d.UwbConfigAvailable = 1
      /\ d.StaticRangingInfo = None /\ d.SecureRangingInfo = None /\ d.RegulatoryInformation = None
  BY <1>3
<1>6. WithinBytes(Version_1_1, 2)
  BY DEF WithinBytes, Version_1_1
<1>7. IsSessionData(d, Int)
  BY <1>4, <1>5, <1>6, Zenon DEF IsSessionData
<1>8. QED
  BY <1>1, <1>7

-----------------------------------------------------------------------------
\* Session data with addresses of bytes is session data.
LEMMA ByteDataIsData ==
    ASSUME NEW d, IsSessionData(d, Byte)
    PROVE  IsSessionData(d, Int)
<1>1. Byte \subseteq Int
  BY DEF Byte
<1>2. \A n : [1 .. n -> Byte] \subseteq [1 .. n -> Int]
  BY <1>1, Zenon
<1> DEFINE c == d.ConfigurationParameters
<1>3. IsConfiguration(c, Byte)
  BY Zenon DEF IsSessionData
<1>4. ASSUME NEW t \in DOMAIN c PROVE IsValue(t, c[t], Int)
  <2>1. IsValue(t, c[t], Byte)
    BY <1>3, <1>4 DEF IsConfiguration
  <2> HIDE DEF c
  <2>2. QED
    BY <1>2, <2>1, Zenon DEF IsValue
<1>5. IsConfiguration(c, Int)
  BY <1>3, <1>4 DEF IsConfiguration
<1>6. QED
  BY <1>5, Zenon DEF IsSessionData

\* A driver of which parameters were set for a session.
LEMMA AfterSetIsConfigured ==
    ASSUME NEW id, NEW parameters, IsParameters(parameters), IsForSession(parameters)
    PROVE  Configured(AfterSet(<< >>, Transfer("SetParameters",
                                    [SessionId |-> id, Parameters |-> parameters])))
<1> DEFINE m == [SessionId |-> id, Parameters |-> parameters]
           w == Encode("SetParameters", m).content
           t == Transfer("SetParameters", m)
           array == ToParameterArray(w, FALSE)
<1>1. m.Parameters = parameters /\ m.SessionId = id
  OBVIOUS
<1> HIDE DEF m
<1>2. /\ w.appConfigParams = ArrayOfParameters(parameters)
      /\ w.appConfigParamsCount = Len(parameters)
  BY <1>1, EncodeIs DEF FromSetParameters, FromParameterArray, ArrayOfParameters, Wrapper
<1>3. t.received = ToSetParameters(w)
  BY DEF Transfer, Decode
<1> HIDE DEF w, t
<1>4. t.received.Parameters = array
  <2>1. ToSetParameters(w) = [SessionId |-> w.header.sessionId, Parameters |-> array]
    BY Zenon DEF ToSetParameters
  <2> HIDE DEF array
  <2>2. QED
    BY <1>3, <2>1
<1>5. Configured(ByType(array))
  BY <1>2, FirstPassage
<1> HIDE DEF array
<1>6. AfterSet(<< >>, t) = Over(ByType(array), << >>)
  BY <1>4 DEF AfterSet
<1> DEFINE held == ByType(array)
           b == Over(held, << >>)
<1> HIDE DEF held
<1>7. DOMAIN (<< >>) = {}
  OBVIOUS
<1>8. DOMAIN b = DOMAIN held /\ \A x \in DOMAIN held : b[x] = held[x]
  BY <1>7 DEF Over
<1> HIDE DEF b
<1>9. Configured(held)
  BY <1>5 DEF held
<1>10. DOMAIN b \subseteq ParameterType \ {"MacAddressMode"} /\ RequiredTypes \subseteq DOMAIN b
  BY <1>8, <1>9 DEF Configured
<1>11. b["DestinationMacAddresses"] = held["DestinationMacAddresses"]
  BY <1>8, <1>10 DEF RequiredTypes
<1>12. \A x \in DOMAIN b \ {"DestinationMacAddresses"} : Proper(b[x]) /\ b[x].Type = x
  BY <1>8, <1>9 DEF Configured
<1>13. Configured(b)
  BY <1>9, <1>10, <1>11, <1>12 DEF Configured
<1>14. QED
  BY <1>6, <1>13 DEF b, held, t, m

\* What a host reads of its driver.
LEMMA ReadBackIs ==
    ASSUME NEW byType, Configured(byType)
    PROVE  LET r == ByType(Transfer("Parameters", InTypeOrder(byType)).received) IN
           /\ ReadOf(r)
           /\ DOMAIN r = DOMAIN byType
           /\ \A t \in DOMAIN r \ {"DestinationMacAddresses"} : r[t] = byType[t]
<1> DEFINE parameters == InTypeOrder(byType)
           w == Encode("Parameters", parameters).content
           t == Transfer("Parameters", parameters)
           r == ByType(ToParameterArray(w, TRUE))
<1> HIDE DEF parameters
<1>1. /\ w.appConfigParams = ArrayOfParameters(parameters)
      /\ w.appConfigParamsCount = Len(parameters)
  BY EncodeIs DEF FromParameters, FromParameterArray, ArrayOfParameters, Wrapper
<1>2. t.received = ToParameters(w)
  BY DEF Transfer, Decode
<1> HIDE DEF w, t
<1>3. t.received = ToParameterArray(w, TRUE)
  BY <1>2, Zenon DEF ToParameters
<1>4. /\ DOMAIN r = DOMAIN byType
      /\ \A x \in DOMAIN r \ {"DestinationMacAddresses"} : r[x] = byType[x]
      /\ Destinations(r["DestinationMacAddresses"], 2)
  BY <1>1, SecondPassage DEF parameters
<1>5. ByType(t.received) = r
  BY <1>3
<1> HIDE DEF r
<1>6. ReadOf(r)
  BY <1>4 DEF ReadOf, Configured
<1>7. QED
  BY <1>4, <1>5, <1>6 DEF parameters, t

-----------------------------------------------------------------------------
\* What was made of an object, of which the bytes are gone.
Received(d) ==
    /\ d.accepted = d.object.whole
    /\ d.object.whole => Arrives(d.object.kind, d.content, d.object.content, d.first)

ReceivedInv ==
    /\ DOMAIN decoded = Host
    /\ \A h \in Host : decoded[h] # None => Received(decoded[h])

LinkInv == object # None => OnLink(object)
BeforeInv == before \in [Host -> BOOLEAN]
\* A driver whose parameters are read has those of a session.
ConfiguredInv ==
    /\ DOMAIN driver = Host /\ DOMAIN joined = Host
    /\ \A h \in Host : joined[h] = None => driver[h] = << >> \/ Configured(driver[h])

ArrivesIInv == ReceivedInv /\ LinkInv /\ BeforeInv /\ ConfiguredInv

LEMMA ArrivesImplied == ReceivedInv => ObjectArrives
<1> SUFFICES ASSUME ReceivedInv, NEW h \in Host, decoded[h] # None
             PROVE  /\ decoded[h].accepted = decoded[h].object.whole
                    /\ decoded[h].object.whole =>
                         /\ decoded[h].object.kind = "Capability" =>
                               decoded[h].content = decoded[h].object.content
                         /\ decoded[h].object.kind = "SessionData" =>
                               [decoded[h].content EXCEPT !.ConfigurationParameters = Plain(@, decoded[h].first)]
                                 = [decoded[h].object.content EXCEPT
                                      !.ConfigurationParameters = Plain(@, decoded[h].first)]
  BY Zenon DEF ObjectArrives
<1>1. Received(decoded[h])
  BY DEF ReceivedInv
<1>2. QED
  BY <1>1, Zenon DEF Received, Arrives

LEMMA ReceiveArrives ==
    ASSUME ArrivesIInv, NEW h \in Host, Receive(h)
    PROVE  ReceivedInv'
<1> DEFINE parsed == Parse(object.bytes)
           outcomes == CASE ~parsed.succeeded -> {}
                         [] parsed.succeeded /\ object.kind = "SessionData" ->
                               FromSessionDataObject(parsed.tlv, before[h])
                         [] parsed.succeeded /\ object.kind = "Capability" ->
                               FromOobDataObject(parsed.tlv)
           made(accepted, content) ==
               [object |-> [object EXCEPT !.bytes = << >>], first |-> ~before[h],
                accepted |-> accepted, content |-> content]
<1>1. /\ object # None
      /\ \/ \E content \in outcomes : decoded' = [decoded EXCEPT ![h] = made(TRUE, content)]
         \/ outcomes = {} /\ decoded' = [decoded EXCEPT ![h] = made(FALSE, None)]
  BY Zenon DEF Receive
<1>2. OnLink(object) /\ before[h] \in BOOLEAN
  BY <1>1 DEF ArrivesIInv, LinkInv, BeforeInv
<1>3. outcomes = OutcomesOf(object, before[h])
  BY Zenon DEF OutcomesOf
<1>4. \A accepted, content :
         /\ made(accepted, content).accepted = accepted
         /\ made(accepted, content).content = content
         /\ made(accepted, content).first = ~before[h]
         /\ made(accepted, content).object.kind = object.kind
         /\ made(accepted, content).object.whole = object.whole
         /\ made(accepted, content).object.content = object.content
  <2>1. /\ [object EXCEPT !.bytes = << >>].kind = object.kind
        /\ [object EXCEPT !.bytes = << >>].whole = object.whole
        /\ [object EXCEPT !.bytes = << >>].content = object.content
    <3>1. object = [kind |-> object.kind, from |-> object.from, ofSession |-> object.ofSession,
                    whole |-> object.whole, content |-> object.content, bytes |-> object.bytes]
      BY <1>2, Zenon DEF OnLink
    <3>2. DOMAIN object = {"kind", "from", "ofSession", "whole", "content", "bytes"}
      BY <3>1
    <3>3. QED
      BY <3>2
  <2>2. QED
    BY <2>1
<1>5. object.whole \in BOOLEAN
  BY <1>2, Zenon DEF OnLink
<1> HIDE DEF outcomes
<1>6. ASSUME NEW content \in outcomes PROVE Received(made(TRUE, content))
  <2>1. object.whole
    BY <1>2, <1>3, <1>5, PartIsRefused
  <2>2. Arrives(object.kind, content, object.content, ~before[h])
    BY <1>2, <1>3, <2>1, WholeIsAccepted
  <2> DEFINE d == made(TRUE, content)
  <2>3. /\ d.accepted = TRUE /\ d.content = content /\ d.first = ~before[h]
        /\ d.object.kind = object.kind /\ d.object.whole = object.whole
        /\ d.object.content = object.content
    BY <1>4, Zenon
  <2> HIDE DEF d
  <2>4. Received(d)
    BY <1>5, <2>1, <2>2, <2>3, Zenon DEF Received
  <2>5. QED
    BY <2>4 DEF d
<1>7. outcomes = {} => Received(made(FALSE, None))
  <2> SUFFICES ASSUME outcomes = {} PROVE Received(made(FALSE, None))
    OBVIOUS
  <2>1. object.whole = FALSE
    BY <1>2, <1>3, <1>5, WholeIsAccepted
  <2> DEFINE d == made(FALSE, None)
  <2>2. d.accepted = FALSE /\ d.object.whole = object.whole
    BY <1>4, Zenon
  <2> HIDE DEF d
  <2>3. Received(d)
    BY <2>1, <2>2, Zenon DEF Received
  <2>4. QED
    BY <2>3 DEF d
<1> HIDE DEF made
<1>8. \E d : Received(d) /\ decoded' = [decoded EXCEPT ![h] = d]
  BY <1>1, <1>6, <1>7, Zenon
<1>9. QED
  BY <1>8 DEF ReceivedInv, ArrivesIInv

LEMMA ArrivesIInvStep ==
    ASSUME ArrivesIInv, [Next]_vars
    PROVE  ArrivesIInv'
<1>1. CASE UNCHANGED vars
  BY <1>1 DEF ArrivesIInv, ReceivedInv, LinkInv, BeforeInv, ConfiguredInv, vars
<1>2. ASSUME NEW kind, NEW i, Pass(kind, i) PROVE ArrivesIInv'
  BY <1>2 DEF ArrivesIInv, ReceivedInv, LinkInv, BeforeInv, ConfiguredInv, Pass
<1>3. ASSUME NEW h \in Host, NEW id \in SessionIds, NEW i \in DOMAIN Configurations,
             Configure(h, id, i)
      PROVE  ArrivesIInv'
  <2> DEFINE t == Transfer("SetParameters", [SessionId |-> id, Parameters |-> Configurations[i]])
             held == AfterSet(<< >>, t)
  <2>1. /\ driver[h] = << >> /\ driver' = [driver EXCEPT ![h] = AfterSet(@, t)]
        /\ UNCHANGED <<object, decoded, before, joined>>
    BY <1>3 DEF Configure
  <2>2. driver' = [driver EXCEPT ![h] = held]
    BY <2>1
  <2>3. Configured(held)
    BY ConfigurationsAssumption, AfterSetIsConfigured
  <2> HIDE DEF held, t
  <2>4. ConfiguredInv'
    BY <2>1, <2>2, <2>3 DEF ArrivesIInv, ConfiguredInv
  <2>5. QED
    BY <2>1, <2>4 DEF ArrivesIInv, ReceivedInv, LinkInv, BeforeInv
<1>4. ASSUME NEW h \in Host, NEW id \in SessionIds, GetOobDataObject(h, id) PROVE ArrivesIInv'
  <2> DEFINE r == ByType(ReadBack(h).received)
  <2>1. /\ driver[h] # << >> /\ joined[h] = None /\ UNCHANGED <<driver, decoded, before, joined>>
        /\ transfer' = ReadBack(h)
        /\ \E data \in GetUwbSessionData(ByType(transfer'.received)) :
             LET named == [data EXCEPT !.SessionId = id] IN
             object' = Object("SessionData", h, TRUE, named, ToSessionDataObject(named))
    BY <1>4, Zenon DEF GetOobDataObject
  <2>2. PICK data \in GetUwbSessionData(r) :
          LET named == [data EXCEPT !.SessionId = id] IN
          object' = Object("SessionData", h, TRUE, named, ToSessionDataObject(named))
    BY <2>1, Zenon
  <2>3. Configured(driver[h])
    BY <2>1 DEF ArrivesIInv, ConfiguredInv
  <2>4. ReadOf(r)
    BY <2>3, ReadBackIs DEF ReadBack
  <2> HIDE DEF r
  <2> DEFINE named == [data EXCEPT !.SessionId = id]
  <2>5. WithinBytes(id, 4)
    BY SessionIdsAssumption
  <2>6. IsSessionData(named, Int)
    BY <2>4, <2>5, DataOfIs
  <2>7. object' = Object("SessionData", h, TRUE, named, ToSessionDataObject(named))
    BY <2>2, Zenon
  <2> HIDE DEF named
  <2>8. StandsFor("SessionData", named, ToSessionDataObject(named))
    BY <2>6, Zenon DEF StandsFor
  <2>9. OnLink(object')
    BY <2>7, <2>8, ObjectOnLink
  <2>10. QED
    BY <2>1, <2>9 DEF ArrivesIInv, ReceivedInv, LinkInv, BeforeInv, ConfiguredInv
<1>5. ASSUME NEW h \in Host, NEW i \in DOMAIN SessionData, SendSessionData(h, i) PROVE ArrivesIInv'
  <2>1. /\ object' = Object("SessionData", h, FALSE, SessionData[i],
                            ToSessionDataObject(SessionData[i]))
        /\ UNCHANGED <<driver, decoded, before, joined>>
    BY <1>5 DEF SendSessionData
  <2>2. IsSessionData(SessionData[i], Int)
    BY SessionDataAssumption, ByteDataIsData
  <2>3. StandsFor("SessionData", SessionData[i], ToSessionDataObject(SessionData[i]))
    BY <2>2, Zenon DEF StandsFor
  <2>4. OnLink(object')
    BY <2>1, <2>3, ObjectOnLink
  <2>5. QED
    BY <2>1, <2>4 DEF ArrivesIInv, ReceivedInv, LinkInv, BeforeInv, ConfiguredInv
<1>6. ASSUME NEW h \in Host, NEW i \in DOMAIN Capabilities, SendCapabilities(h, i) PROVE ArrivesIInv'
  <2>1. /\ \E c \in ToCapabilities(Capabilities[i]) :
             object' = Object("Capability", h, FALSE, c, ToOobDataObject(c))
        /\ UNCHANGED <<driver, decoded, before, joined>>
    BY <1>6 DEF SendCapabilities
  <2>2. PICK c \in ToCapabilities(Capabilities[i]) :
             object' = Object("Capability", h, FALSE, c, ToOobDataObject(c))
    BY <2>1
  <2>3. IsCapability(c)
    BY CapabilitiesAssumption, ReportIsCapability
  <2>4. StandsFor("Capability", c, ToOobDataObject(c))
    BY <2>3, Zenon DEF StandsFor
  <2>5. OnLink(object')
    BY <2>2, <2>4, ObjectOnLink
  <2>6. QED
    BY <2>1, <2>5 DEF ArrivesIInv, ReceivedInv, LinkInv, BeforeInv, ConfiguredInv
<1>7. ASSUME NEW h \in Host, Receive(h) PROVE ArrivesIInv'
  <2>1. ReceivedInv'
    BY <1>7, ReceiveArrives
  <2>2. object' = None /\ UNCHANGED <<driver, joined>>
    BY <1>7, Zenon DEF Receive
  <2>3. \E b : before' = [before EXCEPT ![h] = @ \/ b]
    BY <1>7, Zenon DEF Receive
  <2>4. BeforeInv'
    BY <2>3 DEF ArrivesIInv, BeforeInv
  <2>5. QED
    BY <2>1, <2>2, <2>4 DEF ArrivesIInv, LinkInv, ConfiguredInv
<1>8. ASSUME NEW h \in Host, Join(h) PROVE ArrivesIInv'
  <2>1. /\ decoded[h] # None
        /\ \E t : driver' = [driver EXCEPT ![h] = AfterSet(@, t)]
        /\ joined' = [joined EXCEPT ![h] = decoded[h]]
        /\ UNCHANGED <<object, decoded, before>>
    BY <1>8 DEF Join
  <2>2. PICK t : driver' = [driver EXCEPT ![h] = AfterSet(@, t)]
    BY <2>1
  <2>3. ConfiguredInv'
    BY <2>1, <2>2 DEF ArrivesIInv, ConfiguredInv
  <2>4. QED
    BY <2>1, <2>3 DEF ArrivesIInv, ReceivedInv, LinkInv, BeforeInv
<1>9. ASSUME NEW n \in Ends, EndEarly(n) PROVE ArrivesIInv'
  <2>1. /\ object # None /\ object.whole /\ n < Len(object.bytes)
        /\ object' = [object EXCEPT !.bytes = SubSeq(@, 1, n), !.whole = FALSE, !.content = None]
        /\ UNCHANGED <<driver, decoded, before, joined>>
    BY <1>9 DEF EndEarly
  <2>2. n \in Nat
    BY EndsAssumption
  <2>3. OnLink(object)
    BY <2>1 DEF ArrivesIInv, LinkInv
  <2>4. OnLink([object EXCEPT !.bytes = SubSeq(@, 1, n), !.whole = FALSE, !.content = None])
    BY <2>1, <2>2, <2>3, EarlyEnd
  <2>5. OnLink(object')
    BY <2>1, <2>4, Zenon
  <2>6. QED
    BY <2>1, <2>5 DEF ArrivesIInv, ReceivedInv, LinkInv, BeforeInv, ConfiguredInv
<1>10. QED
  BY <1>1, <1>2, <1>3, <1>4, <1>5, <1>6, <1>7, <1>8, <1>9, Zenon DEF Next

\* An object that ended early is refused; one of which all bytes are there is accepted,
\* and what is made of it is what was put into it, whatever the application sends and
\* the drivers report.
THEOREM ObjectsArrive == Spec => []ObjectArrives
<1>1. Init => ArrivesIInv
  <2>1. Init => /\ ReceivedInv /\ LinkInv
    BY DEF Init, ReceivedInv, LinkInv
  <2>2. Init => BeforeInv
    BY DEF Init, BeforeInv
  <2>3. Init => ConfiguredInv
    BY DEF Init, ConfiguredInv
  <2>4. QED
    BY <2>1, <2>2, <2>3 DEF ArrivesIInv
<1>2. ArrivesIInv /\ [Next]_vars => ArrivesIInv'
  BY ArrivesIInvStep
<1>3. ArrivesIInv => ObjectArrives
  BY ArrivesImplied DEF ArrivesIInv
<1>4. QED
  BY <1>1, <1>2, <1>3, PTL DEF Spec

-----------------------------------------------------------------------------
(* What a host has of the other one's configuration.                       *)

\* All of it is as it was sent, except for the integers of several bytes, which are
\* numbers; what is certain to arrive is there.
HeardOf(r, c, first) ==
    /\ DOMAIN r \subseteq DOMAIN c \ {"RangingMethod"}
    /\ \A t \in DOMAIN r : t \notin Lost => r[t] = c[t]
    /\ \A t \in DOMAIN r : t \in Integers16 \cup Integers32 => r[t] \in Int
    /\ \A t \in DOMAIN c : Certain(t, c[t], first) => t \in DOMAIN r

LEMMA SwappedNumber ==
    ASSUME NEW n \in {2, 4}, NEW x, WithinBytes(x, n)
    PROVE  FromLittleEndian(GetBytesBigEndianFromBitMap(x, n)) \in Int
<1> DEFINE v == GetBytesBigEndianFromBitMap(x, n)
<1>1. v \in Seq(Int) /\ Len(v) = n
  BY NumberBytes
<1> HIDE DEF v
<1>2. CASE n = 2
  <2>1. v \in [1 .. 2 -> Int]
    BY <1>1, <1>2
  <2>2. v[1] \in Int /\ v[2] \in Int
    BY <2>1
  <2>3. FromLittleEndian(v) = v[1] + 256 * v[2]
    BY <2>1, FromLittleEndianIs
  <2>4. QED
    BY <2>2, <2>3 DEF v
<1>3. CASE n = 4
  <2>1. v \in [1 .. 4 -> Int]
    <3>1. v \in [1 .. Len(v) -> Int]
      BY <1>1
    <3>2. QED
      BY <1>1, <1>3, <3>1
  <2>2. v[1] \in Int /\ v[2] \in Int /\ v[3] \in Int /\ v[4] \in Int
    BY <2>1
  <2>3. FromLittleEndian(v) = v[1] + 256 * v[2] + 65536 * v[3] + (256 * 65536) * v[4]
    BY <2>1, FromLittleEndianIs
  <2>4. QED
    BY <2>2, <2>3 DEF v
<1>4. QED
  BY <1>2, <1>3

LEMMA DecodedNumber ==
    ASSUME NEW t \in Integers16 \cup Integers32, NEW value, IsValue(t, value, Int)
    PROVE  DecodedValue(t, ConfigurationValue(t, value)) \in Int
<1> DEFINE n == IF t \in Integers16 THEN 2 ELSE 4
<1>1. /\ t # "RangingMethod" /\ t \notin Addresses /\ t # "ResultReportConfig"
      /\ t \notin Booleans
      /\ t # "ControleeShortMacAddress" /\ t # "ControllerMacAddress"
      /\ t \in Integers32 => t \notin Integers16
  BY DEF Addresses, Integers16, Integers32, Booleans
<1>2. ConfigurationValue(t, value) = GetBytesBigEndianFromBitMap(value, n)
  <2>1. CASE t \in Integers16
    <3>1. ConfigurationValue(t, value) = GetBytesBigEndianFromBitMap(value, 2)
      BY <1>1, <2>1, Zenon DEF ConfigurationValue
    <3>2. QED
      BY <2>1, <3>1
  <2>2. CASE t \notin Integers16
    <3>1. ConfigurationValue(t, value) = GetBytesBigEndianFromBitMap(value, 4)
      BY <1>1, <2>2, Zenon DEF ConfigurationValue
    <3>2. QED
      BY <2>2, <3>1
  <2>3. QED
    BY <2>1, <2>2
<1>3. n \in {2, 4} /\ WithinBytes(value, n)
  <2>1. t \in Integers16 => WithinBytes(value, 2)
    BY DEF IsValue
  <2>2. t \in Integers32 => WithinBytes(value, 4)
    BY DEF IsValue
  <2>3. QED
    BY <2>1, <2>2
<1> HIDE DEF n
<1>4. DecodedValue(t, ConfigurationValue(t, value)) = FromLittleEndian(ConfigurationValue(t, value))
  BY <1>1, Zenon DEF DecodedValue
<1>5. QED
  BY <1>2, <1>3, <1>4, SwappedNumber

LEMMA ConfigurationHeard ==
    ASSUME NEW c, IsConfiguration(c, Int), NEW b \in BOOLEAN,
           NEW r \in FromConfigurationObject(ToConfigurationObject(c), b)
    PROVE  HeardOf(r, c, ~b)
<1>1. PICK tags : /\ DecodedFrom(r, c, tags)
                  /\ \/ tags = AcceptedTags(c)
                     \/ b /\ tags = AcceptedTags(c) \ (Integers8 \cup Integers16)
  BY ConfigurationDecoded, Zenon
<1>2. \A t \in tags : t \in DOMAIN c /\ t # "RangingMethod"
  BY <1>1 DEF DecodedFrom, AcceptedTags
<1>3. \A t \in DOMAIN c : ValueArrives(t, c[t])
  BY ValueBytesAre, Zenon
<1>4. \A t \in tags : t \notin Lost => r[t] = c[t]
  BY <1>1, <1>2, <1>3, Zenon DEF ValueArrives, DecodedFrom
<1>5. DOMAIN r = tags
  BY <1>1 DEF DecodedFrom
<1>6. ASSUME NEW t \in tags, t \in Integers16 \cup Integers32 PROVE r[t] \in Int
  <2>1. r[t] = DecodedValue(t, ConfigurationValue(t, c[t]))
    BY <1>1 DEF DecodedFrom
  <2>2. IsValue(t, c[t], Int)
    BY <1>2 DEF IsConfiguration
  <2>3. QED
    BY <1>6, <2>1, <2>2, DecodedNumber
<1>7. ASSUME NEW t \in DOMAIN c, Certain(t, c[t], ~b) PROVE t \in tags
  <2>1. /\ t \notin Lost /\ (b => t \notin Integers8) /\ (t = "ResultReportConfig" => c[t] # {})
    BY <1>7, Zenon DEF Certain
  <2>2. t # "RangingMethod" /\ t \notin Integers16
    BY <2>1 DEF Lost
  <2>3. t \in AcceptedTags(c)
    BY <2>1, <2>2, Zenon DEF AcceptedTags
  <2>4. QED
    BY <1>1, <2>1, <2>2, <2>3
<1>8. QED
  BY <1>2, <1>4, <1>5, <1>6, <1>7, Zenon DEF HeardOf

\* What is made of a whole object of session data.
LEMMA ObjectHeard ==
    ASSUME NEW o, OnLink(o), o.whole, o.kind = "SessionData", NEW b \in BOOLEAN,
           NEW got \in OutcomesOf(o, b)
    PROVE  /\ HeardOf(got.ConfigurationParameters, o.content.ConfigurationParameters, ~b)
           /\ IsConfiguration(o.content.ConfigurationParameters, Int)
<1>1. PICK tlv : StandsFor(o.kind, o.content, tlv) /\ o.bytes = ToBytes(tlv)
  BY Zenon DEF OnLink
<1>2. IsSessionData(o.content, Int) /\ tlv = ToSessionDataObject(o.content)
  BY <1>1 DEF StandsFor
<1>3. Parse(o.bytes) = Succeeded(Len(o.bytes), tlv)
  BY <1>1, ObjectIsTree, ObjectsReturn, Zenon
<1>4. Parse(o.bytes).succeeded /\ Parse(o.bytes).tlv = tlv
  BY <1>3 DEF Succeeded
<1>5. o.kind # "Capability"
  OBVIOUS
<1>6. OutcomesOf(o, b) = FromSessionDataObject(tlv, b)
  BY <1>4, <1>5, Zenon DEF OutcomesOf
<1> DEFINE d == o.content
           c == d.ConfigurationParameters
<1>7. OutcomesOf(o, b) = {WithConfiguration(d, r) : r \in FromConfigurationObject(ToConfigurationObject(c), b)}
  BY <1>2, <1>6, SessionDataDecoded, Zenon
<1> HIDE DEF d
<1>8. PICK r \in FromConfigurationObject(ToConfigurationObject(c), b) : got = WithConfiguration(d, r)
  BY <1>7
<1>9. got.ConfigurationParameters = r
  BY <1>8 DEF WithConfiguration
<1>10. IsConfiguration(c, Int)
  BY <1>2, Zenon DEF IsSessionData, d
<1>11. HeardOf(r, c, ~b)
  BY <1>8, <1>10, ConfigurationHeard
<1>12. QED
  BY <1>9, <1>10, <1>11 DEF d

-----------------------------------------------------------------------------
(* What a driver is configured with, of what was heard.                    *)

OtherTypes ==
    {"DeviceType", "PrfMode", "ResultReportConfig", "HoppingMode", "RangingRoundUsage",
     "DeviceMacAddress", "DestinationMacAddresses"}

\* The parameters that are not one of the configuration's values, by their sources.
OthersAre(uci, c) ==
    /\ DOMAIN uci \subseteq DOMAIN Corresponding \cup OtherTypes
    /\ uci["DeviceType"] = DeviceType.Controlee
    /\ uci["PrfMode"] \in {PrfModeDetailed.Bprf62MHz, PrfModeDetailed.Hprf124MHz}
    /\ "ResultReportConfig" \in DOMAIN uci
    /\ uci["ResultReportConfig"] =
         IF "ResultReportConfig" \in DOMAIN c THEN c["ResultReportConfig"] ELSE {}
    /\ "HoppingMode" \in DOMAIN uci =>
         "HoppingMode" \in DOMAIN c /\ uci["HoppingMode"] = c["HoppingMode"]
    /\ "RangingRoundUsage" \in DOMAIN uci => "RangingMethod" \in DOMAIN c
    /\ "DeviceMacAddress" \in DOMAIN uci =>
         /\ "ControleeShortMacAddress" \in DOMAIN c
         /\ uci["DeviceMacAddress"] = c["ControleeShortMacAddress"]
    /\ "DestinationMacAddresses" \in DOMAIN uci =>
         /\ "ControllerMacAddress" \in DOMAIN c
         /\ uci["DestinationMacAddresses"] = c["ControllerMacAddress"]

DirectAre(uci, c) ==
    \A t \in DOMAIN Corresponding :
        /\ t \in DOMAIN uci <=> Corresponding[t] \in DOMAIN c
        /\ t \in DOMAIN uci => uci[t] = c[Corresponding[t]]

LEMMA DeviceTypeNumbers ==
    Numbered(DeviceType, 0, 1) /\ DOMAIN DeviceType = {"Controlee", "Controller"}
<1> DEFINE names == <<"Controlee", "Controller">>
<1>1. AsMany(names, 0, 1)
  BY DEF AsMany
<1>2. Range(names) = {"Controlee", "Controller"}
  BY DEF Range
<1> HIDE DEF names
<1>3. Numbered(Enumeration(names, 0), 0, 1) /\ DOMAIN Enumeration(names, 0) = {"Controlee", "Controller"}
  BY <1>1, <1>2, NumberedNames
<1>4. QED
  BY <1>3 DEF DeviceType, names

LEMMA PrfModeNumbers ==
    /\ Numbered(PrfModeDetailed, 0, 2)
    /\ DOMAIN PrfModeDetailed = {"Bprf62MHz", "Hprf124MHz", "Hprf249MHz"}
<1> DEFINE names == <<"Bprf62MHz", "Hprf124MHz", "Hprf249MHz">>
           S == {"Bprf62MHz", "Hprf124MHz", "Hprf249MHz"}
<1>1. AsMany(names, 0, 2)
  BY DEF AsMany
<1>2. Range(names) = S
  BY DEF Range
<1> HIDE DEF names
<1>3. Numbered(Enumeration(names, 0), 0, 2) /\ DOMAIN Enumeration(names, 0) = S
  BY <1>1, <1>2, NumberedNames
<1>4. QED
  BY <1>3 DEF PrfModeDetailed, names

LEMMA UciAre ==
    ASSUME NEW c
    PROVE  LET uci == UciValues(c, DeviceType.Controlee) IN
           DOMAIN uci \subseteq ParameterType /\ OthersAre(uci, c) /\ DirectAre(uci, c)
<1> DEFINE has(t) == t \in DOMAIN c
           controlee == has("MacAddressMode") /\ has("ControleeShortMacAddress")
                        /\ c["MacAddressMode"] = UwbMacAddressType.Short
           controller == has("MacAddressMode") /\ has("ControllerMacAddress")
           own == IF DeviceType.Controlee = DeviceType.Controller THEN "ControllerMacAddress"
                  ELSE "ControleeShortMacAddress"
           others == IF DeviceType.Controlee = DeviceType.Controller THEN "ControleeShortMacAddress"
                     ELSE "ControllerMacAddress"
           available(t) == IF t = "ControllerMacAddress" THEN controller ELSE controlee
           generated(t) ==
               CASE t \in DOMAIN Corresponding -> has(Corresponding[t])
                 [] t \in {"DeviceType", "PrfMode", "ResultReportConfig"} -> TRUE
                 [] t = "HoppingMode" -> has("HoppingMode")
                 [] t = "RangingRoundUsage" ->
                       has("RangingMethod") /\ c["RangingMethod"] # RangingRoundUsage.Rfu
                 [] t = "DeviceMacAddress" -> available(own)
                 [] t = "DestinationMacAddresses" -> available(others)
                 [] OTHER -> FALSE
           value(t) ==
               CASE t \in DOMAIN Corresponding -> c[Corresponding[t]]
                 [] t = "DeviceType" -> DeviceType.Controlee
                 [] t = "PrfMode" ->
                       IF has("PrfMode") /\ c["PrfMode"] = PrfMode.Bprf
                       THEN PrfModeDetailed.Bprf62MHz ELSE PrfModeDetailed.Hprf124MHz
                 [] t = "ResultReportConfig" ->
                       IF has("ResultReportConfig") THEN c["ResultReportConfig"] ELSE {}
                 [] t = "HoppingMode" -> c["HoppingMode"]
                 [] t = "RangingRoundUsage" -> c["RangingMethod"]
                 [] t = "DeviceMacAddress" -> c[own]
                 [] t = "DestinationMacAddresses" -> c[others]
           uci == UciValues(c, DeviceType.Controlee)
<1>1. uci = [t \in {u \in ParameterType : generated(u)} |-> value(t)]
  BY Zenon DEF UciValues
<1>2. DeviceType.Controlee # DeviceType.Controller
  <2>1. "Controlee" # "Controller"
    OBVIOUS
  <2>2. QED
    BY <2>1, DeviceTypeNumbers DEF Numbered, IsInjective
<1>3. own = "ControleeShortMacAddress" /\ others = "ControllerMacAddress"
  BY <1>2
<1> HIDE DEF own, others
<1>4. OtherTypes \cap DOMAIN Corresponding = {}
  BY CorrespondingTypes DEF OtherTypes, DirectTypes, DirectEnumerations, Direct8, Direct16, Direct32
<1>5. OtherTypes \subseteq ParameterType /\ DOMAIN Corresponding \subseteq ParameterType
  BY CorrespondingTypes, ParameterTypeNumbers
     DEF OtherTypes, DirectTypes, DirectEnumerations, Direct8, Direct16, Direct32, ParameterType
<1>6. ASSUME NEW t \in DOMAIN Corresponding
      PROVE  (generated(t) <=> has(Corresponding[t])) /\ value(t) = c[Corresponding[t]]
  <2>1. /\ t # "DeviceType" /\ t # "PrfMode" /\ t # "ResultReportConfig" /\ t # "HoppingMode"
        /\ t # "RangingRoundUsage" /\ t # "DeviceMacAddress" /\ t # "DestinationMacAddresses"
    BY <1>4 DEF OtherTypes
  <2>2. generated(t) <=> has(Corresponding[t])
    BY <2>1, Zenon
  <2>3. value(t) = c[Corresponding[t]]
    BY <2>1, Zenon
  <2>4. QED
    BY <2>2, <2>3
<1>7. ASSUME NEW t, t \notin DOMAIN Corresponding, t \notin OtherTypes PROVE ~generated(t)
  <2>1. /\ t # "DeviceType" /\ t # "PrfMode" /\ t # "ResultReportConfig" /\ t # "HoppingMode"
        /\ t # "RangingRoundUsage" /\ t # "DeviceMacAddress" /\ t # "DestinationMacAddresses"
    BY <1>7 DEF OtherTypes
  <2>2. t \notin {"DeviceType", "PrfMode", "ResultReportConfig"}
    BY <2>1
  <2>3. QED
    BY <1>7, <2>1, <2>2, Zenon
<1>8. \A t \in OtherTypes : t \notin DOMAIN Corresponding
  BY <1>4
<1>9. value("DeviceType") = DeviceType.Controlee
  <2>1. "DeviceType" \notin DOMAIN Corresponding
    BY <1>8 DEF OtherTypes
  <2>2. QED
    BY <2>1, Zenon
<1>10. value("PrfMode") \in {PrfModeDetailed.Bprf62MHz, PrfModeDetailed.Hprf124MHz}
  <2>1. "PrfMode" \notin DOMAIN Corresponding
    BY <1>8 DEF OtherTypes
  <2>2. value("PrfMode") = IF has("PrfMode") /\ c["PrfMode"] = PrfMode.Bprf
                           THEN PrfModeDetailed.Bprf62MHz ELSE PrfModeDetailed.Hprf124MHz
    BY <2>1, Zenon
  <2> HIDE DEF value
  <2>3. QED
    BY <2>2, Zenon
<1>11. value("ResultReportConfig") = IF has("ResultReportConfig") THEN c["ResultReportConfig"] ELSE {}
  <2>1. "ResultReportConfig" \notin DOMAIN Corresponding
    BY <1>8 DEF OtherTypes
  <2>2. QED
    BY <2>1, Zenon
<1>12. generated("DeviceType") /\ generated("PrfMode") /\ generated("ResultReportConfig")
  <2>1. /\ "DeviceType" \notin DOMAIN Corresponding /\ "PrfMode" \notin DOMAIN Corresponding
        /\ "ResultReportConfig" \notin DOMAIN Corresponding
    BY <1>8 DEF OtherTypes
  <2>2. QED
    BY <2>1, Zenon
<1>13. /\ generated("HoppingMode") => has("HoppingMode")
       /\ value("HoppingMode") = c["HoppingMode"]
  <2>1. "HoppingMode" \notin DOMAIN Corresponding
    BY <1>8 DEF OtherTypes
  <2>2. QED
    BY <2>1, Zenon
<1>14. generated("RangingRoundUsage") => has("RangingMethod")
  <2>1. "RangingRoundUsage" \notin DOMAIN Corresponding
    BY <1>8 DEF OtherTypes
  <2>2. QED
    BY <2>1, Zenon
<1>15. /\ generated("DeviceMacAddress") => has("ControleeShortMacAddress")
       /\ value("DeviceMacAddress") = c["ControleeShortMacAddress"]
  <2>1. "DeviceMacAddress" \notin DOMAIN Corresponding
    BY <1>8 DEF OtherTypes
  <2>2. available(own) => has("ControleeShortMacAddress")
    BY <1>3
  <2> HIDE DEF available
  <2>3. generated("DeviceMacAddress") => available(own)
    BY <2>1, Zenon
  <2>4. value("DeviceMacAddress") = c[own]
    BY <2>1, Zenon
  <2> HIDE DEF generated, value
  <2>5. QED
    BY <1>3, <2>2, <2>3, <2>4
<1>16. /\ generated("DestinationMacAddresses") => has("ControllerMacAddress")
       /\ value("DestinationMacAddresses") = c["ControllerMacAddress"]
  <2>1. "DestinationMacAddresses" \notin DOMAIN Corresponding
    BY <1>8 DEF OtherTypes
  <2>2. available(others) => has("ControllerMacAddress")
    BY <1>3
  <2> HIDE DEF available
  <2>3. generated("DestinationMacAddresses") => available(others)
    BY <2>1, Zenon
  <2>4. value("DestinationMacAddresses") = c[others]
    BY <2>1, Zenon
  <2> HIDE DEF generated, value
  <2>5. QED
    BY <1>3, <2>2, <2>3, <2>4
<1> HIDE DEF generated, value, uci
<1>17. /\ DOMAIN uci \subseteq ParameterType
       /\ \A t : t \in DOMAIN uci <=> t \in ParameterType /\ generated(t)
       /\ \A t \in DOMAIN uci : uci[t] = value(t)
  BY <1>1
<1>18. OthersAre(uci, c)
  <2>1. DOMAIN uci \subseteq DOMAIN Corresponding \cup OtherTypes
    BY <1>7, <1>17
  <2>2. "DeviceType" \in DOMAIN uci /\ "PrfMode" \in DOMAIN uci /\ "ResultReportConfig" \in DOMAIN uci
    BY <1>5, <1>12, <1>17 DEF OtherTypes
  <2>3. uci["DeviceType"] = DeviceType.Controlee
    BY <1>9, <1>17, <2>2
  <2>4. uci["PrfMode"] \in {PrfModeDetailed.Bprf62MHz, PrfModeDetailed.Hprf124MHz}
    BY <1>10, <1>17, <2>2
  <2>5. uci["ResultReportConfig"] =
         IF "ResultReportConfig" \in DOMAIN c THEN c["ResultReportConfig"] ELSE {}
    BY <1>11, <1>17, <2>2
  <2>6. QED
    BY <1>13, <1>14, <1>15, <1>16, <1>17, <2>1, <2>2, <2>3, <2>4, <2>5 DEF OthersAre
<1>19. DirectAre(uci, c)
  BY <1>5, <1>6, <1>17 DEF DirectAre
<1>20. QED
  BY <1>17, <1>18, <1>19 DEF uci

-----------------------------------------------------------------------------
\* The bytes of any number.
LEMMA LittleEndianInts ==
    ASSUME NEW n \in {1, 2, 4}, NEW x \in Int
    PROVE  LittleEndian(x, n) \in Seq(Int) /\ Len(LittleEndian(x, n)) = n
<1> DEFINE b == LittleEndian(x, n)
<1>1. b = [i \in 1 .. n |-> (x \div 256 ^ (i - 1)) % 256]
  BY DEF LittleEndian
<1> HIDE DEF b
<1>2. ASSUME NEW i \in 1 .. n PROVE b[i] \in Int
  <2>1. b[i] = (x \div 256 ^ (i - 1)) % 256
    BY <1>1
  <2>2. i = 1 \/ i = 2 \/ i = 3 \/ i = 4
    OBVIOUS
  <2>3. \/ 256 ^ (i - 1) = 1 \/ 256 ^ (i - 1) = 256 \/ 256 ^ (i - 1) = 65536
        \/ 256 ^ (i - 1) = 256 * 65536
    <3>1. i = 1 => 256 ^ (i - 1) = 1
      BY Powers
    <3>2. i = 2 => 256 ^ (i - 1) = 256
      BY Powers
    <3>3. i = 3 => 256 ^ (i - 1) = 65536
      BY Powers
    <3>4. i = 4 => 256 ^ (i - 1) = 256 * 65536
      BY Powers
    <3>5. QED
      BY ONLY <2>2, <3>1, <3>2, <3>3, <3>4
  <2>4. (x \div 256 ^ (i - 1)) % 256 \in Int
    BY <2>3
  <2>5. QED
    BY <2>1, <2>4
<1>3. b \in [1 .. n -> Int] /\ n \in Nat
  BY <1>1, <1>2
<1>4. QED
  BY <1>3, BytesOfLength DEF b

LEMMA ShortIsWritable ==
    ASSUME NEW p, p.Type \in ParameterType, ParamValue(p) \in Seq(Int), Len(ParamValue(p)) \in 0 .. 8
    PROVE  Writable(p)
<1> DEFINE length == Len(ParamValue(p))
<1>1. length \in 0 .. 8
  OBVIOUS
<1> HIDE DEF length
<1>2. WithinBytes(12 + length, 4)
  BY <1>1 DEF WithinBytes
<1>3. QED
  BY <1>2 DEF Writable, length

\* The number that a parameter is given of a configuration that was heard.
LEMMA HeardNumber ==
    ASSUME NEW c, IsConfiguration(c, Int), NEW r, NEW first, HeardOf(r, c, first),
           NEW tag \in DOMAIN r, tag \notin Addresses, tag # "ResultReportConfig"
    PROVE  r[tag] \in Int
<1>1. tag \in DOMAIN c /\ tag # "RangingMethod"
  BY DEF HeardOf
<1>2. tag \in DOMAIN ConfigurationTag /\ IsValue(tag, c[tag], Int)
  BY <1>1 DEF IsConfiguration
<1>3. \/ tag \in DOMAIN ConfigurationEnumeration
      \/ tag \in Booleans \cup Integers8
      \/ tag \in Integers16 \cup Integers32
  BY <1>1, <1>2, ConfigurationTagNumbers
     DEF ConfigurationEnumeration, Addresses, Integers8, Integers16, Integers32, Booleans
<1>4. CASE tag \in Integers16 \cup Integers32
  BY <1>4 DEF HeardOf
<1>5. CASE tag \notin Integers16 \cup Integers32
  <2>1. tag \notin Lost
    BY <1>1, <1>5 DEF Lost
  <2>2. r[tag] = c[tag]
    BY <2>1 DEF HeardOf
  <2>3. CASE tag \in DOMAIN ConfigurationEnumeration
    <3>1. c[tag] \in Range(ConfigurationEnumeration[tag])
      BY <1>2, <2>3 DEF IsValue
    <3>2. c[tag] \in 0 .. 255
      BY <2>3, <3>1, ConfigurationNumbers
    <3>3. QED
      BY <2>2, <3>2
  <2>4. CASE tag \in Booleans
    BY <1>2, <2>2, <2>4 DEF IsValue
  <2>5. CASE tag \in Integers8
    <3>1. c[tag] \in Byte
      BY <1>2, <2>5, Zenon DEF IsValue
    <3>2. QED
      BY <2>2, <3>1 DEF Byte
  <2>6. QED
    BY <1>3, <1>5, <2>3, <2>4, <2>5
<1>6. QED
  BY <1>4, <1>5

LEMMA GivenKinds ==
    /\ \A t \in DOMAIN Corresponding \cup {"DeviceType", "PrfMode", "HoppingMode"} :
         KindOf(t) \notin {"addresses", "address", "vector", "reports"}
    /\ KindOf("DeviceMacAddress") = "address" /\ KindOf("ResultReportConfig") = "reports"
<1>1. KindOf("MacAddressMode") = "enum"
  BY ParameterTypeNumbers, Zenon DEF KindOf, UwbApplicationConfigurationParameterValue, ParameterType
<1>2. KindOf("DeviceType") = "enum"
  BY ParameterTypeNumbers, Zenon DEF KindOf, UwbApplicationConfigurationParameterValue, ParameterType
<1>3. KindOf("PrfMode") = "enum"
  BY ParameterTypeNumbers, Zenon DEF KindOf, UwbApplicationConfigurationParameterValue, ParameterType
<1>4. KindOf("HoppingMode") \notin {"addresses", "address", "vector", "reports"}
  BY ParameterTypeNumbers DEF KindOf, UwbApplicationConfigurationParameterValue, ParameterType
<1>5. \A t \in DirectTypes : KindOf(t) \notin {"addresses", "address", "vector", "reports"}
  BY DirectKinds DEF DirectTypes
<1>6. QED
  BY <1>1, <1>2, <1>3, <1>4, <1>5, DirectKinds, CorrespondingTypes

\* The parameter of a type.
GivenOf(t, value) ==
    [Type |-> t,
     Alternative |-> IF t = "RangingInterval" THEN "uint16"
                     ELSE IF t = "DestinationMacAddresses" THEN "address" ELSE KindOf(t),
     Value |-> value]

LEMMA GivenIs ==
    ASSUME NEW c
    PROVE  LET values == GetUciConfigParams(c, DeviceType.Controlee)
               uci == UciValues(c, DeviceType.Controlee)
           IN  DOMAIN values = DOMAIN uci /\ \A t \in DOMAIN uci : values[t] = GivenOf(t, uci[t])
<1> DEFINE uci == UciValues(c, DeviceType.Controlee)
           values == GetUciConfigParams(c, DeviceType.Controlee)
<1>1. DOMAIN values = DOMAIN uci
  BY DEF GetUciConfigParams
<1>2. ASSUME NEW t \in DOMAIN uci PROVE values[t] = GivenOf(t, uci[t])
  <2> DEFINE kind == KindOf(t)
             value == uci[t]
             alternative == CASE t = "RangingInterval" -> "uint16"
                              [] t = "DestinationMacAddresses" -> "address"
                              [] OTHER -> kind
  <2>1. values[t] = [Parameter(t, value) EXCEPT
              !.Alternative = CASE t = "RangingInterval" -> "uint16"
                                [] t = "DestinationMacAddresses" -> "address"
                                [] OTHER -> @]
    BY Zenon DEF GetUciConfigParams
  <2> HIDE DEF value
  <2>2. values[t] = [Type |-> t, Alternative |-> alternative, Value |-> value]
    BY <2>1 DEF Parameter, KindOf
  <2>3. alternative = IF t = "RangingInterval" THEN "uint16"
                      ELSE IF t = "DestinationMacAddresses" THEN "address" ELSE kind
    BY DEF alternative
  <2> HIDE DEF kind, alternative
  <2>4. QED
    BY <2>2, <2>3 DEF GivenOf, kind, value
<1>3. QED
  BY <1>1, <1>2

-----------------------------------------------------------------------------
\* Whatever was heard can be written to the driver's structures.
LEMMA GivenIsWritable ==
    ASSUME NEW c, IsConfiguration(c, Int), NEW r, NEW first, HeardOf(r, c, first)
    PROVE  LET values == GetUciConfigParams(r, DeviceType.Controlee) IN
           /\ DOMAIN values \subseteq ParameterType
           /\ \A t \in DOMAIN values : values[t].Type = t /\ Writable(values[t])
<1> DEFINE values == GetUciConfigParams(r, DeviceType.Controlee)
           uci == UciValues(r, DeviceType.Controlee)
<1>1. DOMAIN uci \subseteq ParameterType /\ OthersAre(uci, r) /\ DirectAre(uci, r)
  BY UciAre
<1>2. DOMAIN values = DOMAIN uci /\ \A t \in DOMAIN uci : values[t] = GivenOf(t, uci[t])
  BY GivenIs
<1> HIDE DEF values, uci
<1>3. \A a \in Addresses \cap DOMAIN r : r[a] \in [1 .. 2 -> Int] \cup [1 .. 8 -> Int]
  <2> TAKE a \in Addresses \cap DOMAIN r
  <2>1. a \in DOMAIN c /\ a \notin Lost
    BY DEF HeardOf, Addresses, Lost, Integers16, Integers32
  <2>2. r[a] = c[a] /\ IsValue(a, c[a], Int)
    BY <2>1 DEF HeardOf, IsConfiguration
  <2>3. c[a] \in [1 .. 2 -> Int] \cup [1 .. 8 -> Int]
    BY <2>2 DEF IsValue, UwbMacAddressLength
  <2>4. QED
    BY <2>2, <2>3
<1>4. \A t \in DOMAIN Corresponding \cap DOMAIN uci : uci[t] \in Int
  <2> TAKE t \in DOMAIN Corresponding \cap DOMAIN uci
  <2> DEFINE tag == Corresponding[t]
  <2>1. tag \in DOMAIN r /\ uci[t] = r[tag]
    BY <1>1 DEF DirectAre
  <2>2. tag \notin Addresses /\ tag # "ResultReportConfig"
    BY CorrespondingIs
  <2> HIDE DEF tag
  <2>3. QED
    BY <2>1, <2>2, HeardNumber
<1>5. uci["DeviceType"] \in Int /\ uci["PrfMode"] \in Int
  <2>1. \A n \in DOMAIN DeviceType : DeviceType[n] \in Int
    BY DeviceTypeNumbers DEF Numbered
  <2>2. \A n \in DOMAIN PrfModeDetailed : PrfModeDetailed[n] \in Int
    BY PrfModeNumbers DEF Numbered
  <2>3. DeviceType.Controlee \in Int
    BY <2>1, DeviceTypeNumbers
  <2>4. PrfModeDetailed.Bprf62MHz \in Int /\ PrfModeDetailed.Hprf124MHz \in Int
    BY <2>2, PrfModeNumbers
  <2>5. QED
    BY <1>1, <2>3, <2>4 DEF OthersAre
<1>6. "HoppingMode" \in DOMAIN uci => uci["HoppingMode"] \in Int
  <2>1. "HoppingMode" \notin Addresses /\ "HoppingMode" # "ResultReportConfig"
    BY DEF Addresses
  <2>2. QED
    BY <1>1, <2>1, HeardNumber DEF OthersAre
<1>7. "RangingRoundUsage" \notin DOMAIN uci
  BY <1>1 DEF OthersAre, HeardOf
<1>8. uci["ResultReportConfig"] \subseteq DOMAIN ResultReportConfiguration
  <2>1. CASE "ResultReportConfig" \in DOMAIN r
    <3>1. "ResultReportConfig" \in DOMAIN c /\ "ResultReportConfig" \notin Lost
      BY <2>1 DEF HeardOf, Lost, Integers16, Integers32
    <3>2. r["ResultReportConfig"] = c["ResultReportConfig"]
      BY <2>1, <3>1 DEF HeardOf
    <3>3. IsValue("ResultReportConfig", c["ResultReportConfig"], Int)
      BY <3>1 DEF IsConfiguration
    <3>4. c["ResultReportConfig"] \subseteq DOMAIN ResultReportConfiguration
      BY <3>3, Zenon DEF IsValue
    <3>5. uci["ResultReportConfig"] = r["ResultReportConfig"]
      BY <1>1, <2>1 DEF OthersAre
    <3>6. QED
      BY <3>2, <3>4, <3>5, Zenon
  <2>2. CASE "ResultReportConfig" \notin DOMAIN r
    <3>1. uci["ResultReportConfig"] = {}
      BY <1>1, <2>2 DEF OthersAre
    <3>2. QED
      BY <3>1
  <2>3. QED
    BY <2>1, <2>2
<1>9. ASSUME NEW t \in DOMAIN uci PROVE values[t].Type = t /\ Writable(values[t])
  <2> DEFINE p == values[t]
             value == uci[t]
  <2>1. p = GivenOf(t, value)
    BY <1>2
  <2> HIDE DEF value
  <2>2. p.Type = t /\ p.Value = value
        /\ p.Alternative = IF t = "RangingInterval" THEN "uint16"
                           ELSE IF t = "DestinationMacAddresses" THEN "address" ELSE KindOf(t)
    BY <2>1 DEF GivenOf
  <2> HIDE DEF p
  <2>3. t \in ParameterType
    BY <1>1
  <2>4. t \in DOMAIN Corresponding \cup OtherTypes
    BY <1>1 DEF OthersAre
  <2>5. CASE t \in DOMAIN Corresponding \cup {"DeviceType", "PrfMode", "HoppingMode"}
    <3>1. value \in Int
      BY <1>4, <1>5, <1>6, <2>5 DEF value
    <3>2. t # "DestinationMacAddresses"
      BY <2>5, CorrespondingTypes DEF DirectTypes, DirectEnumerations, Direct8, Direct16, Direct32
    <3>3. p.Alternative \notin {"addresses", "address", "vector", "reports"}
      BY <2>2, <2>5, <3>2, GivenKinds
    <3>4. ParamValue(p) = LittleEndian(value, AlternativeBytes(p.Alternative, p.Type))
      BY <2>2, <3>3, ParamValueIs
    <3>5. AlternativeBytes(p.Alternative, p.Type) \in {1, 2, 4}
      BY AlternativeBytesIs
    <3>6. ParamValue(p) \in Seq(Int) /\ Len(ParamValue(p)) \in {1, 2, 4}
      BY <3>1, <3>4, <3>5, LittleEndianInts
    <3>7. QED
      BY <2>2, <2>3, <3>6, ShortIsWritable DEF p
  <2>6. CASE t = "ResultReportConfig"
    <3>1. p.Alternative = "reports"
      BY <2>2, <2>6, GivenKinds
    <3>2. ParamValue(p) = <<Bits(value)>>
      BY <2>2, <3>1, ParamValueIs
    <3>3. Bits(value) \in Int
      BY <1>8, <2>6, BitsReturn DEF value
    <3>4. ParamValue(p) \in Seq(Int) /\ Len(ParamValue(p)) = 1
      BY <3>2, <3>3, OneByte
    <3>5. QED
      BY <2>2, <2>3, <3>4, ShortIsWritable DEF p
  <2>7. CASE t \in {"DeviceMacAddress", "DestinationMacAddresses"}
    <3>1. p.Alternative = "address"
      BY <2>2, <2>7, GivenKinds
    <3>2. ParamValue(p) = value
      BY <2>2, <3>1, ParamValueIs
    <3>3. \E a \in Addresses \cap DOMAIN r : value = r[a]
      BY <1>1, <2>7 DEF OthersAre, Addresses, value
    <3>4. value \in [1 .. 2 -> Int] \cup [1 .. 8 -> Int]
      BY <1>3, <3>3
    <3>5. value \in Seq(Int) /\ Len(value) \in {2, 8}
      BY <3>4, BytesOfLength
    <3>6. QED
      BY <2>2, <2>3, <3>2, <3>5, ShortIsWritable DEF p
  <2>8. QED
    BY <1>7, <2>4, <2>5, <2>6, <2>7 DEF OtherTypes
<1>10. QED
  BY <1>1, <1>2, <1>9 DEF values

-----------------------------------------------------------------------------
\* What the driver has of a parameter that it was given.
LEMMA GivenIsKept ==
    ASSUME NEW values, DOMAIN values \subseteq ParameterType, NEW id,
           \A t \in DOMAIN values : values[t].Type = t /\ Writable(values[t])
    PROVE  LET held == AfterSet(<< >>, Transfer("SetParameters",
                                    [SessionId |-> id, Parameters |-> InTypeOrder(values)]))
           IN  \A t \in DOMAIN values \ {"MacAddressMode", "DestinationMacAddresses"} :
                 Typed(values[t]) => t \in DOMAIN held /\ held[t] = values[t]
<1> DEFINE parameters == InTypeOrder(values)
           m == [SessionId |-> id, Parameters |-> parameters]
           w == Encode("SetParameters", m).content
           t0 == Transfer("SetParameters", m)
           array == ToParameterArray(w, FALSE)
<1>1. /\ Len(parameters) \in Nat /\ DOMAIN parameters = 1 .. Len(parameters)
      /\ \A i \in DOMAIN parameters : \E t \in DOMAIN values : parameters[i] = values[t]
      /\ \A t \in DOMAIN values : \E i \in DOMAIN parameters : parameters[i] = values[t]
  BY InTypeOrderIs, InTypeOrderHas
<1> HIDE DEF parameters
<1>2. AllWritable(parameters)
  BY <1>1 DEF AllWritable
<1>3. m.Parameters = parameters /\ m.SessionId = id
  OBVIOUS
<1> HIDE DEF m
<1>4. /\ w.appConfigParams = ArrayOfParameters(parameters)
      /\ w.appConfigParamsCount = Len(parameters)
  BY <1>3, EncodeIs DEF FromSetParameters, FromParameterArray, ArrayOfParameters, Wrapper
<1>5. t0.received = ToSetParameters(w)
  BY DEF Transfer, Decode
<1> HIDE DEF w, t0
<1>6. t0.received.Parameters = array
  <2>1. ToSetParameters(w) = [SessionId |-> w.header.sessionId, Parameters |-> array]
    BY Zenon DEF ToSetParameters
  <2> HIDE DEF array
  <2>2. QED
    BY <1>5, <2>1
<1>7. PICK mode : /\ IsList(array)
                  /\ \A i \in DOMAIN array : \E q \in DOMAIN parameters :
                       ComesOf(array[i], parameters[q], mode, FALSE)
                  /\ \A q \in DOMAIN parameters : Keeps(parameters[q], FALSE) =>
                       \E i \in DOMAIN array : SameAs(array[i], parameters[q])
  BY <1>2, <1>4, PassageIs
<1> HIDE DEF array
<1> DEFINE read == ByType(array)
           held == AfterSet(<< >>, t0)
<1>8. /\ DOMAIN read = {array[i].Type : i \in DOMAIN array}
      /\ \A t \in DOMAIN read : \E i \in DOMAIN array : array[i].Type = t /\ read[t] = array[i]
  BY <1>7, ByTypeIs
<1> HIDE DEF read
<1>9. DOMAIN held = DOMAIN read /\ \A t \in DOMAIN read : held[t] = read[t]
  <2>1. held = Over(read, << >>)
    BY <1>6 DEF AfterSet, read
  <2>2. DOMAIN (<< >>) = {}
    OBVIOUS
  <2> HIDE DEF held
  <2>3. QED
    BY <2>1, <2>2 DEF Over
<1> HIDE DEF held
<1>10. ASSUME NEW t \in DOMAIN values \ {"MacAddressMode", "DestinationMacAddresses"}, Typed(values[t])
       PROVE  t \in DOMAIN held /\ held[t] = values[t]
  <2>1. PICK q \in DOMAIN parameters : parameters[q] = values[t]
    BY <1>1
  <2>2. parameters[q].Type = t /\ Keeps(parameters[q], FALSE)
    BY <1>10, <2>1 DEF Keeps
  <2>3. PICK i \in DOMAIN array : SameAs(array[i], parameters[q])
    BY <1>7, <2>2
  <2>4. t \in DOMAIN read
    BY <1>8, <2>2, <2>3 DEF SameAs
  <2>5. PICK k \in DOMAIN array : array[k].Type = t /\ read[t] = array[k]
    BY <1>8, <2>4
  <2>6. PICK s \in DOMAIN parameters : ComesOf(array[k], parameters[s], mode, FALSE)
    BY <1>7
  <2>7. SameAs(array[k], parameters[s])
    BY <2>6 DEF ComesOf
  <2>8. parameters[s].Type = t
    BY <2>5, <2>7 DEF SameAs
  <2>9. parameters[s] = values[t]
    BY <1>1, <2>8
  <2>10. array[k] = values[t]
    BY <1>10, <2>7, <2>8, <2>9 DEF SameAs
  <2>11. QED
    BY <1>9, <2>4, <2>5, <2>10
<1>11. QED
  BY <1>10 DEF held, t0, m, parameters

-----------------------------------------------------------------------------
(* What both drivers have of a session.                                    *)

\* The types in common, of which the integers are certain only the first time.
AgreedTypes(first) == Shared \cup (IF first THEN SharedIntegers ELSE {})
ReportsIn(c) == IF "ResultReportConfig" \in DOMAIN c THEN c["ResultReportConfig"] ELSE {}
\* A configuration says what a driver has.
Says(c, byType, first) ==
    /\ \A t \in AgreedTypes(first) \cap DOMAIN byType : t # "ResultReportConfig" =>
         Corresponding[t] \in DOMAIN c /\ c[Corresponding[t]] = byType[t].Value
    /\ "ResultReportConfig" \in DOMAIN byType => ReportsIn(c) = byType["ResultReportConfig"].Value

\* Two drivers have the same.
Agrees(mine, theirs, first) ==
    \A t \in AgreedTypes(first) \cap DOMAIN theirs : t \in DOMAIN mine /\ mine[t] = theirs[t]

LEMMA AgreedAre ==
    ASSUME NEW first
    PROVE  /\ "ResultReportConfig" \in AgreedTypes(first)
           /\ \A t \in AgreedTypes(first) :
                /\ t # "DestinationMacAddresses" /\ t # "RangingInterval" /\ t # "MacAddressMode"
                /\ t # "ResultReportConfig" =>
                     /\ t \in DOMAIN Corresponding /\ Corresponding[t] \notin Lost
                     /\ Corresponding[t] \in Integers8 => first
<1>1. "ResultReportConfig" \in AgreedTypes(first)
  BY DEF AgreedTypes, Shared
<1>2. \A t \in AgreedTypes(first) : t \in Shared \/ t \in SharedIntegers
  BY DEF AgreedTypes
<1>3. \A t \in AgreedTypes(first) :
        t # "DestinationMacAddresses" /\ t # "RangingInterval" /\ t # "MacAddressMode"
  BY <1>2 DEF Shared, SharedIntegers
<1>4. \A t \in Shared \ {"ResultReportConfig"} :
        t \in DOMAIN Corresponding /\ Corresponding[t] \notin Lost /\ Corresponding[t] \notin Integers8
  BY DEF Shared, Corresponding, Lost, Integers8, Integers16, Integers32
<1>5. \A t \in SharedIntegers : t \in DOMAIN Corresponding /\ Corresponding[t] \notin Lost
  BY DEF SharedIntegers, Corresponding, Lost, Integers16, Integers32
<1>6. \A t \in AgreedTypes(first) : t \in Shared \/ (first /\ t \in SharedIntegers)
  BY Zenon DEF AgreedTypes
<1>7. QED
  BY <1>1, <1>3, <1>4, <1>5, <1>6

\* What a host sends of the session says what it has read, which its driver has.
LEMMA ReadSays ==
    ASSUME NEW byType, NEW r, ReadOf(r), DOMAIN r = DOMAIN byType,
           \A t \in DOMAIN r \ {"DestinationMacAddresses"} : r[t] = byType[t]
    PROVE  Says(ConfigurationOf(r), byType, TRUE)
<1> DEFINE c == ConfigurationOf(r)
<1>1. c = [tag \in TagsOf(r) |-> ValueOf(r, tag)]
  BY DEF ConfigurationOf
<1> HIDE DEF c
<1>2. DOMAIN c = TagsOf(r) /\ \A tag \in TagsOf(r) : c[tag] = ValueOf(r, tag)
  BY <1>1
<1>3. ASSUME NEW t \in AgreedTypes(TRUE) \cap DOMAIN byType, t # "ResultReportConfig"
      PROVE  Corresponding[t] \in DOMAIN c /\ c[Corresponding[t]] = byType[t].Value
  <2>1. /\ t \in DOMAIN Corresponding /\ t # "RangingInterval"
        /\ t \in DOMAIN r \ {"DestinationMacAddresses"}
    BY <1>3, AgreedAre
  <2>2. Corresponding[t] \in TagsOf(r)
    BY <2>1, Zenon DEF TagsOf
  <2>3. ValueOf(r, Corresponding[t]) = DirectValue(t, r[t].Value)
    BY <2>1, ValuesAre
  <2>4. DirectValue(t, r[t].Value) = r[t].Value
    BY <2>1 DEF DirectValue
  <2>5. QED
    BY <1>2, <2>1, <2>2, <2>3, <2>4
<1>4. ReportsIn(c) = ReportsOf(r)
  <2>1. "ResultReportConfig" \in TagsOf(r) <=> ReportsOf(r) # {}
    <3>1. \A t \in DOMAIN r \cap DOMAIN Corresponding : Corresponding[t] # "ResultReportConfig"
      BY CorrespondingIs
    <3>2. "ResultReportConfig" # "ControllerMacAddress" /\ "ResultReportConfig" # "ControleeShortMacAddress"
      OBVIOUS
    <3>3. QED
      BY <3>1, <3>2, Zenon DEF TagsOf
  <2>2. ValueOf(r, "ResultReportConfig") = ReportsOf(r)
    BY ValuesAre
  <2>3. CASE "ResultReportConfig" \in TagsOf(r)
    BY <1>2, <2>2, <2>3 DEF ReportsIn
  <2>4. CASE "ResultReportConfig" \notin TagsOf(r)
    BY <1>2, <2>1, <2>4 DEF ReportsIn
  <2>5. QED
    BY <2>3, <2>4
<1>5. "ResultReportConfig" \in DOMAIN byType => ReportsOf(r) = byType["ResultReportConfig"].Value
  BY DEF ReportsOf
<1>6. QED
  BY <1>3, <1>4, <1>5 DEF Says, c

\* What was heard of it says it, too.
LEMMA HeardSays ==
    ASSUME NEW byType, NEW c, Says(c, byType, TRUE), NEW r, NEW first \in BOOLEAN, HeardOf(r, c, first)
    PROVE  Says(r, byType, first)
<1>1. AgreedTypes(first) \subseteq AgreedTypes(TRUE)
  BY DEF AgreedTypes
<1>2. ASSUME NEW t \in AgreedTypes(first) \cap DOMAIN byType, t # "ResultReportConfig"
      PROVE  Corresponding[t] \in DOMAIN r /\ r[Corresponding[t]] = byType[t].Value
  <2> DEFINE tag == Corresponding[t]
  <2>1. /\ t \in DOMAIN Corresponding /\ tag \notin Lost
        /\ tag \in Integers8 => first
    BY <1>2, AgreedAre
  <2>2. tag \in DOMAIN c /\ c[tag] = byType[t].Value
    BY <1>1, <1>2 DEF Says
  <2>3. tag # "ResultReportConfig"
    BY <2>1, CorrespondingIs
  <2> HIDE DEF tag
  <2>4. Certain(tag, c[tag], first)
    BY <2>1, <2>3, Zenon DEF Certain
  <2>5. tag \in DOMAIN r /\ r[tag] = c[tag]
    BY <2>1, <2>2, <2>4 DEF HeardOf
  <2>6. QED
    BY <2>2, <2>5 DEF tag
<1>3. ReportsIn(r) = ReportsIn(c)
  <2> DEFINE tag == "ResultReportConfig"
  <2>1. tag \notin Lost /\ tag \notin Integers8
    BY DEF Lost, Integers8, Integers16, Integers32
  <2>2. CASE tag \in DOMAIN r
    <3>1. tag \in DOMAIN c /\ r[tag] = c[tag]
      BY <2>1, <2>2 DEF HeardOf
    <3>2. QED
      BY <2>2, <3>1 DEF ReportsIn
  <2>3. CASE tag \notin DOMAIN r
    <3>1. ASSUME tag \in DOMAIN c, c[tag] # {} PROVE FALSE
      <4>1. Certain(tag, c[tag], first)
        BY <2>1, <3>1, Zenon DEF Certain
      <4>2. QED
        BY <2>3, <3>1, <4>1 DEF HeardOf
    <3>2. ReportsIn(r) = {}
      BY <2>3 DEF ReportsIn
    <3>3. ReportsIn(c) = {}
      BY <3>1 DEF ReportsIn
    <3>4. QED
      BY <3>2, <3>3
  <2>4. QED
    BY <2>2, <2>3
<1>4. QED
  BY <1>2, <1>3, <1>1 DEF Says

\* A driver that is configured from it has the same.
LEMMA JoinedAgrees ==
    ASSUME NEW byType, Configured(byType), NEW c, IsConfiguration(c, Int), NEW r, NEW first,
           HeardOf(r, c, first), Says(r, byType, first), NEW id
    PROVE  Agrees(AfterSet(<< >>, Transfer("SetParameters",
                    [SessionId |-> id,
                     Parameters |-> InTypeOrder(GetUciConfigParams(r, DeviceType.Controlee))])),
                  byType, first)
<1> DEFINE values == GetUciConfigParams(r, DeviceType.Controlee)
           uci == UciValues(r, DeviceType.Controlee)
           held == AfterSet(<< >>, Transfer("SetParameters",
                      [SessionId |-> id, Parameters |-> InTypeOrder(values)]))
<1>1. /\ DOMAIN values \subseteq ParameterType
      /\ \A t \in DOMAIN values : values[t].Type = t /\ Writable(values[t])
  BY GivenIsWritable
<1>2. DOMAIN values = DOMAIN uci /\ \A t \in DOMAIN uci : values[t] = GivenOf(t, uci[t])
  BY GivenIs
<1>3. OthersAre(uci, r) /\ DirectAre(uci, r)
  BY UciAre
<1> HIDE DEF values, uci
<1>4. \A t \in DOMAIN values \ {"MacAddressMode", "DestinationMacAddresses"} :
        Typed(values[t]) => t \in DOMAIN held /\ held[t] = values[t]
  BY <1>1, GivenIsKept
<1> HIDE DEF held
<1>5. ASSUME NEW t \in AgreedTypes(first) \cap DOMAIN byType
      PROVE  t \in DOMAIN held /\ held[t] = byType[t]
  <2>1. t # "DestinationMacAddresses" /\ t # "RangingInterval" /\ t # "MacAddressMode"
    BY AgreedAre
  <2>2. t \in DOMAIN uci /\ uci[t] = byType[t].Value
    <3>1. CASE t = "ResultReportConfig"
      BY <1>3, <1>5, <3>1 DEF OthersAre, Says, ReportsIn
    <3>2. CASE t # "ResultReportConfig"
      <4>1. t \in DOMAIN Corresponding
        BY <3>2, AgreedAre
      <4>2. Corresponding[t] \in DOMAIN r /\ r[Corresponding[t]] = byType[t].Value
        BY <1>5, <3>2 DEF Says
      <4>3. QED
        BY <1>3, <4>1, <4>2 DEF DirectAre
    <3>3. QED
      BY <3>1, <3>2
  <2> DEFINE p == byType[t]
             value == p.Value
  <2>3. Typed(p) /\ p.Type = t
    BY <1>5, <2>1 DEF Configured, Proper
  <2>4. values[t] = GivenOf(t, value)
    BY <1>2, <2>2
  <2>5. p = Parameter(t, value)
    BY <2>3 DEF Typed
  <2> HIDE DEF p, value
  <2>6. GivenOf(t, value) = Parameter(t, value)
    BY <2>1 DEF GivenOf, Parameter, KindOf
  <2>7. values[t] = p /\ Typed(values[t])
    BY <2>3, <2>4, <2>5, <2>6
  <2>8. QED
    BY <1>2, <1>4, <2>1, <2>2, <2>7 DEF p
<1>6. QED
  BY <1>5 DEF Agrees, held, values

-----------------------------------------------------------------------------
(* What a host's driver has of a session stays, and what is sent of it, is  *)
(* made of it and configured from it says the same.                         *)
HasSession(g) == g \in Host /\ driver[g] # << >> /\ Configured(driver[g])
ObjectSays(o, theirs) ==
    /\ o.kind = "SessionData"
    /\ o.whole => Says(o.content.ConfigurationParameters, theirs, TRUE)

MadeSays(d, theirs) ==
    \E c : /\ IsConfiguration(c, Int)
           /\ HeardOf(d.content.ConfigurationParameters, c, d.first)
           /\ Says(d.content.ConfigurationParameters, theirs, d.first)

LinkSays ==
    object # None /\ object.ofSession =>
        HasSession(object.from) /\ ObjectSays(object, driver[object.from])

DecodedSays ==
    \A h \in Host : decoded[h] # None /\ decoded[h].accepted /\ decoded[h].object.ofSession =>
        HasSession(decoded[h].object.from) /\ MadeSays(decoded[h], driver[decoded[h].object.from])

JoinedSays ==
    \A h \in Host : joined[h] # None /\ joined[h].object.ofSession =>
        /\ HasSession(joined[h].object.from)
        /\ Agrees(driver[h], driver[joined[h].object.from], joined[h].first)

PeersIInv == ArrivesIInv /\ LinkSays /\ DecodedSays /\ JoinedSays

LEMMA PeersImplied == JoinedSays => PeersAgree
BY Zenon DEF JoinedSays, PeersAgree, Agrees, AgreedTypes

\* No step changes the parameters of a driver that has some.
LEMMA DriverStays ==
    ASSUME ConfiguredInv, [Next]_vars, NEW h \in Host
    PROVE  driver[h] # << >> => driver'[h] = driver[h]
<1>1. DOMAIN driver = Host
  BY DEF ConfiguredInv
<1>2. \/ driver' = driver
      \/ \E g \in Host : \E value : driver[g] = << >> /\ driver' = [driver EXCEPT ![g] = value]
  <2>1. CASE UNCHANGED vars
    BY <2>1 DEF vars
  <2>2. ASSUME NEW kind, NEW i, Pass(kind, i) PROVE driver' = driver
    BY <2>2 DEF Pass
  <2>3. ASSUME NEW g \in Host, NEW id, NEW i, Configure(g, id, i)
        PROVE  \E value : driver[g] = << >> /\ driver' = [driver EXCEPT ![g] = value]
    BY <2>3, Zenon DEF Configure
  <2>4. ASSUME NEW g, NEW id, GetOobDataObject(g, id) PROVE driver' = driver
    BY <2>4, Zenon DEF GetOobDataObject
  <2>5. ASSUME NEW g, NEW i, SendSessionData(g, i) PROVE driver' = driver
    BY <2>5, Zenon DEF SendSessionData
  <2>6. ASSUME NEW g, NEW i, SendCapabilities(g, i) PROVE driver' = driver
    BY <2>6, Zenon DEF SendCapabilities
  <2>7. ASSUME NEW g, Receive(g) PROVE driver' = driver
    BY <2>7, Zenon DEF Receive
  <2>8. ASSUME NEW g \in Host, Join(g)
        PROVE  \E value : driver[g] = << >> /\ driver' = [driver EXCEPT ![g] = value]
    BY <2>8, Zenon DEF Join
  <2>9. ASSUME NEW n, EndEarly(n) PROVE driver' = driver
    BY <2>9, Zenon DEF EndEarly
  <2>10. QED
    BY <2>1, <2>2, <2>3, <2>4, <2>5, <2>6, <2>7, <2>8, <2>9, Zenon DEF Next
<1>3. QED
  BY <1>1, <1>2

LEMMA SessionStays ==
    ASSUME ConfiguredInv, [Next]_vars, NEW g, HasSession(g)
    PROVE  HasSession(g)' /\ driver'[g] = driver[g]
BY DriverStays DEF HasSession

LEMMA LinkStays ==
    ASSUME ConfiguredInv, [Next]_vars, LinkSays, object' = object
    PROVE  LinkSays'
<1> SUFFICES ASSUME object # None, object.ofSession
             PROVE  HasSession(object.from)' /\ ObjectSays(object, driver'[object.from])
  BY Zenon DEF LinkSays
<1>1. HasSession(object.from) /\ ObjectSays(object, driver[object.from])
  BY DEF LinkSays
<1>2. QED
  BY <1>1, SessionStays

LEMMA DecodedStays ==
    ASSUME ConfiguredInv, [Next]_vars, DecodedSays, decoded' = decoded
    PROVE  DecodedSays'
<1> SUFFICES ASSUME NEW h \in Host, decoded[h] # None, decoded[h].accepted, decoded[h].object.ofSession
             PROVE  /\ HasSession(decoded[h].object.from)'
                    /\ MadeSays(decoded[h], driver'[decoded[h].object.from])
  BY Zenon DEF DecodedSays
<1>1. /\ HasSession(decoded[h].object.from)
      /\ MadeSays(decoded[h], driver[decoded[h].object.from])
  BY DEF DecodedSays
<1>2. QED
  BY <1>1, SessionStays

LEMMA JoinedStays ==
    ASSUME ConfiguredInv, [Next]_vars, JoinedSays, NEW h \in Host, NEW j, j # None, joined[h] = j,
           j.object.ofSession
    PROVE  HasSession(j.object.from)' /\ Agrees(driver'[h], driver'[j.object.from], j.first)
<1>1. HasSession(j.object.from) /\ Agrees(driver[h], driver[j.object.from], j.first)
  BY DEF JoinedSays
<1>2. HasSession(j.object.from)' /\ driver'[j.object.from] = driver[j.object.from]
  BY <1>1, SessionStays
<1>3. Agrees(driver'[h], driver[j.object.from], j.first)
  <2>1. CASE driver[h] = << >>
    <3>1. DOMAIN driver[h] = {}
      BY <2>1
    <3>2. QED
      BY <1>1, <3>1, Zenon DEF Agrees
  <2>2. CASE driver[h] # << >>
    BY <1>1, <2>2, DriverStays
  <2>3. QED
    BY <2>1, <2>2
<1>4. QED
  BY <1>2, <1>3

LEMMA JoinedAfter ==
    ASSUME \A h \in Host : \A j : j # None /\ joined'[h] = j /\ j.object.ofSession =>
             HasSession(j.object.from)' /\ Agrees(driver'[h], driver'[j.object.from], j.first)
    PROVE  JoinedSays'
BY Zenon DEF JoinedSays, HasSession

LEMMA AllJoinedStay ==
    ASSUME ConfiguredInv, [Next]_vars, JoinedSays, joined' = joined
    PROVE  JoinedSays'
BY JoinedStays, JoinedAfter

LEMMA ReceiveSays ==
    ASSUME PeersIInv, [Next]_vars, NEW h \in Host, Receive(h)
    PROVE  DecodedSays'
<1> DEFINE parsed == Parse(object.bytes)
           outcomes == CASE ~parsed.succeeded -> {}
                         [] parsed.succeeded /\ object.kind = "SessionData" ->
                               FromSessionDataObject(parsed.tlv, before[h])
                         [] parsed.succeeded /\ object.kind = "Capability" ->
                               FromOobDataObject(parsed.tlv)
           made(accepted, content) ==
               [object |-> [object EXCEPT !.bytes = << >>], first |-> ~before[h],
                accepted |-> accepted, content |-> content]
<1>1. /\ object # None
      /\ \/ \E content \in outcomes : decoded' = [decoded EXCEPT ![h] = made(TRUE, content)]
         \/ outcomes = {} /\ decoded' = [decoded EXCEPT ![h] = made(FALSE, None)]
      /\ driver' = driver
  BY Zenon DEF Receive
<1>2. OnLink(object) /\ before[h] \in BOOLEAN
  BY <1>1 DEF PeersIInv, ArrivesIInv, LinkInv, BeforeInv
<1>3. outcomes = OutcomesOf(object, before[h])
  BY Zenon DEF OutcomesOf
<1>4. \A accepted, content :
         /\ made(accepted, content).accepted = accepted
         /\ made(accepted, content).content = content
         /\ made(accepted, content).first = ~before[h]
         /\ made(accepted, content).object.from = object.from
         /\ made(accepted, content).object.ofSession = object.ofSession
  <2>1. /\ [object EXCEPT !.bytes = << >>].from = object.from
        /\ [object EXCEPT !.bytes = << >>].ofSession = object.ofSession
    <3>1. object = [kind |-> object.kind, from |-> object.from, ofSession |-> object.ofSession,
                    whole |-> object.whole, content |-> object.content, bytes |-> object.bytes]
      BY <1>2, Zenon DEF OnLink
    <3>2. DOMAIN object = {"kind", "from", "ofSession", "whole", "content", "bytes"}
      BY <3>1
    <3>3. QED
      BY <3>2
  <2>2. QED
    BY <2>1
<1>5. object.whole \in BOOLEAN
  BY <1>2, Zenon DEF OnLink
<1> HIDE DEF outcomes
<1> DEFINE Told(d) == d.accepted /\ d.object.ofSession =>
                        HasSession(d.object.from) /\ MadeSays(d, driver[d.object.from])
<1>6. ASSUME NEW content \in outcomes PROVE Told(made(TRUE, content))
  <2>1. object.whole
    BY <1>2, <1>3, <1>5, PartIsRefused
  <2> DEFINE d == made(TRUE, content)
             c == object.content.ConfigurationParameters
  <2>2. /\ d.content = content /\ d.first = ~before[h]
        /\ d.object.from = object.from /\ d.object.ofSession = object.ofSession
    BY <1>4, Zenon
  <2> HIDE DEF d
  <2> SUFFICES ASSUME object.ofSession
               PROVE  HasSession(object.from) /\ MadeSays(d, driver[object.from])
    BY <2>2 DEF d
  <2>3. /\ HasSession(object.from) /\ object.kind = "SessionData"
        /\ Says(c, driver[object.from], TRUE)
    BY <1>1, <2>1 DEF PeersIInv, LinkSays, ObjectSays
  <2>4. HeardOf(content.ConfigurationParameters, c, ~before[h]) /\ IsConfiguration(c, Int)
    BY <1>2, <1>3, <2>1, <2>3, ObjectHeard
  <2> HIDE DEF c
  <2>5. Says(content.ConfigurationParameters, driver[object.from], ~before[h])
    BY <1>2, <2>3, <2>4, HeardSays
  <2>6. QED
    BY <2>2, <2>3, <2>4, <2>5, Zenon DEF MadeSays
<1>7. Told(made(FALSE, None))
  BY <1>4, Zenon
<1> HIDE DEF made
<1>8. PICK d : Told(d) /\ decoded' = [decoded EXCEPT ![h] = d]
  BY <1>1, <1>6, <1>7, Zenon
<1>9. DOMAIN decoded = Host
  BY DEF PeersIInv, ArrivesIInv, ReceivedInv
<1> SUFFICES ASSUME NEW g \in Host, decoded'[g] # None, decoded'[g].accepted,
                    decoded'[g].object.ofSession
             PROVE  /\ HasSession(decoded'[g].object.from)
                    /\ MadeSays(decoded'[g], driver[decoded'[g].object.from])
  BY <1>1, Zenon DEF DecodedSays, HasSession
<1>10. CASE g = h
  BY <1>8, <1>9, <1>10
<1>11. CASE g # h
  <2>1. decoded'[g] = decoded[g]
    BY <1>8, <1>9, <1>11
  <2>2. QED
    BY <2>1 DEF PeersIInv, DecodedSays
<1>12. QED
  BY <1>10, <1>11

LEMMA JoinSays ==
    ASSUME PeersIInv, [Next]_vars, NEW h \in Host, Join(h)
    PROVE  JoinedSays'
<1> DEFINE data == decoded[h].content
           values == GetUciConfigParams(data.ConfigurationParameters, DeviceType.Controlee)
           t == Transfer("SetParameters",
                   [SessionId |-> data.SessionId, Parameters |-> InTypeOrder(values)])
           held == AfterSet(<< >>, t)
<1>1. /\ decoded[h] # None /\ decoded[h].accepted
      /\ driver[h] = << >>
      /\ driver' = [driver EXCEPT ![h] = AfterSet(@, t)]
      /\ joined' = [joined EXCEPT ![h] = decoded[h]]
  BY Zenon DEF Join
<1>2. DOMAIN driver = Host /\ DOMAIN joined = Host /\ ConfiguredInv
  BY DEF PeersIInv, ArrivesIInv, ConfiguredInv
<1>3. driver' = [driver EXCEPT ![h] = held]
  BY <1>1
<1>4. decoded[h].object.ofSession =>
        /\ HasSession(decoded[h].object.from)
        /\ Agrees(held, driver[decoded[h].object.from], decoded[h].first)
  <2> SUFFICES ASSUME decoded[h].object.ofSession
               PROVE  /\ HasSession(decoded[h].object.from)
                      /\ Agrees(held, driver[decoded[h].object.from], decoded[h].first)
    OBVIOUS
  <2>1. /\ HasSession(decoded[h].object.from)
        /\ MadeSays(decoded[h], driver[decoded[h].object.from])
    BY <1>1 DEF PeersIInv, DecodedSays
  <2>2. PICK c : /\ IsConfiguration(c, Int)
                 /\ HeardOf(data.ConfigurationParameters, c, decoded[h].first)
                 /\ Says(data.ConfigurationParameters, driver[decoded[h].object.from], decoded[h].first)
    BY <2>1, Zenon DEF MadeSays
  <2>3. Configured(driver[decoded[h].object.from])
    BY <2>1 DEF HasSession
  <2>4. QED
    BY <2>1, <2>2, <2>3, JoinedAgrees
<1> HIDE DEF held, t
<1> SUFFICES ASSUME NEW g \in Host, NEW j, j # None, joined'[g] = j, j.object.ofSession
             PROVE  HasSession(j.object.from)' /\ Agrees(driver'[g], driver'[j.object.from], j.first)
  BY JoinedAfter
<1>5. CASE g = h
  <2>1. j = decoded[h] /\ driver'[g] = held
    BY <1>1, <1>2, <1>3, <1>5
  <2>2. HasSession(j.object.from) /\ Agrees(held, driver[j.object.from], j.first)
    BY <1>4, <2>1
  <2>3. HasSession(j.object.from)' /\ driver'[j.object.from] = driver[j.object.from]
    BY <1>2, <2>2, SessionStays
  <2>4. QED
    BY <2>1, <2>2, <2>3
<1>6. CASE g # h
  <2>1. joined[g] = j
    BY <1>1, <1>2, <1>6
  <2>2. QED
    BY <1>2, <2>1, JoinedStays DEF PeersIInv
<1>7. QED
  BY <1>5, <1>6

LEMMA PeersIInvStep ==
    ASSUME PeersIInv, [Next]_vars
    PROVE  PeersIInv'
<1> USE DEF PeersIInv
<1>1. ArrivesIInv'
  BY ArrivesIInvStep
<1>2. ConfiguredInv
  BY DEF ArrivesIInv
<1>3. joined' = joined => JoinedSays'
  BY <1>2, AllJoinedStay
<1>4. decoded' = decoded => DecodedSays'
  BY <1>2, DecodedStays
<1>5. object' = object => LinkSays'
  BY <1>2, LinkStays
<1>6. CASE UNCHANGED vars
  BY <1>1, <1>3, <1>4, <1>5, <1>6 DEF vars
<1>7. ASSUME NEW kind, NEW i, Pass(kind, i) PROVE PeersIInv'
  BY <1>1, <1>3, <1>4, <1>5, <1>7 DEF Pass
<1>8. ASSUME NEW h, NEW id, NEW i, Configure(h, id, i) PROVE PeersIInv'
  BY <1>1, <1>3, <1>4, <1>5, <1>8 DEF Configure
<1>9. ASSUME NEW h \in Host, NEW id \in SessionIds, GetOobDataObject(h, id) PROVE PeersIInv'
  <2> DEFINE r == ByType(ReadBack(h).received)
  <2>1. /\ driver[h] # << >> /\ joined[h] = None /\ UNCHANGED <<driver, decoded, before, joined>>
        /\ transfer' = ReadBack(h)
        /\ \E data \in GetUwbSessionData(ByType(transfer'.received)) :
             LET named == [data EXCEPT !.SessionId = id] IN
             object' = Object("SessionData", h, TRUE, named, ToSessionDataObject(named))
    BY <1>9, Zenon DEF GetOobDataObject
  <2>2. PICK data \in GetUwbSessionData(r) :
          LET named == [data EXCEPT !.SessionId = id] IN
          object' = Object("SessionData", h, TRUE, named, ToSessionDataObject(named))
    BY <2>1, Zenon
  <2>3. Configured(driver[h])
    BY <1>2, <2>1 DEF ConfiguredInv
  <2>4. /\ ReadOf(r) /\ DOMAIN r = DOMAIN driver[h]
        /\ \A t \in DOMAIN r \ {"DestinationMacAddresses"} : r[t] = driver[h][t]
    BY <2>3, ReadBackIs DEF ReadBack
  <2> HIDE DEF r
  <2>5. Says(ConfigurationOf(r), driver[h], TRUE)
    BY <2>4, ReadSays
  <2> DEFINE named == [data EXCEPT !.SessionId = id]
  <2>6. named = DataOf(r, id, SubSessionOf(r))
    BY <2>2, SessionDataOf
  <2>7. object' = Object("SessionData", h, TRUE, named, ToSessionDataObject(named))
    BY <2>2, Zenon
  <2> HIDE DEF named
  <2>8. named.ConfigurationParameters = ConfigurationOf(r)
    BY <2>6 DEF DataOf
  <2>9. object'.from = h /\ object'.kind = "SessionData" /\ object'.content = named
    BY <2>7 DEF Object
  <2>10. LinkSays'
    BY <2>1, <2>3, <2>5, <2>8, <2>9, Zenon DEF LinkSays, ObjectSays, HasSession
  <2>11. QED
    BY <1>1, <1>3, <1>4, <2>1, <2>10
<1>10. ASSUME NEW h, NEW i, SendSessionData(h, i) PROVE PeersIInv'
  <2>1. /\ object' = Object("SessionData", h, FALSE, SessionData[i],
                            ToSessionDataObject(SessionData[i]))
        /\ UNCHANGED <<driver, decoded, before, joined>>
    BY <1>10 DEF SendSessionData
  <2>2. object'.ofSession = FALSE
    BY <2>1 DEF Object
  <2>3. LinkSays'
    BY <2>2, Zenon DEF LinkSays
  <2>4. QED
    BY <1>1, <1>3, <1>4, <2>1, <2>3
<1>11. ASSUME NEW h, NEW i, SendCapabilities(h, i) PROVE PeersIInv'
  <2>1. /\ \E c : object' = Object("Capability", h, FALSE, c, ToOobDataObject(c))
        /\ UNCHANGED <<driver, decoded, before, joined>>
    BY <1>11 DEF SendCapabilities
  <2>2. object'.ofSession = FALSE
    BY <2>1 DEF Object
  <2>3. LinkSays'
    BY <2>2, Zenon DEF LinkSays
  <2>4. QED
    BY <1>1, <1>3, <1>4, <2>1, <2>3
<1>12. ASSUME NEW h \in Host, Receive(h) PROVE PeersIInv'
  <2>1. DecodedSays'
    BY <1>12, ReceiveSays
  <2>2. object' = None /\ joined' = joined
    BY <1>12, Zenon DEF Receive
  <2>3. LinkSays'
    BY <2>2 DEF LinkSays
  <2>4. QED
    BY <1>1, <1>3, <2>1, <2>2, <2>3
<1>13. ASSUME NEW h \in Host, Join(h) PROVE PeersIInv'
  <2>1. JoinedSays'
    BY <1>13, JoinSays
  <2>2. object' = object /\ decoded' = decoded
    BY <1>13, Zenon DEF Join
  <2>3. QED
    BY <1>1, <1>4, <1>5, <2>1, <2>2
<1>14. ASSUME NEW n, EndEarly(n) PROVE PeersIInv'
  <2>1. /\ object # None
        /\ object' = [object EXCEPT !.bytes = SubSeq(@, 1, n), !.whole = FALSE, !.content = None]
        /\ UNCHANGED <<driver, decoded, before, joined>>
    BY <1>14 DEF EndEarly
  <2>2. OnLink(object)
    BY <2>1 DEF ArrivesIInv, LinkInv
  <2>3. object'.from = object.from /\ object'.ofSession = object.ofSession /\ object'.kind = object.kind
    <3>1. object = [kind |-> object.kind, from |-> object.from, ofSession |-> object.ofSession,
                    whole |-> object.whole, content |-> object.content, bytes |-> object.bytes]
      BY <2>2, Zenon DEF OnLink
    <3>2. DOMAIN object = {"kind", "from", "ofSession", "whole", "content", "bytes"}
      BY <3>1
    <3>3. QED
      BY <2>1, <3>2
  <2>4. object'.whole = FALSE
    <3>1. object = [kind |-> object.kind, from |-> object.from, ofSession |-> object.ofSession,
                    whole |-> object.whole, content |-> object.content, bytes |-> object.bytes]
      BY <2>2, Zenon DEF OnLink
    <3>2. DOMAIN object = {"kind", "from", "ofSession", "whole", "content", "bytes"}
      BY <3>1
    <3>3. QED
      BY <2>1, <3>2
  <2>5. LinkSays'
    BY <2>1, <2>3, <2>4, Zenon DEF LinkSays, ObjectSays, HasSession
  <2>6. QED
    BY <1>1, <1>3, <1>4, <2>1, <2>5
<1>15. QED
  BY <1>6, <1>7, <1>8, <1>9, <1>10, <1>11, <1>12, <1>13, <1>14, Zenon DEF Next

\* A driver that was configured from the object of the other host's session has the
\* same as that host's driver, whatever the session's parameters are.
THEOREM DriversAgree == Spec => []PeersAgree
<1>1. Init => PeersIInv
  <2>1. Init => ReceivedInv /\ LinkInv /\ BeforeInv /\ ConfiguredInv
    BY DEF Init, ReceivedInv, LinkInv, BeforeInv, ConfiguredInv
  <2>2. Init => LinkSays /\ DecodedSays /\ JoinedSays
    BY DEF Init, LinkSays, DecodedSays, JoinedSays
  <2>3. QED
    BY <2>1, <2>2 DEF PeersIInv, ArrivesIInv
<1>2. PeersIInv /\ [Next]_vars => PeersIInv'
  BY PeersIInvStep
<1>3. PeersIInv => PeersAgree
  BY PeersImplied DEF PeersIInv
<1>4. QED
  BY <1>1, <1>2, <1>3, PTL DEF Spec

===============================================================================
