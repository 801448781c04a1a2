---------------------------- MODULE UwbCapability ----------------------------
(***************************************************************************)
(* What a device supports: the structure UwbCapability, the object that    *)
(* announces it out of band, and its conversion from the capabilities that *)
(* a driver reports (UwbCxAdapterDdiLrp).                                  *)
(*                                                                         *)
(* A capability is a function from its parameters' tags to their values: a *)
(* number, 0 or 1, or the set of what is supported.  A decoder is the set  *)
(* of its outcomes, none if it throws.                                     *)
(***************************************************************************)
EXTENDS UwbOutOfBand

CapabilityTag == Enumeration(
    <<"FiraPhyVersionRange", "FiraMacVersionRange", "DeviceRoles", "RangingMethod", "StsConfig",
      "MultiNodeMode", "RangingMode", "ScheduledMode", "HoppingMode", "BlockStriding",
      "UwbInitiationTime", "Channels", "RFrameConfig", "CcConstraintLength",
      "BprfParameterSets", "HprfParameterSets", "AoaSupport", "ExtendedMacAddress">>, 128)

\* The places of the bits of the supported values.
Bit ==
    [DeviceRoles |-> [Responder |-> 0, Initiator |-> 1],
     RangingMethod |-> RangingRoundUsage,
     StsConfig |-> [Static |-> 0, Dynamic |-> 1, DynamicWithResponderSubSessionKey |-> 2],
     MultiNodeMode |-> [Unicast |-> 0, OneToMany |-> 1, ManyToMany |-> 2],
     RangingMode |-> [Block |-> 0, Interval |-> 1],
     ScheduledMode |-> [Contention |-> 0, Time |-> 1],
     Channels |-> [C5 |-> 0, C6 |-> 1, C8 |-> 2, C9 |-> 3, C10 |-> 4, C12 |-> 5, C13 |-> 6,
                   C14 |-> 7],
     RFrameConfig |-> [SP0 |-> 0, SP1 |-> 1, SP3 |-> 3],
     CcConstraintLength |-> [K3 |-> 0, K7 |-> 1],
     BprfParameterSets |-> [n \in BprfParameter |-> n - 1],
     HprfParameterSets |-> [n \in HprfParameter |-> n - 1],
     AoaSupport |-> [Azimuth90 |-> 0, Azimuth180 |-> 1, Elevation |-> 2]]
AngleOfArrivalFomBit == 3

\* The members' defaults: everything of most sets.  The figure of merit has no
\* tag of its own.
DefaultCapability ==
    [t \in DOMAIN CapabilityTag \cup {"AngleOfArrivalFom"} |->
        CASE t = "MultiNodeMode" -> {"Unicast", "OneToMany"}
          [] t = "RFrameConfig" -> {"SP1", "SP3"}
          [] t = "RangingMode" -> {"Block"}
          [] t = "ScheduledMode" -> {"Time"}
          [] t \in {"BlockStriding", "HoppingMode"} -> 1
          [] t \in {"FiraPhyVersionRange", "FiraMacVersionRange", "ExtendedMacAddress",
                    "UwbInitiationTime", "AngleOfArrivalFom"} -> 0
          [] OTHER -> DOMAIN Bit[t]]

---------------------------------------------------------------------------
(* The object. *)

\* The bytes of a set of bits, the most significant first.
BytesOf(bits, length) ==
    [i \in 1..length |->
        LET bit(k) == IF 8 * (length - i) + k \in bits THEN 2 ^ k ELSE 0
        IN  bit(0) + bit(1) + bit(2) + bit(3) + bit(4) + bit(5) + bit(6) + bit(7)]
\* The bits that are set in them.
BitsOf(bytes) ==
    {b \in 0..(8 * Len(bytes) - 1) :
        (bytes[Len(bytes) - b \div 8] \div 2 ^ (b % 8)) % 2 = 1}
EncodeValuesAsBytes(t, values, length) == BytesOf({Bit[t][v] : v \in values}, length)
AssignValuesFromBytes(t, bytes) == {v \in DOMAIN Bit[t] : Bit[t][v] \in BitsOf(bytes)}

\* The number of bytes that a value has on both sides.
CapabilityWidth(t) ==
    CASE t \in {"FiraPhyVersionRange", "FiraMacVersionRange"} -> 4
      [] t = "HprfParameterSets" -> 5
      [] OTHER -> 1
ToOobDataObject(c) ==
    LET bytes(t) ==
            CASE t = "AoaSupport" ->
                    BytesOf({Bit[t][v] : v \in c[t]}
                            \cup (IF c.AngleOfArrivalFom = 1 THEN {AngleOfArrivalFomBit} ELSE {}), 1)
              [] t \in DOMAIN Bit \ {"AoaSupport"} -> EncodeValuesAsBytes(t, c[t], CapabilityWidth(t))
              [] OTHER -> GetBytesBigEndianFromBitMap(c[t], CapabilityWidth(t))
    IN  ObjectOf(<<163>>, CapabilityTag, [t \in DOMAIN CapabilityTag |-> bytes(t)])
\* Tags it does not know are ignored; what is absent has its default.
FromOobDataObject(tlv) ==
    LET found == Found(tlv, CapabilityTag, Kept)
        value(t) ==
            CASE t \in DOMAIN Bit -> AssignValuesFromBytes(t, found[t].value)
              [] t \in {"FiraPhyVersionRange", "FiraMacVersionRange"} ->
                    ReadSizeTFromBytesBigEndian(found[t].value)
              [] OTHER -> IF found[t].value[1] # 0 THEN 1 ELSE 0
        merit == IF AngleOfArrivalFomBit \in BitsOf(found["AoaSupport"].value) THEN 1 ELSE 0
    IN  IF \/ tlv.tag # <<163>>
           \/ \E i \in DOMAIN tlv.values : Len(tlv.values[i].tag) # 1
           \/ \E t \in DOMAIN found : Len(found[t].value) # CapabilityWidth(t)
        THEN {}
        ELSE {[t \in DOMAIN DefaultCapability |->
                CASE t \in DOMAIN found -> value(t)
                  [] t = "AngleOfArrivalFom" /\ "AoaSupport" \in DOMAIN found -> merit
                  [] OTHER -> DefaultCapability[t]]}

---------------------------------------------------------------------------
(* The driver's report: a sequence of parameter type and value, of which   *)
(* one byte is read, or four for the versions.                             *)

CapabilityOf ==
    [PHY_VERSION_RANGE |-> "FiraPhyVersionRange", MAC_VERSION_RANGE |-> "FiraMacVersionRange",
     DEVICE_ROLES |-> "DeviceRoles", RANGING_METHOD |-> "RangingMethod",
     STS_CONFIG |-> "StsConfig", MULTI_NODE_MODE |-> "MultiNodeMode",
     RANGING_TIME_STRUCT |-> "RangingMode", SCHEDULED_MODE |-> "ScheduledMode",
     HOPPING_MODE |-> "HoppingMode", BLOCK_STRIDING |-> "BlockStriding",
     UWB_INITIATION_TIME |-> "UwbInitiationTime", CHANNELS |-> "Channels",
     RFRAME_CONFIG |-> "RFrameConfig", CC_CONSTRAINT_LENGTH |-> "CcConstraintLength",
     BPRF_PARAMETER_SETS |-> "BprfParameterSets", HPRF_PARAMETER_SETS |-> "HprfParameterSets",
     AOA_SUPPORT |-> "AoaSupport", EXTENDED_MAC_ADDRESS |-> "ExtendedMacAddress"]
\* Of two bits, the first is looked at.
SingleBits == {"HOPPING_MODE", "BLOCK_STRIDING"}

\* The supported values are added to the ones the structure starts with.
ToCapability(c, type, value) ==
    LET t == CapabilityOf[type] IN
    IF type \notin DOMAIN CapabilityOf THEN c
    ELSE IF t \in DOMAIN Bit
    THEN [c EXCEPT ![t] = @ \cup AssignValuesFromBytes(t, <<value % 256>>),
                   !.AngleOfArrivalFom = IF t = "AoaSupport"
                                         THEN (value \div 2 ^ AngleOfArrivalFomBit) % 2 ELSE @]
    ELSE IF CapabilityWidth(t) = 4 THEN [c EXCEPT ![t] = value]
    ELSE IF type \in SingleBits THEN [c EXCEPT ![t] = value % 2]
    ELSE [c EXCEPT ![t] = IF value % 256 # 0 THEN 1 ELSE 0]
\* A method's bit does not fit into the set that is tested for it, which throws.
ToCapabilities(reported) ==
    IF \E i \in DOMAIN reported : reported[i].type = "RANGING_METHOD" THEN {}
    ELSE LET after[i \in 0..Len(reported)] ==
                 IF i = 0 THEN DefaultCapability
                 ELSE ToCapability(after[i - 1], reported[i].type, reported[i].value)
         IN  {after[Len(reported)]}
=============================================================================
