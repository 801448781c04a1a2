--------------------------- MODULE MCCommandLine ---------------------------
(* Instances of CommandLine for TLC. *)
EXTENDS CommandLine, TLC

MCLines ==
    { <<"rangestart">>, <<"monitor", "rangestart">>, <<"rangestart", "monitor">>,
      <<"rangestart", "getsessioncount", "devicereset">>,
      <<"rangestart", "sessiondeinit">>, <<"rangestop", "rangestart">>,
      <<"servicestart">>, <<"getsessioncount">>, <<"devicereset">> }

Text(t, a) == [type |-> t, address |-> a]

NotGiven == {"rangeDataNotificationConfig", "rangeDataNotificationProximityNear",
             "rangeDataNotificationProximityFar", "prfMode", "preambleCodeIndex", "sfdId",
             "bprfPhrDataRate", "numberOfStsSegments", "rFrameConfiguration",
             "responderSlotIndex", "keyRotationRate", "stsConfiguration", "subSessionId"}

MCOptions ==
    LET S(a) == Text("Short", a)
        E(a) == Text("Extended", a)
        Option(mode, device, others, n, type, node, given) ==
            given @@
            [macAddressMode |-> mode, deviceMacAddress |-> device,
             destinationMacAddresses |-> others, numberOfControlees |-> n,
             deviceType |-> type, multiNodeMode |-> node, resultReportConfig |-> << >>]
            @@ [name \in NotGiven |-> None]
        Proximity == [rangeDataNotificationConfig |-> "EnableInProximityRange"]
    IN { Option(None, S(1), <<S(2)>>, 1, "Controller", "Unicast", << >>),
         Option(None, S(1), <<S(2), S(2)>>, 2, "Controller", "OneToMany",
                [resultReportConfig |-> <<0, 1, 0, 1>>]),
         Option("Short", S(1), <<S(2), S(3)>>, 2, "Controller", "OneToMany",
                [numberOfStsSegments |-> 2, rFrameConfiguration |-> "SP1", sfdId |-> 3,
                 prfMode |-> "Hprf124MHz", preambleCodeIndex |-> 25]),
         Option("Extended", E(1), <<E(2), S(3)>>, 2, "Controller", "OneToMany", << >>),
         Option(None, Text("Malformed", 0), <<S(2)>>, 1, "Controlee", "Unicast",
                [numberOfStsSegments |-> 1]),
         Option("Extended", E(1), <<E(2)>>, 3, "Controlee", "OneToMany",
                Proximity @@ [rangeDataNotificationProximityNear |-> 20001,
                              rangeDataNotificationProximityFar |-> 20002]),
         Option(None, S(1), <<S(2)>>, 1, "Controlee", "Unicast",
                Proximity @@ [rangeDataNotificationProximityNear |-> 20001]) }
=============================================================================
