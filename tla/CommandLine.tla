---------------------------- MODULE CommandLine ----------------------------
(***************************************************************************)
(* One execution of nocli (tools/cli, windows/tools/nocli): the main       *)
(* thread parses the line, runs its commands and waits for those that      *)
(* complete later; Windows runs the handler of each Ctrl-C on a thread of  *)
(* its own; the end of the ranging session arrives on a dispatch thread of *)
(* the connector, under the connector's exclusive gate.                    *)
(*                                                                         *)
(* A line is a sequence of different commands. "devicereset" stands for    *)
(* getdeviceinfo too, "getsessioncount" for getsessionstate, "rangestop"   *)
(* for the service's.  The session is the one "rangestart" makes.          *)
(***************************************************************************)
EXTENDS CliParameters

CONSTANTS
    Handler,        \* the Ctrl-C presses, each with its thread
    Lines,          \* the command lines
    Options         \* the options of "rangestart"

Operation == {"sessiondeinit", "getsessioncount", "rangestart", "rangestop",
              "servicestart", "monitor"}
UsesDevice == {"devicereset", "sessiondeinit", "getsessioncount", "rangestart"}

\* The parser takes the name of a subcommand it has met for one only once.
ASSUME CommandLineAssumption ==
    /\ {"main", "dispatch"} \cap Handler = {}
    /\ \A l \in Lines :
          /\ l \in Seq(Operation \cup UsesDevice)
          /\ \A i, j \in DOMAIN l : l[i] = l[j] => i = j

\* The mandatory options are given; what is no number, or no text of an address,
\* has not been parsed.
IsText(t) == t = [type |-> t.type, address |-> t.address]

ASSUME OptionsAssumption ==
    /\ None \notin Nat \cup {"Controller", "Controlee"}
    /\ \A o \in Options :
          /\ o.deviceType \in {"Controller", "Controlee"}
          /\ o.numberOfControlees \in Nat
          /\ {"deviceType", "numberOfControlees", "deviceMacAddress",
              "destinationMacAddresses", "resultReportConfig", "rangeDataNotificationConfig",
              "rangeDataNotificationProximityNear", "rangeDataNotificationProximityFar"}
                 \subseteq DOMAIN o
          /\ IsText(o.deviceMacAddress)
          /\ \A i \in DOMAIN o.destinationMacAddresses : IsText(o.destinationMacAddresses[i])
          /\ {o.rangeDataNotificationProximityNear, o.rangeDataNotificationProximityFar}
                 \subseteq Nat \cup {None}

Waiter == {"main"} \cup Handler

VARIABLES
    line, options,
    pc,                 \* where each thread is
    next,               \* index of the command being parsed or run
    m_cliAppOperations, \* commands registered and not completed by main
    RangingParameters,  \* for the driver
    context,            \* has the control flow context been created?
    m_operationsCompleteLatchCount,
    m_operationCompleteLatch,
    seen,               \* the count a thread has read to decrement it
    stop_requested,
    m_stopCallbacks,    \* is the session's stop callback registered?
    taken,              \* ... or moved to the OnStop of a thread
    after,              \* where a thread's OnStop returns to
    m_activeSession,    \* does the handler hold the session?
    session             \* the driver's: "none", "active", "ended"

inputVars == <<line, options>>
latchVars == <<m_operationsCompleteLatchCount, m_operationCompleteLatch, seen>>
stopVars == <<stop_requested, m_stopCallbacks, taken, after>>
parseVars == <<next, m_cliAppOperations, RangingParameters, context>>
vars == <<inputVars, pc, parseVars, latchVars, stopVars, m_activeSession, session>>

Init ==
    /\ line \in Lines
    /\ options \in Options
    /\ pc = [t \in Waiter \cup {"dispatch"} |-> IF t = "main" THEN "parse" ELSE "idle"]
    /\ next = 1
    /\ m_cliAppOperations = {}
    /\ RangingParameters = None
    /\ context = FALSE
    /\ m_operationsCompleteLatchCount = 0
    /\ m_operationCompleteLatch = 0
    /\ seen = [t \in {"main", "dispatch"} |-> 0]
    /\ stop_requested = FALSE
    /\ m_stopCallbacks = FALSE
    /\ taken = [t \in Waiter |-> FALSE]
    /\ after = [t \in Waiter |-> IF t = "main" THEN "returned" ELSE "entry"]
    /\ m_activeSession = FALSE
    /\ session = "none"

\* The program ends when main does, or with std::terminate or a null pointer.
Over == pc["main"] \in {"returned", "aborted"}
Goes(t, to) == ~Over /\ pc' = [pc EXCEPT ![t] = to]
Aborts == Goes("main", "aborted")

\* The owners of the session object, besides m_activeSession: main's local,
\* the registered callback, or one that has been moved.
HeldElsewhere == \/ pc["main"] \in {"register", "save"}
                 \/ m_stopCallbacks \/ \E t \in Waiter : taken[t]
Held == m_activeSession \/ HeldElsewhere

-----------------------------------------------------------------------------
(* main: parse the whole line, then run its commands in order.             *)

RegisterCliAppWithOperation ==
    /\ pc["main"] = "parse" /\ next <= Len(line)
    /\ LET start == line[next] = "rangestart"
       IN IF start /\ ValidationThrows(Parsed(options))
          THEN Aborts /\ UNCHANGED parseVars
          ELSE /\ Goes("main", "parse")
               /\ next' = next + 1
               /\ m_cliAppOperations' =
                      m_cliAppOperations \cup ({line[next]} \cap Operation)
               /\ RangingParameters' =
                      IF start THEN ProcessApplicationConfigurationParameters(options)
                               ELSE RangingParameters
               /\ UNCHANGED context
    /\ UNCHANGED <<inputVars, latchVars, stopVars, m_activeSession, session>>

\* --help counts as a success: main goes on to wait for what is registered
\* already, with no context to wait on.
ParseError ==
    /\ pc["main"] = "parse"
    /\ Goes("main", "returned") \/ (m_cliAppOperations # {} /\ Aborts)
    /\ UNCHANGED <<inputVars, parseVars, latchVars, stopVars, m_activeSession, session>>

ParseComplete ==
    /\ pc["main"] = "parse" /\ next > Len(line)
    /\ Goes("main", "run")
    /\ context' = TRUE
    /\ m_operationsCompleteLatchCount' = Cardinality(m_cliAppOperations)
    /\ m_operationCompleteLatch' = Cardinality(m_cliAppOperations)
    /\ next' = 1
    /\ UNCHANGED <<inputVars, m_cliAppOperations, RangingParameters, seen, stopVars,
                   m_activeSession, session>>

Runs(commands) == /\ pc["main"] = "run" /\ next <= Len(line)
                  /\ line[next] \in commands

\* The command returns, and nothing is signalled.
GoesOn == Goes("main", "run") /\ next' = next + 1

NoDevice ==
    /\ Runs(UsesDevice)
    /\ GoesOn
    /\ UNCHANGED <<inputVars, m_cliAppOperations, RangingParameters, context,
                   latchVars, stopVars, m_activeSession, session>>

\* Not registered, and not signalled.
DeviceReset ==
    /\ Runs({"devicereset"})
    /\ GoesOn
    /\ UNCHANGED <<inputVars, m_cliAppOperations, RangingParameters, context,
                   latchVars, stopVars, m_activeSession, session>>

\* Registered, and never signalled.
ServiceRangeStart ==
    /\ Runs({"servicestart"})
    /\ GoesOn
    /\ UNCHANGED <<inputVars, m_cliAppOperations, RangingParameters, context,
                   latchVars, stopVars, m_activeSession, session>>

SignalCliAppOperationCompleted ==
    /\ m_cliAppOperations' = m_cliAppOperations \ {line[next]}
    /\ Goes("main", "check")
    /\ UNCHANGED <<inputVars, next, RangingParameters, context, latchVars,
                   stopVars, m_activeSession>>

\* sessiondeinit may name the session of this line.
SessionCommand ==
    /\ Runs({"sessiondeinit", "getsessioncount"})
    /\ SignalCliAppOperationCompleted
    /\ \/ session' = session
       \/ /\ line[next] = "sessiondeinit" /\ session = "active"
          /\ session' = "ended"

\* Not implemented: it stops nothing.
RangeStop ==
    /\ Runs({"rangestop"})
    /\ SignalCliAppOperationCompleted
    /\ UNCHANGED session

\* Reads the console until Enter.
HandleMonitorMode ==
    /\ Runs({"monitor"})
    /\ Goes("main", "monitor")
    /\ UNCHANGED <<inputVars, parseVars, latchVars, stopVars, m_activeSession, session>>

Enter ==
    /\ pc["main"] = "monitor"
    /\ SignalCliAppOperationCompleted
    /\ UNCHANGED session

\* An exception of CreateSession, Configure or StartRanging is swallowed.
StartFails ==
    /\ Runs({"rangestart"})
    /\ GoesOn
    /\ UNCHANGED <<inputVars, m_cliAppOperations, RangingParameters, context,
                   latchVars, stopVars, m_activeSession, session>>

HandleDriverStartRanging ==
    /\ Runs({"rangestart"})
    /\ Goes("main", "register")
    /\ session' = "active"
    /\ UNCHANGED <<inputVars, parseVars, latchVars, stopVars, m_activeSession>>

RegisterStopCallback ==
    /\ pc["main"] = "register"
    /\ Goes("main", "save")
    /\ m_stopCallbacks' = TRUE
    /\ UNCHANGED <<inputVars, parseVars, latchVars, stop_requested, taken, after,
                   m_activeSession, session>>

\* Faulty: the start counts as complete once it returns.
SaveSessionSignals ==
    /\ pc["main"] = "save"
    /\ m_activeSession' = TRUE
    /\ Goes("main", "check")
    /\ UNCHANGED <<inputVars, parseVars, latchVars, stopVars, session>>

SaveSession ==
    /\ pc["main"] = "save"
    /\ m_activeSession' = TRUE
    /\ GoesOn
    /\ UNCHANGED <<inputVars, m_cliAppOperations, RangingParameters, context,
                   latchVars, stopVars, session>>

\* main's WaitForExecutionComplete.
AllRun ==
    /\ pc["main"] = "run" /\ next > Len(line)
    /\ Goes("main", IF m_cliAppOperations = {} THEN "returned" ELSE "wait")
    /\ UNCHANGED <<inputVars, parseVars, latchVars, stopVars, m_activeSession, session>>

-----------------------------------------------------------------------------
(* The latch, and the plain counter beside it.                             *)

Signaled(t) == IF t = "main" THEN GoesOn ELSE Goes(t, "reset") /\ UNCHANGED next

\* Faulty: the handler took the context when it was made a parent's, before
\* the line was parsed and there was one.
CheckNoContext(t) ==
    /\ pc[t] = "check"
    /\ IF t = "main" THEN Goes(t, "count") ELSE Goes(t, "reset")
    /\ UNCHANGED <<inputVars, parseVars, latchVars, stopVars, m_activeSession, session>>

\* OperationSignalComplete(1): "BUG" is thrown to the noexcept Parse, or
\* into the future of a dispatch task that nobody reads.
Check(t) ==
    /\ pc[t] = "check"
    /\ CASE m_operationCompleteLatch = 0 -> Signaled(t)
         [] m_operationCompleteLatch > 0 /\ m_operationsCompleteLatchCount < 1 ->
                /\ IF t = "main" THEN Aborts ELSE Goes(t, "done")
                /\ UNCHANGED next
         [] OTHER -> Goes(t, "count") /\ UNCHANGED next
    /\ UNCHANGED <<inputVars, m_cliAppOperations, RangingParameters, context,
                   latchVars, stopVars, m_activeSession, session>>

CountDown(t) ==
    /\ pc[t] = "count"
    /\ Goes(t, "write")
    /\ m_operationCompleteLatch' = m_operationCompleteLatch - 1
    /\ seen' = [seen EXCEPT ![t] = m_operationsCompleteLatchCount]
    /\ UNCHANGED <<inputVars, parseVars, m_operationsCompleteLatchCount, stopVars,
                   m_activeSession, session>>

WriteCount(t) ==
    /\ pc[t] = "write"
    /\ Signaled(t)
    /\ m_operationsCompleteLatchCount' = seen[t] - 1
    /\ UNCHANGED <<inputVars, m_cliAppOperations, RangingParameters, context,
                   m_operationCompleteLatch, seen, stopVars, m_activeSession, session>>

-----------------------------------------------------------------------------
(* The session's end.                                                      *)

\* The driver ends it without being asked.
SessionEnds ==
    /\ session = "active" /\ session' = "ended"
    /\ Goes("dispatch", pc["dispatch"])
    /\ UNCHANGED <<inputVars, parseVars, latchVars, stopVars, m_activeSession>>

\* A callback is found as long as its session is alive.
OnSessionEnded ==
    /\ session = "ended" /\ pc["dispatch"] = "idle"
    /\ Goes("dispatch", IF Held THEN "check" ELSE "done")
    /\ UNCHANGED <<inputVars, parseVars, latchVars, stopVars, m_activeSession, session>>

\* The queue of the driver's notifications drops the one on top when its
\* request turns out too small: it may be the one that tells the session's end.
NotificationLost ==
    /\ session = "ended" /\ pc["dispatch"] = "idle"
    /\ Goes("dispatch", "lost")
    /\ UNCHANGED <<inputVars, parseVars, latchVars, stopVars, m_activeSession, session>>

\* The last reference deregisters the session's callbacks: that takes the
\* gate, which this thread holds.
ResetActiveSession ==
    /\ pc["dispatch"] = "reset"
    /\ m_activeSession' = FALSE
    /\ Goes("dispatch", IF m_activeSession /\ ~HeldElsewhere THEN "stuck" ELSE "done")
    /\ UNCHANGED <<inputVars, parseVars, latchVars, stopVars, session>>

-----------------------------------------------------------------------------
(* Ctrl-C, and the stop callbacks.                                         *)

CtrlHandler(h) ==
    /\ pc[h] = "idle"
    /\ Goes(h, "cancel")
    /\ UNCHANGED <<inputVars, parseVars, latchVars, stopVars, m_activeSession, session>>

\* Faulty: the stop source has no callback.
RequestStopOnly(h) ==
    /\ pc[h] = "cancel" /\ context
    /\ Goes(h, "entry")
    /\ stop_requested' = TRUE
    /\ UNCHANGED <<inputVars, parseVars, latchVars, m_stopCallbacks, taken, after,
                   m_activeSession, session>>

\* A handler that comes before the context exists uses a null pointer.  Only
\* the first request runs OnStop.
RequestStopExecution(h) ==
    /\ pc[h] = "cancel"
    /\ IF context
       THEN /\ Goes(h, IF stop_requested THEN "entry" ELSE "take")
            /\ stop_requested' = TRUE
       ELSE Aborts /\ UNCHANGED stop_requested
    /\ UNCHANGED <<inputVars, parseVars, latchVars, m_stopCallbacks, taken, after,
                   m_activeSession, session>>

WaitForExecutionComplete(h) ==
    /\ pc[h] = "entry"
    /\ Goes(h, IF m_cliAppOperations = {} THEN "done" ELSE "wait")
    /\ after' = [after EXCEPT ![h] = "done"]
    /\ UNCHANGED <<inputVars, parseVars, latchVars, stop_requested, m_stopCallbacks,
                   taken, m_activeSession, session>>

OperationsWaitForComplete(t) ==
    /\ pc[t] = "wait" /\ m_operationCompleteLatch = 0
    /\ Goes(t, "take")
    /\ UNCHANGED <<inputVars, parseVars, latchVars, stopVars, m_activeSession, session>>

\* OnStop moves the registered callbacks, under their gate, and runs them.
Take(t) ==
    /\ pc[t] = "take"
    /\ taken' = [taken EXCEPT ![t] = m_stopCallbacks]
    /\ m_stopCallbacks' = FALSE
    /\ Goes(t, IF m_stopCallbacks THEN "stop" ELSE after[t])
    /\ UNCHANGED <<inputVars, parseVars, latchVars, stop_requested, after,
                   m_activeSession, session>>

\* StopRanging, whose errors are swallowed, and Destroy, which throws when
\* the driver refuses: always when the session has ended already.  main
\* catches and returns; a stop_callback or a handler's thread terminates.
StopCallback(t) ==
    /\ pc[t] = "stop"
    /\ \/ session = "active" /\ session' = "ended" /\ Goes(t, "drop")
       \/ /\ UNCHANGED session
          /\ IF t = "main" THEN Goes(t, "drop") ELSE Aborts
    /\ UNCHANGED <<inputVars, parseVars, latchVars, stop_requested, m_stopCallbacks,
                   taken, after, m_activeSession>>

\* The callback goes, and its reference with it: the last one deregisters
\* under the connector's gate, and so waits for a dispatch in progress.
Drop(t) ==
    /\ pc[t] = "drop"
    /\ taken' = [taken EXCEPT ![t] = FALSE]
    /\ Goes(t, after[t])
    /\ UNCHANGED <<inputVars, parseVars, latchVars, stop_requested, m_stopCallbacks,
                   after, m_activeSession, session>>
    /\ Held' \/ pc["dispatch"] \in {"idle", "lost", "done"}

-----------------------------------------------------------------------------
\* The steps of main that it takes by itself: all but the user's Enter.
MainRuns ==
    \/ RegisterCliAppWithOperation \/ ParseComplete
    \/ NoDevice \/ DeviceReset \/ ServiceRangeStart \/ SessionCommand \/ RangeStop
    \/ HandleMonitorMode
    \/ StartFails \/ HandleDriverStartRanging \/ RegisterStopCallback \/ SaveSession
    \/ AllRun

Signals(t) == Check(t) \/ CountDown(t) \/ WriteCount(t)
OnStop(t) == Take(t) \/ StopCallback(t) \/ Drop(t)

HandlerRuns(h) ==
    \/ RequestStopExecution(h) \/ WaitForExecutionComplete(h)
    \/ OperationsWaitForComplete(h) \/ OnStop(h)

Dispatch ==
    \/ OnSessionEnded \/ NotificationLost
    \/ Signals("dispatch") \/ ResetActiveSession

Next ==
    \/ MainRuns \/ ParseError \/ Enter
    \/ Signals("main") \/ OperationsWaitForComplete("main") \/ OnStop("main")
    \/ SessionEnds \/ Dispatch
    \/ \E h \in Handler : CtrlHandler(h) \/ HandlerRuns(h)

\* Threads run; nobody has to press a key, and no session has to end.  The
\* end of one is told or lost: fairness of Dispatch says nothing of which.
Fairness ==
    /\ WF_vars(MainRuns \/ Signals("main"))
    /\ WF_vars(OperationsWaitForComplete("main") \/ OnStop("main"))
    /\ WF_vars(Dispatch)
    /\ \A h \in Handler : WF_vars(HandlerRuns(h))

Spec == Init /\ [][Next]_vars /\ Fairness

-----------------------------------------------------------------------------
(* Properties.                                                             *)

\* Who gets past the latch, main or a Ctrl-C handler, finds every operation
\* of the line complete: the commands have returned, and the session that
\* "rangestart" began has ended, whoever ended it.
WaitedForAll ==
    \A t \in Waiter :
        pc[t] \in {"take", "stop", "drop"} /\ after[t] # "entry" =>
            /\ m_cliAppOperations \subseteq {"rangestart"}
            /\ "rangestart" \in m_cliAppOperations => session = "ended"

\* What goes to the driver without a complaint is consistent: the device's
\* own address, and as many different addresses of the others as there are
\* controlees, or one of a controller, all of the type the mode tells; and a
\* range for notifications by proximity that is not empty, the driver's
\* default standing for the bound that is not sent.
QuietIsConsistent ==
    RangingParameters # None /\ Quiet(options) =>
        LET Sent(name, default) ==
                IF name \in DOMAIN RangingParameters THEN RangingParameters[name] ELSE default
            others == Sent("destinationMacAddresses", {})
            type == MacAddressType(options)
        IN /\ Sent("deviceMacAddress", None) # None
           /\ options.deviceMacAddress.type = type
           /\ Cardinality(others) =
                  (IF Sent("deviceType", None) = "Controlee"
                   THEN 1 ELSE Sent("numberOfControlees", 0))
           /\ \A a \in others : \E i \in DOMAIN options.destinationMacAddresses :
                  options.destinationMacAddresses[i] = [type |-> type, address |-> a]
           /\ Sent("rangeDataNotificationConfig", None) = "EnableInProximityRange" =>
                  Sent("rangeDataNotificationProximityNear", 0) <=
                      Sent("rangeDataNotificationProximityFar", 20000)

\* The notification of the session's end is lost: then nobody counts the
\* session's operation down, and main waits for ever.
EndIsLost == pc["dispatch"] = "lost"

\* A first Ctrl-C that finds nothing left but the session, its stop callback
\* registered, ends the session and with it the program, unless the driver's
\* notification of that end is lost.
OnlySession == /\ pc["main"] = "wait" /\ m_cliAppOperations = {"rangestart"}
               /\ m_stopCallbacks
StopEnds ==
    (OnlySession /\ ~stop_requested /\ \E h \in Handler : pc[h] = "cancel")
        ~> Over \/ EndIsLost

\* Once nothing is left but the session, its end, by the driver or by another
\* command, ends the program, unless the notification of it is lost.
SessionEndReturns == (OnlySession /\ session = "ended") ~> Over \/ EndIsLost
=============================================================================
