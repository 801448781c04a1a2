---------------------------- MODULE UwbSimulator ----------------------------
(***************************************************************************)
(* The simulator driver (windows/drivers/uwb/simulator): its files, its    *)
(* table of sessions, the device's state, the handlers of its IOCTLs, and  *)
(* the threads that generate ranging measurements.                         *)
(*                                                                         *)
(* The queue hands out requests in parallel, and no lock spans the steps   *)
(* of a handler: each access to what requests share is a step.  Requests   *)
(* are made in UwbIoctl, which has the specification and the properties.   *)
(* Of the application configuration only the number of parameters is kept: *)
(* UwbSession has their values.  The controlees of a session and its count *)
(* of rangings are not: no request of the connectors reads them back.      *)
(***************************************************************************)
EXTENDS Integers, FiniteSets, FiniteSetsExt

CONSTANTS
    Client,         \* threads that make a request, each one at a time
    SessionId,
    Slot,           \* storage for UwbSimulatorSession objects; bounds those alive
    Generator,      \* threads that generate measurements; bounds those alive
    Listener,       \* openings of \Notifications
    MaxParameters,  \* bound on a session's parameters, for model checking
    None

ASSUME SimulatorAssumption ==
    /\ IsFiniteSet(Client) /\ IsFiniteSet(Listener)
    /\ IsFiniteSet(Slot) /\ IsFiniteSet(Generator)
    /\ MaxParameters \in Nat
    /\ None \notin Slot \cup Generator \cup Client

VARIABLES
    request,        \* of each client: its request, and how far its handler is
    m_deviceState,
    m_sessions,     \* the slot of each id, or None
    session,        \* the session object in each slot
    generator,      \* of each thread: its session, and whether to stop
    terminated,     \* has the runtime ended the driver's process?
    m_deviceFiles,  \* the open files that have an event queue
    last,           \* history: the state of each id as the reader of each file knows it
    overlapped,     \* history: ids with two state changes on their way at once
    balance         \* history: sessions created less removed, as told to clients

sessionVars == <<m_sessions, session, generator, terminated>>
fileVars == <<m_deviceFiles, last>>
historyVars == <<overlapped, balance>>
vars == <<request, m_deviceState, sessionVars, fileVars, historyVars>>

Idle == [at |-> "idle", code |-> "none", id |-> None, arg |-> None,
         held |-> {}, state |-> None, targets |-> {}, thread |-> None, joins |-> None,
         size |-> 0, needed |-> 0, status |-> "Ok", attempt |-> 0, grown |-> FALSE]

\* The state of a new session, and of a slot that is free.
NewSession == [State |-> "Deinitialized", Enabled |-> FALSE, Thread |-> None,
               Parameters |-> 0]
NoThread == [session |-> None, stop |-> FALSE, done |-> FALSE]

\* DeviceInitialize has run before the first request.
Init ==
    /\ request = [c \in Client |-> Idle]
    /\ m_deviceState = "Ready"
    /\ m_sessions = [i \in SessionId |-> None]
    /\ session = [s \in Slot |-> NewSession]
    /\ generator = [g \in Generator |-> NoThread]
    /\ terminated = FALSE
    /\ m_deviceFiles = {}
    /\ last = [f \in Listener |-> [i \in SessionId |-> None]]
    /\ overlapped = [i \in SessionId |-> FALSE]
    /\ balance = [i \in SessionId |-> 0]

At(c, at) == request[c].at = at
Goes(c, at) == request' = [request EXCEPT ![c].at = at]
\* The handler has its status; it has to let go of its session.
Ends(c, status) ==
    request' = [request EXCEPT ![c].at = "release", ![c].status = status]

CurrentState(i) ==
    IF m_sessions[i] = None THEN "Deinitialized" ELSE session[m_sessions[i]].State

InTable(s) == \E i \in SessionId : m_sessions[i] = s
Holders(s) == {c \in Client : s \in request[c].held}
FreeSlot(s) == ~InTable(s) /\ Holders(s) = {}
FreeSlots == {s \in Slot : FreeSlot(s)}
Running(g) == generator[g].session # None /\ ~generator[g].done
\* Nobody has a handle to it.
FreeThreads == {g \in Generator :
    generator[g] = NoThread /\ \A c \in Client : request[c].joins # g}

\* A session that the handler works on: the one that it has looked up last.
Of(c) == CHOOSE s \in request[c].held : TRUE

-----------------------------------------------------------------------------
(* Faulty variants, for checking that the properties would notice them.    *)

\* The lookup and the removal are not one: whatever is there is reported gone.
SessionDestroyUnchecked(c) ==
    /\ m_sessions' = [m_sessions EXCEPT ![request[c].id] = None]
    /\ Ends(c, "Ok")
    /\ UNCHANGED <<session, generator, terminated>>
\* The files to tell are chosen before the state is written.
SessionUpdateStateLate(c, state, at, next) ==
    \/ /\ At(c, at)
       /\ request' = [request EXCEPT ![c].at = "raise", ![c].targets = m_deviceFiles]
       /\ UNCHANGED <<session, fileVars>>
    \/ /\ At(c, "raise")
       /\ session' = [session EXCEPT ![Of(c)].State = state]
       /\ last' = [f \in Listener |-> [last[f] EXCEPT ![request[c].id] =
                        IF f \in request[c].targets /\ @ # None THEN state ELSE @]]
       /\ request' = [request EXCEPT ![c].at = next, ![c].targets = {}]
       /\ UNCHANGED m_deviceFiles
\* The old thread is let go of, and not stopped.
AssignOver(c, s) ==
    /\ At(c, "assign")
    /\ session' = [session EXCEPT ![s].Thread = request[c].thread]
    /\ request' = [request EXCEPT ![c].at = "release", ![c].thread = None]
    /\ UNCHANGED <<generator, terminated>>
\* The generator never looks at the stop token.
GeneratorUnstoppable(g) ==
    /\ Running(g) /\ generator[g].stop
    /\ UNCHANGED generator
\* The size that is reported is that of the part that fits.
AnswersClamped(c, needed) ==
    request' = [request EXCEPT ![c].at = "release", ![c].needed = request[c].size,
                    ![c].status = IF request[c].size < needed THEN "Overflow" ELSE "Ok"]

-----------------------------------------------------------------------------
(* The device.                                                             *)

\* A check and a write under a shared lock.  What is already in the state is
\* left alone; no notification is made.
DeviceUpdateState(c, at, state, next) ==
    \/ /\ At(c, at)
       /\ IF m_deviceState = state THEN Goes(c, next) ELSE Goes(c, state)
       /\ UNCHANGED m_deviceState
    \/ /\ At(c, state)
       /\ m_deviceState' = state
       /\ Goes(c, next)

\* DeviceUninitialize, then DeviceInitialize.
DeviceReset(c) ==
    \/ DeviceUpdateState(c, "begin", "Uninitialized", "initialize")
    \/ DeviceUpdateState(c, "initialize", "Ready", "release")

SessionGet(i) == m_sessions[i]

\* try_emplace: a duplicate is refused.  The handler holds the new session.
SessionCreate(c, next) ==
    LET i == request[c].id IN
    \/ /\ SessionGet(i) # None
       /\ Ends(c, "Duplicate")
       /\ UNCHANGED sessionVars
    \/ /\ SessionGet(i) = None
       /\ LET s == CHOOSE s \in Slot : FreeSlot(s) IN
            /\ m_sessions' = [m_sessions EXCEPT ![i] = s]
            /\ request' = [request EXCEPT ![c].at = next, ![c].held = {s}]
       /\ UNCHANGED <<session, generator, terminated>>

\* Whatever session the id has by now is extracted; the handler holds it, and
\* lets go of both when it returns.
SessionDestroy(c) ==
    LET i == request[c].id
        s == SessionGet(i)
    IN  /\ m_sessions' = [m_sessions EXCEPT ![i] = None]
        /\ request' = [request EXCEPT ![c].at = "release",
                ![c].status = IF s = None THEN "NotExist" ELSE "Ok",
                ![c].held = IF s = None THEN @ ELSE @ \cup {s}]
        /\ UNCHANGED <<session, generator, terminated>>

\* The open files are copied under their lock, and then told one by one.  One
\* that is closed meanwhile is told too, and nobody reads it.
PushUwbNotification(c, next) ==
    \/ /\ At(c, "raise")
       /\ request' = [request EXCEPT ![c].at = "push", ![c].targets = m_deviceFiles]
       /\ UNCHANGED fileVars
    \/ /\ At(c, "push")
       /\ \E f \in request[c].targets :
            /\ last' = [last EXCEPT ![f][request[c].id] =
                    IF overlapped[request[c].id] THEN None ELSE request[c].state]
            /\ request' = [request EXCEPT ![c].targets = @ \ {f}]
       /\ UNCHANGED m_deviceFiles
    \/ /\ At(c, "push")
       /\ request[c].targets = {}
       /\ Goes(c, next)
       /\ UNCHANGED fileVars

\* The state is written, and then the files are told.
SessionUpdateState(c, state, at, next) ==
    \/ /\ At(c, at)
       /\ session' = [session EXCEPT ![Of(c)].State = state]
       /\ request' = [request EXCEPT ![c].at = "raise", ![c].state = state]
       /\ UNCHANGED fileVars
    \/ PushUwbNotification(c, next) /\ UNCHANGED session

\* The first step of most handlers.  A session that is not there ends it.
Finds(c, next) ==
    /\ At(c, "begin")
    /\ LET s == SessionGet(request[c].id) IN
       IF s = None THEN Ends(c, "NotExist")
       ELSE request' = [request EXCEPT ![c].at = next, ![c].held = {s}]
    /\ UNCHANGED sessionVars

-----------------------------------------------------------------------------
(* UwbSimulatorSession: the generator of measurements.                     *)

\* The flag is looked at, set, a thread is started, and assigned: that stops
\* and joins the thread that was there.
RandomRangingMeasurementGenerationStart(c) ==
    \/ /\ At(c, "start")
       /\ IF session[Of(c)].Enabled THEN Ends(c, "Ok") ELSE Goes(c, "enable")
       /\ UNCHANGED <<session, generator>>
    \/ /\ At(c, "enable")
       /\ session' = [session EXCEPT ![Of(c)].Enabled = TRUE]
       /\ LET g == CHOOSE g \in FreeThreads : TRUE IN
            /\ generator' = [generator EXCEPT ![g].session = Of(c)]
            /\ request' = [request EXCEPT ![c].at = "assign", ![c].thread = g]

\* The move assignment of the jthread: the thread that the handle refers to is
\* asked to stop, and joined, and the other is moved into the handle.  If a racing
\* assignment has put another one there meanwhile, the runtime terminates.
AssignThread(c, s) ==
    LET old == session[s].Thread IN
    \/ /\ At(c, "assign")
       /\ IF old = None THEN Goes(c, "move") /\ UNCHANGED generator
          ELSE /\ generator' = [generator EXCEPT ![old].stop = TRUE]
               /\ request' = [request EXCEPT ![c].at = "join", ![c].joins = old]
       /\ UNCHANGED <<session, terminated>>
    \/ /\ At(c, "join")
       /\ ~Running(request[c].joins)
       /\ generator' = [generator EXCEPT ![request[c].joins] = NoThread]
       /\ session' = [session EXCEPT ![s].Thread = IF @ = request[c].joins THEN None ELSE @]
       /\ request' = [request EXCEPT ![c].at = "move", ![c].joins = None]
       /\ UNCHANGED terminated
    \/ /\ At(c, "move")
       /\ terminated' = (old # None)
       /\ session' = [session EXCEPT ![s].Thread = request[c].thread]
       /\ request' = [request EXCEPT ![c].at = "release", ![c].thread = None]
       /\ UNCHANGED generator

\* The flag is looked at, cleared, and the thread asked to stop, but not waited for.
RandomRangingMeasurementGenerationStop(c) ==
    \/ /\ At(c, "stop")
       /\ IF session[Of(c)].Enabled THEN Goes(c, "disable") ELSE Ends(c, "Ok")
       /\ UNCHANGED <<session, generator>>
    \/ /\ At(c, "disable")
       /\ session' = [session EXCEPT ![Of(c)].Enabled = FALSE]
       /\ Goes(c, "request_stop")
       /\ UNCHANGED generator
    \/ /\ At(c, "request_stop")
       /\ LET g == session[Of(c)].Thread IN
          generator' = IF g # None
                       THEN [generator EXCEPT ![g].stop = TRUE] ELSE generator
       /\ Ends(c, "Ok")
       /\ UNCHANGED session

\* The loop sleeps and raises measurements, which change nothing here, until it
\* finds that it has been asked to stop.
RandomRangingMeasurementGenerator(g) ==
    /\ Running(g) /\ generator[g].stop
    /\ generator' = [generator EXCEPT ![g].done = TRUE]

\* The reference to a session is dropped.  The last one destroys it, and with it
\* the jthread: it is asked to stop, and waited for.
SessionDestructor(c, s) ==
    LET g == session[s].Thread IN
    /\ s \in request[c].held
    /\ \/ /\ Holders(s) # {c} \/ InTable(s)
          /\ request' = [request EXCEPT ![c].held = @ \ {s}]
          /\ UNCHANGED <<session, generator>>
       \/ /\ Holders(s) = {c} /\ ~InTable(s)
          /\ \/ /\ g # None
                /\ ~generator[g].stop
                /\ generator' = [generator EXCEPT ![g].stop = TRUE]
                /\ UNCHANGED <<request, session>>
             \/ /\ g # None => ~Running(g)
                /\ request' = [request EXCEPT ![c].held = @ \ {s}]
                /\ session' = [session EXCEPT ![s] = NewSession]
                /\ generator' = [h \in Generator |->
                        IF h = g THEN NoThread ELSE generator[h]]

-----------------------------------------------------------------------------
(* UwbSimulatorDdiCallbacks, and the handlers that call it.  A handler     *)
(* copies the status it gets into the answer, except where said otherwise. *)

\* What is larger than the client's buffer is cut off, and its size reported.
Answers(c, needed) ==
    request' = [request EXCEPT ![c].at = "release", ![c].needed = needed,
                    ![c].status = IF request[c].size < needed THEN "Overflow" ELSE "Ok"]

\* A handler works when the request is its own and has not been completed.
Handles(c, code) == request[c].code = code /\ request[c].at # "idle"

OnUwbDeviceReset(c) ==
    /\ Handles(c, "DEVICE_RESET")
    /\ DeviceReset(c)
    /\ UNCHANGED <<sessionVars, fileVars, historyVars>>

\* Both are constants of the driver, with a part of variable length.
VariableSize == 1

OnUwbGetDeviceInformation(c) ==
    /\ Handles(c, "GET_DEVICE_INFO")
    /\ At(c, "begin")
    /\ Answers(c, VariableSize)
    /\ UNCHANGED <<m_deviceState, sessionVars, fileVars, historyVars>>

OnUwbGetDeviceCapabilities(c) ==
    /\ Handles(c, "GET_DEVICE_CAPABILITIES")
    /\ At(c, "begin")
    /\ Answers(c, VariableSize)
    /\ UNCHANGED <<m_deviceState, sessionVars, fileVars, historyVars>>

\* A count under the lock: it changes nothing.
OnUwbGetSessionCount(c) ==
    /\ Handles(c, "GET_SESSION_COUNT")
    /\ At(c, "begin")
    /\ Ends(c, "Ok")
    /\ UNCHANGED <<m_deviceState, sessionVars, fileVars, historyVars>>

SessionInitialize(c) ==
    \/ At(c, "begin") /\ SessionCreate(c, "update") /\ UNCHANGED fileVars
    \/ /\ SessionUpdateState(c, "Initialized", "update", "release")
       /\ UNCHANGED <<m_sessions, generator, terminated>>

OnUwbSessionInitialize(c) ==
    /\ Handles(c, "SESSION_INIT")
    /\ SessionInitialize(c)
    /\ UNCHANGED <<m_deviceState, historyVars>>

SessionDeninitialize(c) ==
    \/ Finds(c, "update") /\ UNCHANGED fileVars
    \/ /\ SessionUpdateState(c, "Deinitialized", "update", "destroy")
       /\ UNCHANGED <<m_sessions, generator, terminated>>
    \/ At(c, "destroy") /\ SessionDestroy(c) /\ UNCHANGED fileVars

OnUwbSessionDeinitialize(c) ==
    /\ Handles(c, "SESSION_DEINIT")
    /\ SessionDeninitialize(c)
    /\ UNCHANGED <<m_deviceState, historyVars>>

OnUwbGetSessionState(c) ==
    /\ Handles(c, "GET_SESSION_STATE")
    /\ Finds(c, "release")
    /\ UNCHANGED <<m_deviceState, fileVars, historyVars>>

\* Addresses are added or removed; every other action is refused.
SessionUpdateControllerMulticastList(c) ==
    /\ At(c, "list")
    /\ Ends(c, IF request[c].arg \in {"AddShortAddress", "DeleteShortAddress"}
               THEN "Ok" ELSE "InvalidParameter")
    /\ UNCHANGED session

OnUwbSessionUpdateControllerMulticastList(c) ==
    /\ Handles(c, "SESSION_UPDATE_CONTROLLER_MULTICAST_LIST")
    /\ \/ Finds(c, "list")
       \/ SessionUpdateControllerMulticastList(c) /\ UNCHANGED <<m_sessions, generator, terminated>>
    /\ UNCHANGED <<m_deviceState, fileVars, historyVars>>

\* RangingCount++, and no state or generator is touched.
OnUwbSessionStartRanging(c) ==
    /\ Handles(c, "START_RANGING_SESSION")
    /\ Finds(c, "release")
    /\ UNCHANGED <<m_deviceState, fileVars, historyVars>>

OnUwbSessionStopRanging(c) ==
    /\ Handles(c, "STOP_RANGING_SESSION")
    /\ \/ Finds(c, "update") /\ UNCHANGED fileVars
       \/ /\ SessionUpdateState(c, "Idle", "update", "release")
          /\ UNCHANGED <<m_sessions, generator, terminated>>
    /\ UNCHANGED <<m_deviceState, historyVars>>

\* Has the handler found the session whose parameters the client asks for, while
\* the client has yet to get them?
Asking(d) ==
    /\ request[d].code = "GET_APP_CONFIG_PARAMS"
    /\ At(d, "get") \/ request[d].status = "Overflow" \/ request[d].attempt = 1

\* The status is not copied: the answer is Ok, with no status of a parameter,
\* when there is no session.
OnUwbSetApplicationConfigurationParameters(c) ==
    /\ Handles(c, "SET_APP_CONFIG_PARAMS")
    /\ \/ Finds(c, "set")
       \/ /\ At(c, "set")
          /\ IF session[Of(c)].State = "Deinitialized" THEN UNCHANGED session
             ELSE session' = [session EXCEPT ![Of(c)].Parameters = Max({@, request[c].size})]
          /\ request' = [d \in Client |->
                IF d = c THEN [request[c] EXCEPT !.at = "release"]
                ELSE [request[d] EXCEPT !.grown = @ \/ (Asking(d) /\ session' # session)]]
          /\ UNCHANGED <<m_sessions, generator, terminated>>
    /\ UNCHANGED <<m_deviceState, fileVars, historyVars>>

OnUwbGetApplicationConfigurationParameters(c) ==
    /\ Handles(c, "GET_APP_CONFIG_PARAMS")
    /\ \/ Finds(c, "get")
       \/ At(c, "get") /\ Answers(c, session[Of(c)].Parameters) /\ UNCHANGED sessionVars
    /\ UNCHANGED <<m_deviceState, fileVars, historyVars>>

\* TriggerSessionEvent: an action of the generator of a session, if it is there.
OnUwbSimulatorTriggerSessionEvent(c) ==
    /\ Handles(c, "SIM_TRIGGER_SESSION_EVENT")
    /\ \/ Finds(c, request[c].arg)
       \/ /\ \/ RandomRangingMeasurementGenerationStart(c) /\ UNCHANGED terminated
             \/ request[c].held # {} /\ AssignThread(c, Of(c))
             \/ RandomRangingMeasurementGenerationStop(c) /\ UNCHANGED terminated
          /\ UNCHANGED m_sessions
    /\ UNCHANGED <<m_deviceState, fileVars, historyVars>>

OnUwbSimulatorCapabilities(c) ==
    /\ Handles(c, "SIM_GET_CAPABILITIES")
    /\ At(c, "begin")
    /\ Ends(c, "Ok")
    /\ UNCHANGED <<m_deviceState, sessionVars, fileVars, historyVars>>

\* The callback returns: its references are dropped.
Returns(c) ==
    /\ At(c, "release")
    /\ \E s \in Slot : SessionDestructor(c, s)
    /\ UNCHANGED <<m_deviceState, m_sessions, terminated, fileVars, historyVars>>

\* The function that the entry for the request's code names.
Dispatch(c) ==
    \/ OnUwbDeviceReset(c) \/ OnUwbGetDeviceInformation(c)
    \/ OnUwbGetDeviceCapabilities(c) \/ OnUwbGetSessionCount(c)
    \/ OnUwbSessionInitialize(c) \/ OnUwbSessionDeinitialize(c)
    \/ OnUwbGetSessionState(c) \/ OnUwbSessionUpdateControllerMulticastList(c)
    \/ OnUwbSessionStartRanging(c) \/ OnUwbSessionStopRanging(c)
    \/ OnUwbSetApplicationConfigurationParameters(c)
    \/ OnUwbGetApplicationConfigurationParameters(c)
    \/ OnUwbSimulatorTriggerSessionEvent(c) \/ OnUwbSimulatorCapabilities(c)
    \/ Returns(c)

Measures(g) ==
    /\ RandomRangingMeasurementGenerator(g)
    /\ UNCHANGED <<request, m_deviceState, m_sessions, session, terminated,
                   fileVars, historyVars>>

-----------------------------------------------------------------------------
(* Files.  That of an IOCTL has no queue, and is as good as absent.        *)

\* It may fail, and then nothing has changed.  Who opens the file asks for the
\* states first.
OnFileCreate(f) ==
    /\ f \notin m_deviceFiles
    /\ m_deviceFiles' = m_deviceFiles \cup {f}
    /\ last' = [last EXCEPT ![f] = [i \in SessionId |->
                    IF overlapped[i] THEN None ELSE CurrentState(i)]]
    /\ UNCHANGED <<request, m_deviceState, sessionVars, historyVars>>

\* The object, its queue and its thread stay behind; nothing can read them.
OnFileClose(f) ==
    /\ f \in m_deviceFiles
    /\ m_deviceFiles' = m_deviceFiles \ {f}
    /\ request' = [c \in Client |-> [request[c] EXCEPT !.targets = @ \ {f}]]
    /\ last' = [last EXCEPT ![f] = [i \in SessionId |-> None]]
    /\ UNCHANGED <<m_deviceState, sessionVars, historyVars>>

=============================================================================
