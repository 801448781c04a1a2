------------------------------ MODULE UwbIoctl ------------------------------
(***************************************************************************)
(* The calls of the connector (windows/devices/uwb/UwbConnector.cxx) and   *)
(* of the simulator's own connector, composed with the driver.             *)
(*                                                                         *)
(* A call opens a handle of its own, sends its IOCTL, waits for it, and    *)
(* keeps the promise it returns the future of, all in the caller's thread. *)
(***************************************************************************)
EXTENDS UwbSimulator

CONSTANT Code   \* the IOCTLs that clients send, for model checking

VARIABLE promise    \* of each client: what became of its last promise

allVars == <<promise, vars>>

IoctlInit == Init /\ promise = [c \in Client |-> "none"]

\* The promise has a value or an exception, or is destroyed without either.
Keeps(c) == promise' = [promise EXCEPT ![c] = "kept"]
Breaks(c) == promise' = [promise EXCEPT ![c] = "broken"]

ChangesState == {"SESSION_INIT", "SESSION_DEINIT", "STOP_RANGING_SESSION"}

\* Do two requests that change the state of a session of the id overlap?
Overlaps(c, code, i) ==
    code \in ChangesState /\ \E d \in Client \ {c} :
        request[d].id = i /\ request[d].code \in ChangesState

\* OpenDriverHandle and DeviceIoControl: the queue's callback finds the file
\* and its handler, checks the sizes of the buffers, and dispatches.
DeviceIoControl(c, code, i, arg, size) ==
    /\ code \in Code
    /\ request' = [request EXCEPT ![c] =
            [Idle EXCEPT !.at = "begin", !.code = code, !.id = i, !.arg = arg,
                  !.size = size]]
    /\ overlapped' = [j \in SessionId |-> overlapped[j] \/ (j = i /\ Overlaps(c, code, i))]
    /\ promise' = [promise EXCEPT ![c] = "none"]
    /\ last' = [f \in Listener |-> [j \in SessionId |->
                    IF overlapped'[j] THEN None ELSE last[f][j]]]
    /\ UNCHANGED <<m_deviceState, sessionVars, m_deviceFiles, balance>>

\* The handle or the IOCTL fails: an exception, Rejected or Failed.
FailsWithException(c) ==
    /\ Keeps(c)
    /\ UNCHANGED vars

\* No handle: the function returns without keeping its promise.
FailsSilently(c) ==
    /\ Breaks(c)
    /\ UNCHANGED vars

\* Faulty variants, for checking that the properties would notice them.
\* The second attempt has the size of the first.
RetriesWithoutGrowing(c) ==
    /\ request[c].status = "Overflow" /\ request[c].attempt = 0
    /\ request' = [request EXCEPT ![c].at = "begin", ![c].attempt = 1,
                        ![c].status = "Ok"]
    /\ UNCHANGED <<promise, m_deviceState, sessionVars, fileVars, historyVars>>

-----------------------------------------------------------------------------
(* One action for each function: it is called in any thread that is idle.  *)

Reset(c) ==
    /\ At(c, "idle")
    /\ DeviceIoControl(c, "DEVICE_RESET", None, None, 0) \/ FailsWithException(c)

GetDeviceInformation(c) ==
    /\ At(c, "idle")
    /\ DeviceIoControl(c, "GET_DEVICE_INFO", None, None, 0) \/ FailsWithException(c)

GetCapabilities(c) ==
    /\ At(c, "idle")
    /\ \/ DeviceIoControl(c, "GET_DEVICE_CAPABILITIES", None, None, 0)
       \/ FailsWithException(c) \/ FailsSilently(c)

GetSessionCount(c) ==
    /\ At(c, "idle")
    /\ DeviceIoControl(c, "GET_SESSION_COUNT", None, None, 0) \/ FailsWithException(c)

\* A slot is left for a new session: Slot bounds the sessions.
ConnectorSessionInitialize(c, i) ==
    /\ At(c, "idle")
    /\ Cardinality({d \in Client : request[d].code = "SESSION_INIT" /\ At(d, "begin")})
            < Cardinality(FreeSlots)
    /\ DeviceIoControl(c, "SESSION_INIT", i, None, 0) \/ FailsWithException(c)

SessionDeinitialize(c, i) ==
    /\ At(c, "idle")
    /\ DeviceIoControl(c, "SESSION_DEINIT", i, None, 0) \/ FailsWithException(c)

SessionGetState(c, i) ==
    /\ At(c, "idle")
    /\ DeviceIoControl(c, "GET_SESSION_STATE", i, None, 0) \/ FailsWithException(c)

\* Not implemented: no IOCTL is sent, and the promise is destroyed.
SessionGetRangingCount(c) ==
    /\ At(c, "idle")
    /\ FailsSilently(c)

SessionRangingStart(c, i) ==
    /\ At(c, "idle")
    /\ DeviceIoControl(c, "START_RANGING_SESSION", i, None, 0) \/ FailsWithException(c)

SessionRangingStop(c, i) ==
    /\ At(c, "idle")
    /\ DeviceIoControl(c, "STOP_RANGING_SESSION", i, None, 0) \/ FailsWithException(c)

UpdateControllerMulticastList(c, i, list) ==
    /\ At(c, "idle")
    /\ \/ DeviceIoControl(c, "SESSION_UPDATE_CONTROLLER_MULTICAST_LIST", i, list, 0)
       \/ FailsWithException(c)

GetApplicationConfigurationParameters(c, i) ==
    /\ At(c, "idle")
    /\ DeviceIoControl(c, "GET_APP_CONFIG_PARAMS", i, None, 0) \/ FailsWithException(c)

\* The session has at least n parameters afterwards.
SetApplicationConfigurationParameters(c, i, n) ==
    /\ At(c, "idle")
    /\ DeviceIoControl(c, "SET_APP_CONFIG_PARAMS", i, None, n) \/ FailsWithException(c)

\* An IOCTL that fails is logged, and the promise kept all the same.
\* Generator bounds the threads: one is left for each request to start.
TriggerSessionEvent(c, i, action) ==
    /\ At(c, "idle")
    /\ Cardinality({d \in Client : request[d].arg = "start"
                                    /\ request[d].thread = None}) < Cardinality(FreeThreads)
    /\ \/ DeviceIoControl(c, "SIM_TRIGGER_SESSION_EVENT", i, action, 0)
       \/ FailsWithException(c) \/ FailsSilently(c)

GetSimulatorCapabilites(c) ==
    /\ At(c, "idle")
    /\ \/ DeviceIoControl(c, "SIM_GET_CAPABILITIES", None, None, 0)
       \/ FailsWithException(c) \/ FailsSilently(c)

\* The buffer was too small: the size that is needed has been reported, and the
\* IOCTL is tried a second time, in the same way.
Retries(c) ==
    /\ request[c].status = "Overflow" /\ request[c].attempt = 0
    /\ request' = [request EXCEPT ![c].at = "begin", ![c].attempt = 1,
                        ![c].status = "Ok", ![c].size = request[c].needed,
                        ![c].needed = 0]
    /\ UNCHANGED <<promise, m_deviceState, sessionVars, fileVars, historyVars>>

\* Two attempts are made at most.  With a status other than Ok the promise has
\* an exception; after two that overflow, neither that nor a value.
Resolves(c) ==
    /\ request[c].status # "Overflow" \/ request[c].attempt = 1
    /\ IF request[c].status = "Overflow" THEN Breaks(c) ELSE Keeps(c)
    /\ LET change == IF request[c].status # "Ok" THEN 0
                     ELSE CASE request[c].code = "SESSION_INIT" -> 1
                            [] request[c].code = "SESSION_DEINIT" -> -1
                            [] OTHER -> 0
       IN balance' = [i \in SessionId |->
            IF i = request[c].id THEN balance[i] + change ELSE balance[i]]
    /\ request' = [request EXCEPT ![c] = Idle]
    /\ UNCHANGED <<m_deviceState, sessionVars, fileVars, overlapped>>

\* The handler has completed the request.
Completed(c) == At(c, "release") /\ request[c].held = {}

Completes(c) == Completed(c) /\ (Retries(c) \/ Resolves(c))

Events == {"start", "stop"}
MulticastActions == {"AddShortAddress", "DeleteShortAddress", "Other"}

ASSUME IoctlAssumption == None \notin Events

Calls(c) ==
    /\ ~terminated
    /\ \/ Reset(c) \/ GetDeviceInformation(c) \/ GetCapabilities(c)
       \/ GetSessionCount(c) \/ GetSimulatorCapabilites(c) \/ SessionGetRangingCount(c)
       \/ \E i \in SessionId :
             \/ ConnectorSessionInitialize(c, i) \/ SessionDeinitialize(c, i)
             \/ SessionGetState(c, i) \/ SessionRangingStart(c, i)
             \/ SessionRangingStop(c, i)
             \/ GetApplicationConfigurationParameters(c, i)
             \/ \E n \in 1 .. MaxParameters : SetApplicationConfigurationParameters(c, i, n)
             \/ \E list \in MulticastActions : UpdateControllerMulticastList(c, i, list)
             \/ \E action \in Events : TriggerSessionEvent(c, i, action)

Runs(c) == ~terminated /\ ((Dispatch(c) /\ UNCHANGED promise) \/ Completes(c))

\* The driver's process is gone.
Terminated == terminated /\ UNCHANGED allVars

Next ==
    \/ \E c \in Client : Calls(c) \/ Runs(c)
    \/ \E g \in Generator : Measures(g) /\ UNCHANGED promise
    \/ \E f \in Listener : (OnFileCreate(f) \/ OnFileClose(f)) /\ UNCHANGED promise
    \/ Terminated

\* The driver's threads run.  Nothing makes a client call or open a file.
Fairness ==
    /\ \A c \in Client : WF_allVars(Runs(c))
    /\ \A g \in Generator : WF_allVars(Measures(g) /\ UNCHANGED promise)

Spec == IoctlInit /\ [][Next]_allVars /\ Fairness

-----------------------------------------------------------------------------

\* Is a request on its way that changes the state of a session of the id?
Changing(i) ==
    \E c \in Client : request[c].id = i /\ request[c].code \in ChangesState

\* Who asks for the state when it opens the file, and then believes what it is
\* notified of, knows the state once the changes of it have come to rest, whenever
\* it opened: or that the session is gone.  Two changes that overlap may be told in
\* the other order than they were made.
LastNotificationIsState == \A i \in SessionId :
    ~Changing(i) /\ ~overlapped[i] =>
        \A f \in m_deviceFiles : last[f][i] = CurrentState(i)

\* However starts, stops and removals interleave, a generator that runs has its
\* session, whose memory it uses: the session is in the table, or a handler that
\* will wait for the thread still refers to it.  And one generator of a session at
\* most has not been asked to stop, unless a start is on its way.
OneGenerator == ~terminated =>
  /\ \A g \in Generator : Running(g) => ~FreeSlot(generator[g].session)
  /\ \A s \in Slot : (\A c \in Client : s \in request[c].held => request[c].arg # "start")
        => Cardinality({g \in Generator : generator[g] =
                [session |-> s, stop |-> FALSE, done |-> FALSE]}) <= 1

\* What clients were told adds up to what the driver has: of initializations and
\* removals of one id that race, just those that took effect were answered Ok.
OkMatchesTable == \A i \in SessionId :
    ~Changing(i) => balance[i] = IF m_sessions[i] = None THEN 0 ELSE 1

\* A call that reached the driver is answered, unless it asks for parameters and
\* others added some since its first attempt had found the session.
AnsweredUnlessGrown == [][\A c \in Client :
    Completes(c) /\ promise'[c] = "broken" =>
        /\ request[c].code = "GET_APP_CONFIG_PARAMS"
        /\ request[c].grown]_allVars

\* Every call returns, although handlers wait for threads that they replace or
\* destroy.
CallReturns == \A c \in Client : ~At(c, "idle") ~> (At(c, "idle") \/ terminated)

=============================================================================
