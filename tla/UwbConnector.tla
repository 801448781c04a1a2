---------------------------- MODULE UwbConnector ----------------------------
(***************************************************************************)
(* The event side of windows::devices::uwb::UwbConnector (windows/devices/ *)
(* uwb/UwbConnector.cxx): the registered callbacks, their invocation, and  *)
(* the life of the thread that listens for notifications.                  *)
(*                                                                         *)
(* Registration, deregistration and dispatch each hold m_eventCallbacksGate*)
(* from beginning to end and are one step; what happens outside it (a      *)
(* token resolved before the gate is taken, a client that lets go of its   *)
(* callback, the listener thread) is a step of its own.  How a notification*)
(* reaches the listener is the subject of UwbNotificationChannel; the names*)
(* here differ from those there, so that a module can extend both.         *)
(***************************************************************************)
EXTENDS Naturals, FiniteSets

CONSTANTS
    Client,             \* threads that deregister
    SessionId,
    Token,              \* the registrations, each made once at most
    SlotOf,             \* SlotOf[t]: the list that t is for
    MayFail,            \* may the driver refuse or lose the listener's handle?
    MaxTasks            \* bound on the dispatch tasks in flight

Device == "device"
SessionEvent == {"OnSessionEnded", "OnSessionStatusChanged"}
DeviceEvent == {"OnStatusChanged"}

\* The lists of callbacks.  The list and the two maps left out behave as
\* OnStatusChanged and, but for what follows a status, OnSessionStatusChanged.
SessionSlot == SessionEvent \X SessionId
DeviceSlot == DeviceEvent \X {Device}
Slot == SessionSlot \cup DeviceSlot

NoToken == "no token"

ASSUME ConnectorAssumption ==
    /\ SlotOf \in [Token -> Slot]
    /\ Device \notin SessionId
    /\ NoToken \notin Token
    /\ MayFail \in BOOLEAN
    /\ MaxTasks \in Nat

VARIABLES
    callbacks,          \* callbacks[s]: the tokens in the list s, whose order
                        \* nothing depends on; a session that has no entry in
                        \* its map has the empty list
    owned,              \* the tokens whose callback the client still holds
    deregistering,      \* deregistering[c]: the token that c has resolved, and
                        \* holds, while it waits for the gate
    m_notificationThread, \* "none" (not joinable), "starting", "running",
                        \* "stopping", "exited"
    m_notificationThreadStartPending,
    dispatches,         \* the notifications whose dispatch task has not run
    \* history
    registered,         \* the tokens ever registered
    served,             \* those registered before the listener was told to stop
    deregistered,       \* those that DeregisterEventCallback has returned for
    late                \* those whose callback was invoked after that

tokenVars == <<registered, served, deregistered, late>>
threadVars == <<m_notificationThread, m_notificationThreadStartPending>>
connectorVars == <<callbacks, owned, deregistering, threadVars, dispatches, tokenVars>>

\* A status that says Deinitialized is followed by the end of the session.
NotificationData ==
    [slot : {s \in SessionSlot : s[1] # "OnSessionEnded"}, deinitialized : BOOLEAN]
        \cup [slot : DeviceSlot, deinitialized : {FALSE}]

ConnectorInit ==
    /\ callbacks = [s \in Slot |-> {}]
    /\ owned = Token
    /\ deregistering = [c \in Client |-> NoToken]
    /\ m_notificationThread = "none"
    /\ m_notificationThreadStartPending = FALSE
    /\ dispatches = {}
    /\ registered = {} /\ served = {} /\ deregistered = {} /\ late = {}

Present(cbs) == \E s \in Slot : cbs[s] # {}
CallbacksPresent == Present(callbacks)

InLists(cbs) == UNION {cbs[s] : s \in Slot}

-----------------------------------------------------------------------------
(* The listener thread.                                                    *)

\* A joinable thread counts as running, even one that has finished.  A start
\* that fails to open the driver leaves the pending flag set.
NotificationListenerStart ==
    IF m_notificationThread # "none" \/ m_notificationThreadStartPending
    THEN UNCHANGED threadVars
    ELSE /\ m_notificationThreadStartPending' = TRUE
         /\ \/ m_notificationThread' = "starting"
            \/ MayFail /\ UNCHANGED m_notificationThread

\* The thread is asked to stop; it is not joined.
NotificationListenerStop ==
    /\ IF m_notificationThread \in {"starting", "running"}
       THEN m_notificationThread' = "stopping"
       ELSE UNCHANGED m_notificationThread
    /\ UNCHANGED m_notificationThreadStartPending

\* Faulty variants, for checking that the properties would notice them.
\* The listener is stopped whenever a token goes.
StopAlways(cbs) == NotificationListenerStop

\* A device's token is looked for and left where it is.
EraseNothing(list, t) == list

StopIfLast(cbs) ==
    IF Present(callbacks) /\ ~Present(cbs) THEN NotificationListenerStop ELSE UNCHANGED threadVars

StartIfFirst(cbs) ==
    IF ~Present(callbacks) /\ Present(cbs) THEN NotificationListenerStart ELSE UNCHANGED threadVars

\* HandleNotifications begins by clearing the pending flag.
ListenerBegins ==
    /\ m_notificationThread \in {"starting", "stopping"} /\ m_notificationThreadStartPending
    /\ IF m_notificationThread = "starting"
       THEN m_notificationThread' = "running"
       ELSE UNCHANGED m_notificationThread
    /\ m_notificationThreadStartPending' = FALSE
    /\ UNCHANGED <<callbacks, owned, deregistering, dispatches, tokenVars>>

\* It ends when it is told to, or when the driver fails it.
ListenerEnds ==
    /\ ~m_notificationThreadStartPending
    /\ m_notificationThread = "stopping" \/ (MayFail /\ m_notificationThread = "running")
    /\ m_notificationThread' = "exited"
    /\ UNCHANGED <<callbacks, owned, deregistering, m_notificationThreadStartPending,
                   dispatches, tokenVars>>

\* A notification has arrived: a task is started to dispatch it.
Notify(n) ==
    /\ m_notificationThread \in {"running", "stopping"} /\ ~m_notificationThreadStartPending
    /\ n \notin dispatches /\ Cardinality(dispatches) < MaxTasks
    /\ dispatches' = dispatches \cup {n}
    /\ UNCHANGED <<callbacks, owned, deregistering, threadVars, tokenVars>>

-----------------------------------------------------------------------------
(* The client's calls, and the callbacks' invocation.                      *)

\* InsertSessionToken and push_back.
Insert(cbs, R) ==
    [s \in Slot |-> cbs[s] \cup {t \in R : SlotOf[t] = s}]

\* RegisterDeviceEventCallbacks or RegisterSessionEventCallbacks, with some of
\* the callbacks of one session or of the device.  One that does not resolve is
\* left out.
RegisterEventCallbacks(R) ==
    /\ R \subseteq owned \ registered
    /\ \A t, u \in R : SlotOf[t][2] = SlotOf[u][2] /\ (SlotOf[t] = SlotOf[u] => t = u)
    /\ callbacks' = Insert(callbacks, R)
    /\ StartIfFirst(callbacks')
    /\ registered' = registered \cup R
    /\ served' = IF m_notificationThread \in {"stopping", "exited"} THEN served
                 ELSE served \cup R
    /\ UNCHANGED <<owned, deregistering, dispatches, deregistered, late>>

\* DeregisterEventCallback resolves the token before it takes the gate.  A
\* token that nobody holds any more is not an error.
ResolveToken(c, t) ==
    /\ deregistering[c] = NoToken
    /\ t \in registered \ deregistered
    /\ IF t \in InLists(callbacks) \/ \E d \in Client : deregistering[d] = t
       THEN /\ deregistering' = [deregistering EXCEPT ![c] = t]
            /\ UNCHANGED deregistered
       ELSE /\ deregistered' = deregistered \cup {t}
            /\ UNCHANGED deregistering
    /\ UNCHANGED <<callbacks, owned, threadVars, dispatches, registered, served, late>>

\* DeregisterDeviceEventCallback.
Erase(list, t) == list \ {t}

\* DeregisterSessionEventCallback: the session's entry is taken out of the map;
\* the token is erased from a copy of its list, and the entry put back as it
\* was, or, if the token is not in it, not at all.
EraseSession(list, t) == IF t \in list THEN list ELSE {}

DeregisterEventCallback(c) ==
    LET t == deregistering[c]
        s == SlotOf[t]
    IN  /\ t # NoToken
        /\ callbacks' = [callbacks EXCEPT ![s] =
               IF s \in SessionSlot THEN EraseSession(@, t) ELSE Erase(@, t)]
        /\ StopIfLast(callbacks')
        /\ deregistering' = [deregistering EXCEPT ![c] = NoToken]
        /\ deregistered' = deregistered \cup {t}
        /\ UNCHANGED <<owned, dispatches, registered, served, late>>

\* The client lets go of a callback; its token stays in the list.
ReleaseCallback(t) ==
    /\ t \in owned \cap registered
    /\ owned' = owned \ {t}
    /\ UNCHANGED <<callbacks, deregistering, threadVars, dispatches, tokenVars>>

Ended(s) == <<"OnSessionEnded", s[2]>>

\* DispatchCallbacks: the callbacks that resolve are invoked in turn; those that
\* ask to be deregistered, and those that do not resolve, are erased.  The
\* listener is not told.
DispatchCallbacks(n) ==
    /\ n \in dispatches
    /\ LET lists == {n.slot} \cup (IF n.deinitialized THEN {Ended(n.slot)} ELSE {})
           targets == UNION {callbacks[s] : s \in lists} \cap owned
       IN  /\ late' = late \cup (targets \cap deregistered)
           /\ \E kept \in SUBSET targets :
                 callbacks' = [s \in Slot |->
                     IF s \in lists THEN callbacks[s] \cap kept ELSE callbacks[s]]
    /\ dispatches' = dispatches \ {n}
    /\ UNCHANGED <<owned, deregistering, threadVars, registered, served, deregistered>>

\* The clients may be done.
ClientsDone == UNCHANGED connectorVars

ConnectorNext ==
    \/ \E R \in SUBSET Token : R # {} /\ RegisterEventCallbacks(R)
    \/ \E c \in Client, t \in Token : ResolveToken(c, t)
    \/ \E c \in Client : DeregisterEventCallback(c)
    \/ \E t \in Token : ReleaseCallback(t)
    \/ \E n \in NotificationData : Notify(n) \/ DispatchCallbacks(n)
    \/ ListenerBegins \/ ListenerEnds
    \/ ClientsDone

ConnectorSpec == ConnectorInit /\ [][ConnectorNext]_connectorVars

-----------------------------------------------------------------------------

\* A device callback is not invoked once its deregistration has returned, even
\* if the call raced a dispatch or another deregistration of the same token.
DeviceDeregistered ==
    \A t \in late : SlotOf[t] \notin DeviceSlot

\* Whoever else registers, deregisters or dispatches, a callback is listened for
\* as long as it is registered, unless the driver refuses or loses the listener;
\* but for one that is registered after the listener has been told to stop, when
\* nobody starts it again.
Refused == m_notificationThread = "none" /\ m_notificationThreadStartPending
Lost == m_notificationThread = "exited"

ServedWhileRegistered ==
    /\ served \cap InLists(callbacks) # {} =>
          m_notificationThread \in {"starting", "running"} \/ (MayFail /\ (Refused \/ Lost))
    /\ registered # served => m_notificationThread \in {"stopping", "exited"}

=============================================================================
