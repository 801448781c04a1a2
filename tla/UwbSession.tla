----------------------------- MODULE UwbSession -----------------------------
(***************************************************************************)
(* The sessions of one session id, from the client's UwbDevice and         *)
(* UwbSession objects (lib/uwb, windows/devices/uwb) through the           *)
(* connector's IOCTLs to the driver's session table                        *)
(* (windows/drivers/uwb/simulator).                                        *)
(*                                                                         *)
(* No lock is held across these levels, and the driver's queue hands out   *)
(* requests in parallel without a lock on a session ("TODO: session        *)
(* exclusive mutex"): every driver access that another request can come    *)
(* between is a step.  Of an outcome of such a race that is not an         *)
(* interleaving, nothing is said.  Registered callbacks and notifications  *)
(* are in UwbConnector and UwbNotificationChannel.                         *)
(***************************************************************************)
EXTENDS Integers, FiniteSets, FiniteSetsExt

CONSTANTS
    Caller,         \* threads that use the device
    Object,         \* storage for UwbSession objects; bounds those alive
    Address,        \* short mac addresses of controlees
    Stray,          \* addresses made of the bytes that follow a copied structure
    Copied,         \* how many short addresses a copied structure holds
    Configured,     \* the lists of controlees passed to Configure
    MaxSession,     \* bound on the sessions created, for model checking
    None

ASSUME SessionAssumption ==
    /\ IsFiniteSet(Caller) /\ IsFiniteSet(Address) /\ IsFiniteSet(Stray)
    /\ Copied \in Nat \ {0}
    /\ MaxSession \in Nat
    /\ Configured \subseteq SUBSET Address
    /\ Stray # {} /\ Stray \cap Address = {}
    /\ None \notin Object \cup Address \cup Stray

\* Of a parameter that is not set; no list of addresses.
Unset == {None}

VARIABLES
    m_sessions,         \* UwbDevice's entry for the id; None once it has expired
    held,               \* the objects each client has a reference to
    call,               \* where each client is in a call
    m_rangingActive,    \* of each object
    session,            \* the driver's session: 0, or which one it is
    count,              \* sessions created so far
    State,              \* of the driver's session, as are the next two
    deviceType,         \* has its DeviceType been set?
    addresses,          \* its DestinationMacAddresses, or Unset
    replaced,           \* history: has CreateSession replaced a live object?
    commands,           \* history: starts minus stops issued by each object
    added               \* history: controlees set since the last configuration

hostVars == <<m_sessions, held, m_rangingActive>>
tableVars == <<session, count, State, deviceType, addresses, added>>
sessionVars == <<hostVars, call, tableVars, replaced, commands>>

Idle == [at |-> "idle", obj |-> None, inc |-> 0, addresses |-> Unset,
         size |-> 0, controlee |-> None]

SessionInit ==
    /\ m_sessions = None
    /\ held = [c \in Caller |-> {}]
    /\ call = [c \in Caller |-> Idle]
    /\ m_rangingActive = [o \in Object |-> FALSE]
    /\ session = 0 /\ count = 0
    /\ State = "Deinitialized" /\ deviceType = FALSE /\ addresses = Unset
    /\ replaced = FALSE
    /\ commands = [o \in Object |-> 0]
    /\ added = {}

\* A client calls a method of an object it holds, and has no other call open.
CanCall(c, o) == call[c].at = "idle" /\ o \in held[c]
Goes(c, at) == call' = [call EXCEPT ![c].at = at]
Returns(c) == call' = [call EXCEPT ![c] = Idle]

\* The shared pointers to an object: clients' and those of calls in progress.
Owners(o) == {c \in Caller : o \in held[c] \/ call[c].obj = o}

-----------------------------------------------------------------------------
(* The driver: one step for each part of a request handler.                *)

\* try_emplace fails on a duplicate.  The new session is Deinitialized.
SessionCreate ==
    /\ session = 0
    /\ count < MaxSession
    /\ count' = count + 1
    /\ session' = count + 1
    /\ State' = "Deinitialized" /\ deviceType' = FALSE /\ addresses' = Unset
    /\ added' = {}

\* A handler keeps the session it has looked up; a write to one that is out of
\* the table by now is never seen.
SessionUpdateState(inc, state) ==
    State' = IF inc = session THEN state ELSE State

\* Whatever session is under the id by now is extracted.
SessionDestroy ==
    /\ session' = 0
    /\ State' = "Deinitialized" /\ deviceType' = FALSE /\ addresses' = Unset
    /\ added' = {}
    /\ UNCHANGED count

\* Each parameter is extracted from the session ...
ExtractParameters(configures) ==
    /\ addresses' = Unset
    /\ IF configures THEN deviceType' = FALSE /\ added' = {}
                     ELSE UNCHANGED <<deviceType, added>>
    /\ UNCHANGED <<session, count, State>>

\* ... and inserted, which does nothing if another request has inserted one.
InsertParameters(inc, xs, controlee) ==
    LET took == inc = session /\ addresses = Unset
        configures == controlee = None
    IN  /\ addresses' = IF took THEN xs ELSE addresses
        /\ deviceType' = (deviceType \/ (configures /\ inc = session))
        /\ added' = CASE took /\ configures -> {}
                      [] took /\ ~configures -> added \cup {controlee}
                      [] OTHER -> added
        /\ UNCHANGED <<session, count, State>>

-----------------------------------------------------------------------------
(* The connector and its conversions.                                      *)

\* UWB_APP_CONFIG_PARAM is a structure with a flexible array.  To() keeps the
\* one with the addresses in an optional and decodes it when it has seen the
\* other parameters; the copy has no more than the first Copied addresses, in
\* the arbitrary order of the set, and the rest are read from what follows it.
Converted(xs) ==
    IF Cardinality(xs) <= Copied THEN {xs}
    ELSE {S \cup G : S \in kSubset(Copied, xs), G \in (SUBSET Stray) \ {{}}}

\* The first attempt tells the size the parameter has now.  Without a session
\* or the parameter the call throws, since there is not one result.
GetParametersSize(c, o, a) ==
    /\ session # 0 /\ addresses # Unset
    /\ call' = [call EXCEPT ![c] = [Idle EXCEPT !.at = "read", !.obj = o,
                    !.controlee = a, !.size = Cardinality(addresses)]]

\* The second has a buffer of that size.  If the parameter has grown since, both
\* attempts are used up, nothing is promised, and waiting for the result throws.
Readable(c) ==
    session # 0 /\ addresses # Unset /\ Cardinality(addresses) <= call[c].size

\* The cache is not checked again under the exclusive lock.
InsertUnchecked(c) ==
    /\ call[c].at = "resolved"
    /\ m_sessions' = call[c].obj
    /\ held' = [held EXCEPT ![c] = @ \cup {call[c].obj}]
    /\ Returns(c)
    /\ UNCHANGED <<m_rangingActive, tableVars, replaced, commands>>
\* The flag is set without looking at what it was.
StartUnconditionally(c, o) ==
    /\ CanCall(c, o)
    /\ m_rangingActive' = [m_rangingActive EXCEPT ![o] = TRUE]
    /\ call' = [call EXCEPT ![c] = [Idle EXCEPT !.at = "start", !.obj = o]]
    /\ UNCHANGED <<m_sessions, held, tableVars, replaced, commands>>
\* The list is read and written back without the gate.
TryAddWithoutGate(c, o, a) ==
    /\ CanCall(c, o)
    /\ GetParametersSize(c, o, a)
    /\ UNCHANGED <<hostVars, tableVars, replaced, commands>>
\* The new session's state is not set.
InitializeWithoutState(c) ==
    /\ call[c].at = "initialize"
    /\ Goes(c, "set")
    /\ UNCHANGED <<hostVars, tableVars, replaced, commands>>

-----------------------------------------------------------------------------
(* UwbDevice: the session objects.                                         *)

\* Storage is chosen for a new object.
Construct(c, o, at) ==
    /\ Owners(o) = {}
    /\ call' = [call EXCEPT ![c] = [Idle EXCEPT !.at = at, !.obj = o]]

\* A cached session is shared; otherwise the driver is asked about it.
GetSession(c) ==
    /\ call[c].at = "idle"
    /\ \/ /\ m_sessions # None
          /\ held' = [held EXCEPT ![c] = @ \cup {m_sessions}]
          /\ UNCHANGED call
       \/ m_sessions = None /\ Goes(c, "resolve") /\ UNCHANGED held
    /\ UNCHANGED <<m_sessions, m_rangingActive, tableVars, replaced, commands>>

\* An object is constructed if the driver has the session's DeviceType.
ResolveSession(c) ==
    /\ call[c].at = "resolve"
    /\ \/ session # 0 /\ deviceType /\ \E o \in Object : Construct(c, o, "resolved")
       \/ (session = 0 \/ ~deviceType) /\ Returns(c)
    /\ UNCHANGED <<hostVars, tableVars, replaced, commands>>

\* Under the exclusive lock: another caller may have cached an object meanwhile.
InsertResolved(c) ==
    /\ call[c].at = "resolved"
    /\ m_sessions' = IF m_sessions = None THEN call[c].obj ELSE m_sessions
    /\ held' = [held EXCEPT ![c] = @ \cup {m_sessions'}]
    /\ Returns(c)
    /\ UNCHANGED <<m_rangingActive, tableVars, replaced, commands>>

CreateSession(c) ==
    /\ call[c].at = "idle"
    /\ \E o \in Object : Construct(c, o, "created")
    /\ UNCHANGED <<hostVars, tableVars, replaced, commands>>

\* The entry is overwritten, whether or not it has expired.
InsertCreated(c) ==
    /\ call[c].at = "created"
    /\ m_sessions' = call[c].obj
    /\ held' = [held EXCEPT ![c] = @ \cup {call[c].obj}]
    /\ replaced' = (replaced \/ m_sessions # None)
    /\ Returns(c)
    /\ UNCHANGED <<m_rangingActive, tableVars, commands>>

\* The client drops its reference.  The last one expires the cache's entry.
Release(c, o) ==
    /\ CanCall(c, o)
    /\ held' = [held EXCEPT ![c] = @ \ {o}]
    /\ IF Owners(o) = {c}
       THEN /\ m_sessions' = IF m_sessions = o THEN None ELSE m_sessions
            /\ m_rangingActive' = [m_rangingActive EXCEPT ![o] = FALSE]
            /\ commands' = [commands EXCEPT ![o] = 0]
       ELSE UNCHANGED <<m_sessions, m_rangingActive, commands>>
    /\ UNCHANGED <<call, tableVars, replaced>>

-----------------------------------------------------------------------------
(* UwbSession: the calls of a client.                                      *)

\* SESSION_INIT: a duplicate throws.
Configure(c, o, xs) ==
    /\ CanCall(c, o)
    /\ SessionCreate
    /\ call' = [call EXCEPT ![c] = [Idle EXCEPT !.at = "initialize", !.obj = o,
                    !.inc = count + 1, !.addresses = xs]]
    /\ UNCHANGED <<hostVars, replaced, commands>>

SessionInitialize(c) ==
    /\ call[c].at = "initialize"
    /\ SessionUpdateState(call[c].inc, "Initialized")
    /\ Goes(c, "set")
    /\ UNCHANGED <<hostVars, session, count, deviceType, addresses, added, replaced, commands>>

\* SET_APP_CONFIG_PARAMS, of Configure and of TryAddControlee.  The status of a
\* session that is not there is dropped on the way back: the caller sees Ok.
SetParameters(c) ==
    /\ call[c].at = "set"
    /\ \/ /\ session # 0 /\ State # "Deinitialized"
          /\ \E xs \in Converted(call[c].addresses) :
                call' = [call EXCEPT ![c].at = "insert", ![c].inc = session,
                                     ![c].addresses = xs]
          /\ ExtractParameters(call[c].controlee = None)
       \/ /\ session = 0 \/ State = "Deinitialized"
          /\ Returns(c)
          /\ UNCHANGED tableVars
    /\ UNCHANGED <<hostVars, replaced, commands>>

SetParametersDone(c) ==
    /\ call[c].at = "insert"
    /\ InsertParameters(call[c].inc, call[c].addresses, call[c].controlee)
    /\ Returns(c)
    /\ UNCHANGED <<hostVars, replaced, commands>>

\* The flag is exchanged first; only a change of it leads to a command.
StartRanging(c, o) ==
    /\ CanCall(c, o)
    /\ ~m_rangingActive[o]
    /\ m_rangingActive' = [m_rangingActive EXCEPT ![o] = TRUE]
    /\ call' = [call EXCEPT ![c] = [Idle EXCEPT !.at = "start", !.obj = o]]
    /\ UNCHANGED <<m_sessions, held, tableVars, replaced, commands>>

StopRanging(c, o) ==
    /\ CanCall(c, o)
    /\ m_rangingActive[o]
    /\ m_rangingActive' = [m_rangingActive EXCEPT ![o] = FALSE]
    /\ call' = [call EXCEPT ![c] = [Idle EXCEPT !.at = "stop", !.obj = o]]
    /\ UNCHANGED <<m_sessions, held, tableVars, replaced, commands>>

\* START_RANGING_SESSION only counts; STOP_RANGING_SESSION sets the state of the
\* session that it has found, if there is one.  Errors are logged and otherwise
\* ignored.
Command(c) ==
    /\ call[c].at \in {"start", "stop"}
    /\ commands' = [commands EXCEPT ![call[c].obj] =
                        IF call[c].at = "start" THEN @ + 1 ELSE @ - 1]
    /\ \/ (call[c].at = "start" \/ session = 0) /\ Returns(c)
       \/ /\ call[c].at = "stop" /\ session # 0
          /\ call' = [call EXCEPT ![c] = [Idle EXCEPT !.at = "stopped",
                         !.obj = call[c].obj, !.inc = session]]
    /\ UNCHANGED <<hostVars, tableVars, replaced>>

SessionIdle(c) ==
    /\ call[c].at = "stopped"
    /\ SessionUpdateState(call[c].inc, "Idle")
    /\ Returns(c)
    /\ UNCHANGED <<hostVars, session, count, deviceType, addresses, added, replaced, commands>>

\* m_peerGate is held until the call returns: one such call per object.
TryAddControlee(c, o, a) ==
    /\ CanCall(c, o)
    /\ ~\E d \in Caller : call[d].obj = o /\ call[d].controlee # None
    /\ GetParametersSize(c, o, a)
    /\ UNCHANGED <<hostVars, tableVars, replaced, commands>>

\* The list is extended by the controlee, unless it is there already.
ReadControlees(c) ==
    /\ call[c].at = "read"
    /\ \/ ~Readable(c) /\ Returns(c)
       \/ /\ Readable(c)
          /\ \E xs \in Converted(addresses) :
                IF call[c].controlee \in xs THEN Returns(c)
                ELSE call' = [call EXCEPT ![c].at = "set", ![c].size = 0,
                                ![c].addresses = xs \cup {call[c].controlee}]
    /\ UNCHANGED <<hostVars, tableVars, replaced, commands>>

\* SESSION_DEINIT: a session that is not there throws.
Destroy(c, o) ==
    /\ CanCall(c, o)
    /\ session # 0
    /\ SessionUpdateState(session, "Deinitialized")
    /\ call' = [call EXCEPT ![c] = [Idle EXCEPT !.at = "destroy", !.obj = o, !.inc = session]]
    /\ UNCHANGED <<hostVars, session, count, deviceType, addresses, added, replaced, commands>>

SessionRemove(c) ==
    /\ call[c].at = "destroy"
    /\ SessionDestroy
    /\ Returns(c)
    /\ UNCHANGED <<hostVars, replaced, commands>>

\* An IOCTL that has not been sent may fail: the call throws, or, for ranging,
\* the error is ignored and the flag stays as it is.
IoctlFails(c) ==
    /\ call[c].at \in {"resolve", "read", "set", "start", "stop"}
    /\ commands' = CASE call[c].at = "start" -> [commands EXCEPT ![call[c].obj] = @ + 1]
                     [] call[c].at = "stop" -> [commands EXCEPT ![call[c].obj] = @ - 1]
                     [] OTHER -> commands
    /\ Returns(c)
    /\ UNCHANGED <<hostVars, tableVars, replaced>>

SessionNext == \E c \in Caller :
    \/ GetSession(c) \/ ResolveSession(c) \/ InsertResolved(c)
    \/ CreateSession(c) \/ InsertCreated(c)
    \/ SessionInitialize(c) \/ SetParameters(c) \/ SetParametersDone(c)
    \/ Command(c) \/ SessionIdle(c) \/ ReadControlees(c) \/ SessionRemove(c) \/ IoctlFails(c)
    \/ \E o \in Object :
          \/ Release(c, o)
          \/ StartRanging(c, o) \/ StopRanging(c, o)
          \/ Destroy(c, o)
          \/ \E xs \in Configured : Configure(c, o, xs)
          \/ \E a \in Address : TryAddControlee(c, o, a)

SessionSpec == SessionInit /\ [][SessionNext]_sessionVars

-----------------------------------------------------------------------------

Stage == {"idle", "resolve", "resolved", "created", "initialize", "set",
          "insert", "start", "stop", "stopped", "read", "destroy"}
AddressList == (SUBSET (Address \cup Stray)) \cup {Unset}
CallRecord ==
    [at : Stage, obj : Object \cup {None}, inc : 0 .. MaxSession,
     addresses : AddressList, size : Nat, controlee : Address \cup {None}]

TypeOK ==
    /\ m_sessions \in Object \cup {None}
    /\ held \in [Caller -> SUBSET Object]
    /\ call \in [Caller -> CallRecord]
    /\ m_rangingActive \in [Object -> BOOLEAN]
    /\ session \in 0 .. MaxSession /\ count \in 0 .. MaxSession
    /\ State \in {"Deinitialized", "Initialized", "Idle"}
    /\ deviceType \in BOOLEAN
    /\ addresses \in AddressList
    /\ replaced \in BOOLEAN
    /\ commands \in [Object -> Int]
    /\ added \subseteq Address

\* Until CreateSession is called for an id that has an object, all clients of
\* the id share one object, and so one ranging flag and one gate, however their
\* lookups interleave and however often the object has expired.
SharedObject == ~replaced => \A c \in Caller : held[c] \subseteq {m_sessions}

\* An object's commands alternate, in the sense that when none is on its way it
\* has issued one start more than stops if the flag is set, and as many if not,
\* although the flag and the driver are changed in separate steps and commands
\* may fail.
CommandsMatchFlag == \A o \in Object :
    (~\E c \in Caller : call[c].obj = o /\ call[c].at \in {"start", "stop"})
        => commands[o] = IF m_rangingActive[o] THEN 1 ELSE 0

\* A session the driver has in its table but denies to have is being created
\* or removed: none stays behind in that state, although creation, the state
\* changes and removal are separate steps of concurrent requests.
NoneLeftDeinitialized ==
    session # 0 /\ State = "Deinitialized" =>
        \E c \in Caller : call[c].inc = session /\ call[c].at \in {"initialize", "destroy"}

\* Is no parameter of the session between extraction and insertion?
Settled == session # 0 /\ ~\E c \in Caller : call[c].at = "insert"
Controlees == IF addresses = Unset THEN {} ELSE addresses

\* While the clients share one object, no concurrent addition, failed call,
\* destruction or late configuration loses a controlee that was set, as long as
\* the list has not outgrown the conversion.
AddedKept ==
    Settled /\ ~replaced => added \subseteq Controlees \/ Stray \cap Controlees # {}

=============================================================================
