--------------------------- MODULE DeviceDiscovery ---------------------------
(***************************************************************************)
(* How a UWB device that appears in or leaves the system reaches the list  *)
(* of NearObjectDeviceControllerManager: the manager (lib/nearobject/      *)
(* service/NearObjectDeviceControllerManager.cxx), one discovery agent     *)
(* (NearObjectDeviceControllerDiscoveryAgent.cxx and, on Windows,          *)
(* NearObjectDeviceDiscoveryAgentUwb.cxx) and its DevicePresenceMonitor.   *)
(*                                                                         *)
(* Three threads take part: the user, who may start and stop the agent,    *)
(* gives it to the manager and at the end drops the manager; the thread on *)
(* which the Configuration Manager delivers its notifications, one at a    *)
(* time; and the std::async thread of ProbeAsync. A controller is a pair   *)
(* <<device, n>>, the n-th object made for that device, so that the weak   *)
(* references of the agent's cache can expire.                             *)
(***************************************************************************)
EXTENDS Naturals, FiniteSets, SequencesExt

CONSTANTS
    Device,         \* names of device interfaces
    MaxChange,      \* bound on the arrivals and departures
    MaxStop         \* bound on the calls of Stop() before the agent is added

ASSUME DiscoveryAssumption ==
    IsFiniteSet(Device) /\ MaxChange \in Nat /\ MaxStop \in Nat

VARIABLES
    present,        \* the interfaces that exist
    events,         \* notifications the system has not delivered yet
    registered,     \* does the monitor hold a notification handle?
    changes,        \* arrivals and departures so far
    stops,          \* calls of Stop() so far
    m_started,
    callback,       \* has the manager registered its callback?
    cache,          \* m_nearObjectDeviceCache: cache[d] is the object's number,
                    \* 0 if there is no entry
    made,           \* made[d]: the objects created for d
    m_nearObjectDevices,
    owned,          \* does the user hold the manager?
    user,           \* [pc, ret, room, names, found]: in Start, pc is "size",
                    \* "list" or "each", and ret is where it returns
    probe,          \* [pc, room, names, found], the thread of ProbeAsync
    notifier,       \* [pc, event, controller], the system's thread
    missed,         \* history: present devices of which no report will come
    stale,          \* history: absent devices whose departure was not reported
    since           \* history: made[d] at the latest reported departure of d

agentVars == <<stops, m_started, callback, cache, made>>
historyVars == <<missed, stale, since>>
vars == <<present, events, registered, changes, agentVars, m_nearObjectDevices,
          owned, user, probe, notifier, historyVars>>

None == <<>>

Init ==
    /\ present \in SUBSET Device
    /\ events = <<>>
    /\ registered = FALSE
    /\ changes = 0
    /\ stops = 0
    /\ m_started = FALSE
    /\ callback = FALSE
    /\ cache = [d \in Device |-> 0]
    /\ made = [d \in Device |-> 0]
    /\ m_nearObjectDevices = <<>>
    /\ owned = TRUE
    /\ user = [pc |-> "idle", ret |-> "idle", room |-> 0, names |-> {}, found |-> <<>>]
    /\ probe = [pc |-> "none", room |-> 0, names |-> {}, found |-> <<>>]
    /\ notifier = [pc |-> "idle", event |-> None, controller |-> None]
    /\ missed = {} /\ stale = {}
    /\ since = [d \in Device |-> 0]

-----------------------------------------------------------------------------
(* The system: interfaces come and go.                                     *)

Notify(type, d) ==
    events' = IF registered THEN Append(events, [type |-> type, device |-> d]) ELSE events

\* The monitor has the names and has not registered: a change goes unreported.
Unreported == user.pc = "each"

Change(type, d) ==
    /\ changes < MaxChange
    /\ changes' = changes + 1
    /\ Notify(type, d)
    /\ UNCHANGED <<registered, agentVars, m_nearObjectDevices, owned, user, probe, notifier,
                   since>>

Arrive(d) ==
    /\ d \notin present
    /\ present' = present \union {d}
    /\ missed' = IF Unreported /\ d \notin stale THEN missed \union {d} ELSE missed
    /\ stale' = IF Unreported THEN stale \ {d} ELSE stale
    /\ Change("Arrived", d)

Depart(d) ==
    /\ d \in present
    /\ present' = present \ {d}
    /\ missed' = missed \ {d}
    /\ stale' = IF Unreported /\ d \notin missed THEN stale \union {d} ELSE stale
    /\ Change("Departed", d)

\* DeviceEnumerator asks for the length of the list and then for the list: if
\* the list has outgrown the buffer, the second call fails and there is no name.
Listed(room) == IF Cardinality(present) <= room THEN present ELSE {}

-----------------------------------------------------------------------------
(* The manager's list. Controllers are equal if their devices are.         *)

AddDevice(list, c) == Append(list, c)

RemoveDevice(list, c) == RemoveFirstMatch(list, LAMBDA e : e[1] = c[1])

\* Faulty: a departure is handled as the manager handles an unknown presence.
OnDeviceArrivedOnly(list, presence, c) ==
    IF presence = "Arrived" THEN AddDevice(list, c) ELSE list

OnDevicePresenceChanged(list, presence, c) ==
    CASE presence = "Arrived" -> AddDevice(list, c)
      [] presence = "Departed" -> RemoveDevice(list, c)

\* Some thread is in the callback, with a reference to the manager.
InCallback == notifier.pc = "inside"

-----------------------------------------------------------------------------
(* The agent's cache of weak references.                                   *)

Live ==
    ToSet(m_nearObjectDevices) \union ToSet(user.found) \union ToSet(probe.found)
        \union {notifier.controller}

-----------------------------------------------------------------------------
(* Faulty variants, for checking that the properties would notice them.    *)

\* The object that the cache still has is not used.
MakeController(d) == <<d, made[d] + 1>>

\* The results of a probe are thrown away.
DropResults ==
    /\ user.pc = "wait" /\ probe.pc = "ready"
    /\ user' = [user EXCEPT !.pc = "done"]
    /\ probe' = [probe EXCEPT !.pc = "collected", !.found = <<>>]
    /\ UNCHANGED <<present, events, registered, changes, agentVars, m_nearObjectDevices,
                   owned, notifier, historyVars>>

\* The callback captures the manager itself and not a weak reference.
ReleaseCaptured ==
    /\ user.pc = "done"
    /\ owned' = FALSE
    /\ user' = [user EXCEPT !.pc = "released"]
    /\ UNCHANGED <<present, events, registered, changes, agentVars, m_nearObjectDevices,
                   probe, notifier, historyVars>>

-----------------------------------------------------------------------------
CachedController(d) == <<d, cache[d]>>

\* AddCachedUwbNearObjectDevice: the cached object, if it still lives.
Controller(d) ==
    IF cache[d] # 0 /\ CachedController(d) \in Live THEN CachedController(d)
    ELSE <<d, made[d] + 1>>

AddCachedUwbNearObjectDevice(d, c) ==
    /\ c = Controller(d)
    /\ cache' = [cache EXCEPT ![d] = c[2]]
    /\ made' = [made EXCEPT ![d] = c[2]]

\* ExtractCachedNearObjectDevice: nothing if the object is gone.
ExtractCachedNearObjectDevice(d, c) ==
    /\ c = IF cache[d] # 0 /\ CachedController(d) \in Live THEN CachedController(d) ELSE None
    /\ cache' = [cache EXCEPT ![d] = 0]

-----------------------------------------------------------------------------
(* The user. Start() takes the flag, enumerates with a callback for every  *)
(* device found, and registers for notifications only then.                *)

Start(ret) ==
    /\ m_started' = TRUE
    /\ user' = [user EXCEPT !.pc = "size", !.ret = ret]

UserStart ==
    /\ user.pc = "idle" /\ ~m_started
    /\ Start("idle")
    /\ UNCHANGED <<present, events, registered, changes, stops, callback, cache, made,
                   m_nearObjectDevices, owned, probe, notifier, historyVars>>

\* Unregistering waits for the notification that is being delivered.
Stop ==
    /\ user.pc = "idle" /\ m_started /\ notifier.pc = "idle"
    /\ stops < MaxStop
    /\ stops' = stops + 1
    /\ m_started' = FALSE
    /\ registered' = FALSE
    /\ events' = <<>>
    /\ UNCHANGED <<present, changes, callback, cache, made, m_nearObjectDevices, owned, user,
                   probe, notifier, historyVars>>

EnumerateSize ==
    /\ user.pc = "size"
    /\ user' = [user EXCEPT !.pc = "list", !.room = Cardinality(present)]
    /\ UNCHANGED <<present, events, registered, changes, agentVars, m_nearObjectDevices,
                   owned, probe, notifier, historyVars>>

EnumerateList ==
    /\ user.pc = "list"
    /\ user' = [user EXCEPT !.pc = "each", !.names = Listed(user.room)]
    /\ missed' = present \ Listed(user.room)
    /\ stale' = {}
    /\ UNCHANGED <<present, events, registered, changes, agentVars, m_nearObjectDevices,
                   owned, probe, notifier, since>>

\* The monitor's callback, which calls the manager's if there is one already.
EnumerateEach ==
    /\ user.pc = "each" /\ user.names # {}
    /\ \E d \in user.names :
         /\ \E c \in {Controller(d)} :
              /\ AddCachedUwbNearObjectDevice(d, c)
              /\ m_nearObjectDevices' =
                   IF callback THEN OnDevicePresenceChanged(m_nearObjectDevices, "Arrived", c)
                   ELSE m_nearObjectDevices
         /\ user' = [user EXCEPT !.names = @ \ {d}]
    /\ UNCHANGED <<present, events, registered, changes, stops, m_started, callback, owned, probe,
                   notifier, historyVars>>

\* CM_Register_Notification. If it fails, Start throws StartException and leaves
\* m_started set; in AddDiscoveryAgent the exception destroys the agent.
Register ==
    /\ user.pc = "each" /\ user.names = {}
    /\ \/ /\ registered' = TRUE
          /\ user' = [user EXCEPT !.pc = user.ret]
       \/ /\ registered' = FALSE
          /\ user' = [user EXCEPT !.pc = IF user.ret = "done" THEN "failed" ELSE "idle"]
    /\ UNCHANGED <<present, events, changes, agentVars, m_nearObjectDevices, owned, probe,
                   notifier, historyVars>>

-----------------------------------------------------------------------------
(* AddDiscoveryAgent: a probe if the agent has been started, Start if not. *)
(* No other operation reads the list of agents, so that the step that ends *)
(* Start or begins the probe also stands for push_back.                    *)

RegisterDiscoveryEventCallback ==
    /\ user.pc = "idle"
    /\ callback' = TRUE
    /\ user' = [user EXCEPT !.pc = "add"]
    /\ UNCHANGED <<present, events, registered, changes, stops, m_started, cache, made,
                   m_nearObjectDevices, owned, probe, notifier, historyVars>>

AddDiscoveryAgent ==
    /\ user.pc = "add"
    /\ IF m_started
       THEN /\ probe' = [probe EXCEPT !.pc = "size"]
            /\ user' = [user EXCEPT !.pc = "wait"]
            /\ UNCHANGED m_started
       ELSE /\ Start("done")
            /\ UNCHANGED probe
    /\ UNCHANGED <<present, events, registered, changes, stops, callback, cache, made,
                   m_nearObjectDevices, owned, notifier, historyVars>>

ProbeSize ==
    /\ probe.pc = "size"
    /\ probe' = [probe EXCEPT !.pc = "list", !.room = Cardinality(present)]
    /\ UNCHANGED <<present, events, registered, changes, agentVars, m_nearObjectDevices,
                   owned, user, notifier, historyVars>>

ProbeList ==
    /\ probe.pc = "list"
    /\ probe' = [probe EXCEPT !.pc = "each", !.names = Listed(probe.room)]
    /\ missed' = present \ Listed(probe.room)
    /\ UNCHANGED <<present, events, registered, changes, agentVars, m_nearObjectDevices,
                   owned, user, notifier, stale, since>>

ProbeEach ==
    /\ probe.pc = "each" /\ probe.names # {}
    /\ \E d \in probe.names :
         \E c \in {Controller(d)} :
           /\ AddCachedUwbNearObjectDevice(d, c)
           /\ probe' = [probe EXCEPT !.names = @ \ {d}, !.found = Append(@, c)]
    /\ UNCHANGED <<present, events, registered, changes, stops, m_started, callback,
                   m_nearObjectDevices, owned, user, notifier, historyVars>>

ProbeReady ==
    /\ probe.pc = "each" /\ probe.names = {}
    /\ probe' = [probe EXCEPT !.pc = "ready"]
    /\ UNCHANGED <<present, events, registered, changes, agentVars, m_nearObjectDevices,
                   owned, user, notifier, historyVars>>

\* wait_for gives up after three seconds.
ProbeTimeout ==
    /\ user.pc = "wait" /\ probe.pc # "ready"
    /\ user' = [user EXCEPT !.pc = "timedOut"]
    /\ UNCHANGED <<present, events, registered, changes, agentVars, m_nearObjectDevices,
                   owned, probe, notifier, historyVars>>

\* The future of std::async waits for the probe before AddDiscoveryAgent returns.
DestroyFuture ==
    /\ user.pc = "timedOut" /\ probe.pc = "ready"
    /\ user' = [user EXCEPT !.pc = "done"]
    /\ probe' = [probe EXCEPT !.pc = "collected", !.found = <<>>]
    /\ missed' = missed \union {c[1] : c \in ToSet(probe.found)}
    /\ UNCHANGED <<present, events, registered, changes, agentVars, m_nearObjectDevices,
                   owned, notifier, stale, since>>

GetProbeResult ==
    /\ user.pc = "wait" /\ probe.pc = "ready"
    /\ user' = [user EXCEPT !.pc = "adding", !.found = probe.found]
    /\ probe' = [probe EXCEPT !.pc = "collected", !.found = <<>>]
    /\ UNCHANGED <<present, events, registered, changes, agentVars, m_nearObjectDevices,
                   owned, notifier, historyVars>>

AddExisting ==
    /\ user.pc = "adding"
    /\ IF user.found = <<>>
       THEN /\ user' = [user EXCEPT !.pc = "done"]
            /\ UNCHANGED m_nearObjectDevices
       ELSE /\ user' = [user EXCEPT !.found = Tail(@)]
            /\ m_nearObjectDevices' = AddDevice(m_nearObjectDevices, Head(user.found))
    /\ UNCHANGED <<present, events, registered, changes, agentVars, owned, probe, notifier,
                   historyVars>>

-----------------------------------------------------------------------------
(* The system's thread: NearObjectDeviceDiscoveryAgentUwb::                *)
(* OnDevicePresenceChanged, then DevicePresenceChanged, which holds the    *)
(* callback's gate, and the manager's callback, which holds the manager.   *)

OnDeviceInterfaceNotification ==
    /\ notifier.pc = "idle" /\ events # <<>>
    /\ events' = Tail(events)
    /\ LET e == Head(events) IN
       \/ /\ e.type = "Arrived"
          /\ \E c \in {Controller(e.device)} :
               /\ AddCachedUwbNearObjectDevice(e.device, c)
               /\ notifier' = [pc |-> "calling", event |-> e.type, controller |-> c]
          /\ UNCHANGED since
       \/ /\ e.type = "Departed"
          /\ \E c \in {IF CachedController(e.device) \in Live THEN CachedController(e.device)
                        ELSE None} :
               /\ ExtractCachedNearObjectDevice(e.device, c)
               /\ notifier' = IF c = None THEN notifier
                              ELSE [pc |-> "calling", event |-> e.type, controller |-> c]
          /\ since' = [since EXCEPT ![e.device] = made[e.device]]
          /\ UNCHANGED made
    /\ UNCHANGED <<present, registered, changes, stops, m_started, callback, m_nearObjectDevices,
                   owned, user, probe, missed, stale>>

Returned == [pc |-> "idle", event |-> None, controller |-> None]

\* No callback yet, or a manager that is gone: nobody is told.
LockManager ==
    /\ notifier.pc = "calling"
    /\ notifier' = IF callback /\ owned THEN [notifier EXCEPT !.pc = "inside"] ELSE Returned
    /\ UNCHANGED <<present, events, registered, changes, agentVars, m_nearObjectDevices,
                   owned, user, probe, historyVars>>

\* If the user has dropped the manager meanwhile, the last reference goes here:
\* the agent is destroyed and unregisters, on the very thread it waits for.
ReturnFromManager ==
    /\ notifier.pc = "inside"
    /\ m_nearObjectDevices' = OnDevicePresenceChanged(m_nearObjectDevices, notifier.event,
                                                      notifier.controller)
    /\ notifier' = IF owned THEN Returned ELSE [Returned EXCEPT !.pc = "stuck"]
    /\ UNCHANGED <<present, events, registered, changes, agentVars, owned, user, probe,
                   historyVars>>

-----------------------------------------------------------------------------
(* The end: the user drops the manager, which destroys its agent unless a  *)
(* callback holds a reference. Unregistering waits for a notification.     *)

Release ==
    /\ user.pc = "done"
    /\ owned' = FALSE
    /\ user' = [user EXCEPT !.pc = IF InCallback THEN "released" ELSE "destroying"]
    /\ UNCHANGED <<present, events, registered, changes, agentVars, m_nearObjectDevices,
                   probe, notifier, historyVars>>

DestroyAgent ==
    /\ user.pc = "destroying" /\ notifier.pc = "idle"
    /\ registered' = FALSE
    /\ events' = <<>>
    /\ m_nearObjectDevices' = <<>>
    /\ user' = [user EXCEPT !.pc = "gone"]
    /\ UNCHANGED <<present, changes, agentVars, owned, probe, notifier, historyVars>>

-----------------------------------------------------------------------------
User ==
    \/ EnumerateSize \/ EnumerateList \/ EnumerateEach \/ Register
    \/ AddDiscoveryAgent \/ GetProbeResult \/ DestroyFuture \/ AddExisting
    \/ DestroyAgent

Probe == ProbeSize \/ ProbeList \/ ProbeEach \/ ProbeReady

Notifier == OnDeviceInterfaceNotification \/ LockManager \/ ReturnFromManager

Next ==
    \/ \E d \in Device : Arrive(d) \/ Depart(d)
    \/ UserStart \/ Stop \/ RegisterDiscoveryEventCallback \/ ProbeTimeout \/ Release
    \/ User \/ Probe \/ Notifier

\* Threads are scheduled; nothing says that the user calls, or that devices move.
Fairness == WF_vars(User) /\ WF_vars(Probe) /\ WF_vars(Notifier)

Spec == Init /\ [][Next]_vars /\ Fairness

-----------------------------------------------------------------------------
Copies(d) == Cardinality({i \in DOMAIN m_nearObjectDevices : m_nearObjectDevices[i][1] = d})

\* The agent is registered and has nothing left to do.
Quiet == user.pc = "done" /\ registered /\ events = <<>> /\ notifier.pc = "idle"

One(p) == IF p THEN 1 ELSE 0

\* An agent that AddDiscoveryAgent starts itself (host/Main.cxx:73-75): once it is
\* quiet, the manager lists each present device once, but for those whose arrival
\* fell between the enumeration and the registration, which it misses until they
\* come back, and those whose departure did, which it lists once too often for good.
ListMatches ==
    Quiet /\ probe.pc = "none" =>
        \A d \in Device :
            Copies(d) + One(d \in missed) = One(d \in present) + One(d \in stale)

\* An agent that was running already (NearObjectDeviceControllerManager.cxx:97): the
\* callback is registered before the probe, so that a device that arrives at any time
\* is found by one or the other, unless the probe failed or took too long.
PresentIsListed ==
    Quiet => \A d \in present \ missed : Copies(d) >= 1

\* The probe and the notifications share the cache
\* (NearObjectDeviceDiscoveryAgentUwb.cxx:39-41): a device that both report, and that
\* has not been seen to leave in between, is one controller in the list.
SharedController ==
    \A i, j \in DOMAIN m_nearObjectDevices :
        LET c == m_nearObjectDevices[i]
            e == m_nearObjectDevices[j]
        IN c[1] = e[1] /\ c[2] > since[c[1]] /\ e[2] > since[e[1]] => c = e

\* Dropping the manager while its agent still runs ends with both destroyed
\* (NearObjectDeviceControllerManager.cxx:87-90), unless a notification is inside the
\* manager's callback at that time.
ReleaseCompletes ==
    (~owned /\ notifier.pc \in {"idle", "calling"}) ~> (user.pc = "gone")
=============================================================================
