--------------------------- MODULE UwbIoctl_proofs ---------------------------
(***************************************************************************)
(* Theorems about the connector's calls composed with the simulator driver *)
(* (UwbIoctl), for any clients, ids, slots, generators and files, however  *)
(* the handlers' steps interleave.                                         *)
(***************************************************************************)
EXTENDS UwbIoctl, TLAPS, FiniteSetTheorems

-----------------------------------------------------------------------------
(* The invariant, in parts.                                                *)

Position == {"idle", "begin", "Uninitialized", "initialize", "Ready", "update", "raise",
             "push", "destroy", "list", "set", "get", "start", "enable", "assign", "join",
             "move", "stop", "disable", "request_stop", "release"}
Status == {"Ok", "Duplicate", "NotExist", "InvalidParameter", "Overflow"}
SessionState == {"Deinitialized", "Initialized", "Idle"}
Codes == {"none", "DEVICE_RESET", "GET_DEVICE_INFO", "GET_DEVICE_CAPABILITIES",
          "GET_SESSION_COUNT", "SIM_GET_CAPABILITIES", "SESSION_INIT", "SESSION_DEINIT",
          "GET_SESSION_STATE", "START_RANGING_SESSION", "STOP_RANGING_SESSION",
          "SESSION_UPDATE_CONTROLLER_MULTICAST_LIST", "SET_APP_CONFIG_PARAMS",
          "GET_APP_CONFIG_PARAMS", "SIM_TRIGGER_SESSION_EVENT"}

Request ==
    [at : Position, code : Codes, id : SessionId \cup {None},
     arg : Events \cup MulticastActions \cup {None}, held : SUBSET Slot,
     state : SessionState \cup {None}, targets : SUBSET Listener,
     thread : Generator \cup {None}, joins : Generator \cup {None}, size : Nat,
     needed : Nat, status : Status, attempt : {0, 1}, grown : BOOLEAN]

TypeOK ==
    /\ request \in [Client -> Request]
    /\ m_sessions \in [SessionId -> Slot \cup {None}]
    /\ session \in [Slot -> [State : SessionState, Enabled : BOOLEAN,
                             Thread : Generator \cup {None}, Parameters : Nat]]
    /\ generator \in [Generator -> [session : Slot \cup {None}, stop : BOOLEAN,
                                    done : BOOLEAN]]
    /\ terminated \in BOOLEAN
    /\ m_deviceFiles \subseteq Listener
    /\ last \in [Listener -> [SessionId -> SessionState \cup {None}]]
    /\ overlapped \in [SessionId -> BOOLEAN]
    /\ balance \in [SessionId -> Int]
    /\ promise \in [Client -> {"none", "kept", "broken"}]

\* Where the handler of each code may be.
Places(code) ==
    CASE code = "none" -> {"idle"}
      [] code = "DEVICE_RESET" -> {"begin", "Uninitialized", "initialize", "Ready", "release"}
      [] code = "SESSION_INIT" -> {"begin", "update", "raise", "push", "release"}
      [] code = "SESSION_DEINIT" -> {"begin", "update", "raise", "push", "destroy", "release"}
      [] code = "STOP_RANGING_SESSION" -> {"begin", "update", "raise", "push", "release"}
      [] code = "SESSION_UPDATE_CONTROLLER_MULTICAST_LIST" -> {"begin", "list", "release"}
      [] code = "SET_APP_CONFIG_PARAMS" -> {"begin", "set", "release"}
      [] code = "GET_APP_CONFIG_PARAMS" -> {"begin", "get", "release"}
      [] code = "SIM_TRIGGER_SESSION_EVENT" ->
            {"begin", "start", "enable", "assign", "join", "move", "stop", "disable",
             "request_stop", "release"}
      [] OTHER -> {"begin", "release"}

\* Once past its first step, a handler of a session holds one.
Works(r) == r.at \notin {"idle", "begin", "release"} /\ r.code # "DEVICE_RESET"

Answering == {"GET_DEVICE_INFO", "GET_DEVICE_CAPABILITIES", "GET_APP_CONFIG_PARAMS"}

OfTheDevice == {"none", "DEVICE_RESET", "GET_DEVICE_INFO", "GET_DEVICE_CAPABILITIES",
                "GET_SESSION_COUNT", "SIM_GET_CAPABILITIES"}

Sound(r) ==
    /\ r.at \in Places(r.code)
    /\ r.code \notin OfTheDevice => r.id \in SessionId
    /\ r.at \in {"idle", "begin"} => r.held = {}
    /\ Works(r) => \E s \in Slot : r.held = {s}
    /\ r.code # "SESSION_DEINIT" => \A s, t \in r.held : s = t
    /\ r.thread # None <=> r.at \in {"assign", "join", "move"}
    /\ r.joins # None <=> r.at = "join"
    /\ r.arg = "start" => r.code = "SIM_TRIGGER_SESSION_EVENT"
    /\ r.code = "SIM_TRIGGER_SESSION_EVENT" => r.arg \in Events
    /\ r.at \in {"start", "enable", "assign", "join", "move"} => r.arg = "start"
    /\ r.at # "release" => r.status = "Ok"
    /\ r.status = "Overflow" => r.code \in Answering /\ r.size < r.needed
    /\ r.attempt = 1 => r.code \in Answering

Control == \A c \in Client : Sound(request[c])

\* A slot that is in use belongs to one id; one that is not is as new.
Owned ==
    /\ \A i, j \in SessionId : m_sessions[i] = m_sessions[j] /\ m_sessions[i] # None => i = j
    /\ \A c \in Client : \A s \in request[c].held :
          /\ \A i \in SessionId : m_sessions[i] = s => i = request[c].id
          /\ \A d \in Client : s \in request[d].held => request[d].id = request[c].id
    /\ \A s \in Slot : FreeSlot(s) => session[s] = NewSession

\* Who has yet to take a slot, or a thread, finds one.
Initializing == {c \in Client : request[c].code = "SESSION_INIT" /\ At(c, "begin")}
SlotsLeft == Cardinality(Initializing) <= Cardinality(FreeSlots)

Starting == {c \in Client : request[c].arg = "start"
                                /\ request[c].at \in {"begin", "start", "enable"}}
ThreadsLeft == Cardinality(Starting) <= Cardinality(FreeThreads)

\* One handle refers to each thread: its session's, or that of the request that
\* has started it.
OneHandle ==
    /\ \A s \in Slot : session[s].Thread # None => generator[session[s].Thread].session = s
    /\ \A c \in Client : LET g == request[c].thread IN g # None =>
          /\ request[c].held = {generator[g].session}
          /\ \A s \in Slot : session[s].Thread # g
          /\ \A d \in Client : request[d].joins # g
          /\ \A d \in Client \ {c} : request[d].thread # g
    /\ \A c \in Client : LET g == request[c].joins IN g # None =>
          generator[g].session \in request[c].held \cup {None}
    /\ \A g \in Generator :
          IF generator[g].session = None THEN generator[g] = NoThread
          ELSE \/ session[generator[g].session].Thread = g
               \/ \E c \in Client : request[c].thread = g

ThreadInv == ~terminated => OneHandle /\ ThreadsLeft

\* The answers Ok that are on their way.
Created(i) == {c \in Client : /\ request[c].code = "SESSION_INIT" /\ request[c].id = i
                              /\ request[c].at # "begin" /\ request[c].status = "Ok"}
Removed(i) == {c \in Client : /\ request[c].code = "SESSION_DEINIT" /\ request[c].id = i
                              /\ request[c].at = "release" /\ request[c].status = "Ok"}
Balanced == \A i \in SessionId :
    balance[i] + Cardinality(Created(i)) - Cardinality(Removed(i))
        = IF m_sessions[i] = None THEN 0 ELSE 1

\* A request that changes the state of a session of the id.
Changes(c, i) == request[c].id = i /\ request[c].code \in ChangesState

Told(f, i) == \/ last[f][i] = CurrentState(i)
              \/ \E c \in Client : /\ Changes(c, i)
                                   /\ At(c, "raise") \/ (At(c, "push") /\ f \in request[c].targets)

NotifyInv == \A i \in SessionId : ~overlapped[i] =>
    /\ \A c, d \in Client : Changes(c, i) /\ Changes(d, i) => c = d
    /\ \A c \in Client : Changes(c, i) =>
          /\ request[c].at \in {"update", "raise", "push", "destroy"} =>
                m_sessions[i] # None /\ request[c].held = {m_sessions[i]}
          /\ request[c].at \in {"raise", "push"} => request[c].state = CurrentState(i)
          /\ request[c].code = "SESSION_DEINIT" /\ request[c].at \in {"raise", "push", "destroy"} =>
                CurrentState(i) = "Deinitialized"
    /\ \A f \in m_deviceFiles : Told(f, i)

\* What the client will be answered fits what it offers, if nobody adds to it.
Fits(c, n) ==
    CASE request[c].status = "Overflow" -> n <= request[c].needed
      [] request[c].status # "Overflow" /\ request[c].attempt = 1 -> n <= request[c].size
      [] OTHER -> n <= session[Of(c)].Parameters

Answer(c) ==
    /\ ~At(c, "idle") => promise[c] = "none"
    /\ request[c].status = "Overflow" /\ request[c].attempt = 1 => 
          request[c].code = "GET_APP_CONFIG_PARAMS" /\ request[c].grown
    /\ request[c].code \in Answering \ {"GET_APP_CONFIG_PARAMS"} =>
          /\ request[c].status = "Overflow" => request[c].needed = VariableSize
          /\ request[c].attempt = 1 => request[c].size = VariableSize
    /\ Asking(c) /\ ~request[c].grown =>
          \A s \in Slot : s \in request[c].held \/ m_sessions[request[c].id] = s =>
              Fits(c, session[s].Parameters)

AnswerInv == \A c \in Client : Answer(c)

IInv == /\ TypeOK /\ Control /\ Owned /\ SlotsLeft /\ ThreadInv
        /\ Balanced /\ NotifyInv /\ AnswerInv

-----------------------------------------------------------------------------
(* What a step leaves alone.                                               *)

\* A step that replaces the request of one client.
LEMMA Replaced ==
  ASSUME TypeOK, Control, NEW c \in Client, NEW r \in Request, Sound(r),
         request' = [request EXCEPT ![c] = r]
  PROVE  /\ request' \in [Client -> Request]
         /\ Control'
         /\ request'[c] = r
         /\ \A d \in Client \ {c} : request'[d] = request[d]
<1>1. /\ request' \in [Client -> Request]
      /\ request'[c] = r
      /\ \A d \in Client \ {c} : request'[d] = request[d]
  BY DEF TypeOK
<1>2. Control'
  BY <1>1 DEF Control
<1>3. QED
  BY <1>1, <1>2

\* No reference to a session comes or goes.
SameReferences ==
    /\ UNCHANGED m_sessions
    /\ \A d \in Client :
          /\ request'[d].held = request[d].held
          /\ request[d].held # {} => request'[d].id = request[d].id

LEMMA OwnedKept ==
  ASSUME Owned, SameReferences,
         \A s \in Slot : session'[s] = session[s] \/ ~FreeSlot(s)
  PROVE  Owned' /\ FreeSlots' = FreeSlots
<1>1. \A s \in Slot : FreeSlot(s)' = FreeSlot(s)
  <2> SUFFICES ASSUME NEW s \in Slot PROVE FreeSlot(s)' = FreeSlot(s)
    OBVIOUS
  <2>1. Holders(s)' = Holders(s)
    <3>1. \A d \in Client : request'[d].held = request[d].held
      BY DEF SameReferences
    <3>2. QED
      BY ONLY <3>1 DEF Holders
  <2>2. InTable(s)' = InTable(s)
    BY DEF SameReferences, InTable
  <2>3. QED
    BY <2>1, <2>2 DEF FreeSlot
<1>2. FreeSlots' = FreeSlots
  BY <1>1 DEF FreeSlots
<1>3. Owned'
  <2>1. \A s \in Slot : FreeSlot(s)' => session'[s] = NewSession
    BY <1>1 DEF Owned
  <2>2. \A i, j \in SessionId :
          m_sessions'[i] = m_sessions'[j] /\ m_sessions'[i] # None => i = j
    BY DEF SameReferences, Owned
  <2>3. ASSUME NEW c \in Client, NEW s \in request'[c].held
        PROVE  /\ \A i \in SessionId : m_sessions'[i] = s => i = request'[c].id
               /\ \A d \in Client : s \in request'[d].held => request'[d].id = request'[c].id
    <3>1. /\ s \in request[c].held
          /\ request'[c].id = request[c].id
      BY <2>3 DEF SameReferences
    <3>2. /\ \A i \in SessionId : m_sessions[i] = s => i = request[c].id
          /\ \A d \in Client : s \in request[d].held => request[d].id = request[c].id
      BY <3>1 DEF Owned
    <3>3. ASSUME NEW d \in Client, s \in request'[d].held PROVE request'[d].id = request'[c].id
      <4>1. s \in request[d].held /\ request'[d].id = request[d].id
        BY <3>3 DEF SameReferences
      <4>2. QED
        BY <3>1, <3>2, <4>1
    <3>4. QED
      BY <3>1, <3>2, <3>3 DEF SameReferences
  <2>4. QED
    BY <2>1, <2>2, <2>3 DEF Owned
<1>4. QED
  BY <1>2, <1>3

\* Subsets of finite sets, as SlotsLeft and ThreadsLeft compare them.
LEMMA StillLeft ==
  ASSUME NEW A, NEW B, NEW X, NEW Y, IsFiniteSet(A), IsFiniteSet(Y),
         B \subseteq A, X \subseteq Y, Cardinality(A) <= Cardinality(X)
  PROVE  Cardinality(B) <= Cardinality(Y)
<1>1. /\ IsFiniteSet(B) /\ IsFiniteSet(X)
      /\ Cardinality(B) <= Cardinality(A) /\ Cardinality(X) <= Cardinality(Y)
  BY FS_Subset
<1>2. /\ Cardinality(A) \in Nat /\ Cardinality(B) \in Nat
      /\ Cardinality(X) \in Nat /\ Cardinality(Y) \in Nat
  BY <1>1, FS_CardinalityType
<1>3. QED
  BY <1>1, <1>2

LEMMA Finite ==
    /\ IsFiniteSet(Initializing) /\ IsFiniteSet(Starting)
    /\ IsFiniteSet(FreeSlots) /\ IsFiniteSet(FreeThreads)
    /\ \A i : IsFiniteSet(Created(i)) /\ IsFiniteSet(Removed(i))
<1>1. /\ Initializing \subseteq Client /\ Starting \subseteq Client
      /\ FreeSlots \subseteq Slot /\ FreeThreads \subseteq Generator
      /\ \A i : Created(i) \subseteq Client /\ Removed(i) \subseteq Client
  BY DEF Initializing, Starting, FreeSlots, FreeThreads, Created, Removed
<1>2. QED
  BY <1>1, FS_Subset, SimulatorAssumption

LEMMA SlotsLeftKept ==
  ASSUME SlotsLeft, FreeSlots \subseteq FreeSlots', Initializing' \subseteq Initializing
  PROVE  SlotsLeft'
<1>1. IsFiniteSet(FreeSlots')
  BY Finite, FS_Subset, SimulatorAssumption, FreeSlots' \subseteq Slot DEF FreeSlots
<1>2. QED
  BY <1>1, Finite, StillLeft DEF SlotsLeft

\* No thread comes or goes, and no handle to one changes.
SameThreads ==
    /\ \A g \in Generator :
          /\ generator'[g].session = generator[g].session
          /\ generator'[g] = NoThread <=> generator[g] = NoThread
    /\ \A s \in Slot : session'[s].Thread = session[s].Thread
    /\ \A d \in Client :
          /\ request'[d].thread = request[d].thread
          /\ request'[d].joins = request[d].joins
          /\ request[d].thread # None \/ request[d].joins # None =>
                request'[d].held = request[d].held

LEMMA HandlesKept ==
  ASSUME TypeOK, OneHandle, SameThreads
  PROVE  OneHandle' /\ FreeThreads' = FreeThreads
<1>1. \A s \in Slot : session'[s].Thread # None =>
        generator'[session'[s].Thread].session = s
  BY DEF OneHandle, SameThreads, TypeOK
<1>2. ASSUME NEW c \in Client, NEW g, g = request'[c].thread, g # None
      PROVE  /\ request'[c].held = {generator'[g].session}
             /\ \A s \in Slot : session'[s].Thread # g
             /\ \A d \in Client : request'[d].joins # g
             /\ \A d \in Client \ {c} : request'[d].thread # g
  <2>1. g \in Generator /\ g = request[c].thread
    BY <1>2 DEF SameThreads, TypeOK, Request
  <2>2. QED
    BY <1>2, <2>1 DEF OneHandle, SameThreads
<1>3. ASSUME NEW c \in Client, NEW g, g = request'[c].joins, g # None
      PROVE  generator'[g].session \in request'[c].held \cup {None}
  <2>1. g \in Generator /\ g = request[c].joins
    BY <1>3 DEF SameThreads, TypeOK, Request
  <2>2. QED
    BY <1>3, <2>1 DEF OneHandle, SameThreads
<1>4. ASSUME NEW g \in Generator
      PROVE  IF generator'[g].session = None THEN generator'[g] = NoThread
             ELSE \/ session'[generator'[g].session].Thread = g
                  \/ \E c \in Client : request'[c].thread = g
  BY DEF OneHandle, SameThreads, TypeOK
<1>5. FreeThreads' = FreeThreads
  BY DEF FreeThreads, SameThreads
<1>6. QED
  BY <1>1, <1>2, <1>3, <1>4, <1>5 DEF OneHandle

LEMMA ThreadsKept ==
  ASSUME TypeOK, ThreadInv, SameThreads, Starting' \subseteq Starting,
         terminated => terminated'
  PROVE  ThreadInv'
<1> SUFFICES ASSUME ~terminated' PROVE OneHandle' /\ ThreadsLeft'
  BY DEF ThreadInv
<1>1. OneHandle /\ ThreadsLeft
  BY DEF ThreadInv
<1>2. OneHandle' /\ FreeThreads' = FreeThreads
  BY <1>1, HandlesKept
<1>3. ThreadsLeft'
  BY <1>1, <1>2, Finite, StillLeft DEF ThreadsLeft
<1>4. QED
  BY <1>2, <1>3

\* No answer that the balance counts comes or goes.
Counted(q) == q.code \in {"SESSION_INIT", "SESSION_DEINIT"}

LEMMA BalanceKept ==
  ASSUME Balanced, UNCHANGED <<m_sessions, balance>>,
         \A d \in Client :
            Counted(request[d]) \/ Counted(request'[d]) => request'[d] = request[d]
  PROVE  Balanced'
<1>1. \A i \in SessionId : Created(i)' = Created(i) /\ Removed(i)' = Removed(i)
  BY DEF Created, Removed, Counted, At
<1>2. QED
  BY <1>1 DEF Balanced

LEMMA NotifyKept ==
  ASSUME NotifyInv, UNCHANGED <<overlapped, m_sessions, m_deviceFiles, last>>,
         \A s \in Slot : session'[s].State = session[s].State,
         m_sessions \in [SessionId -> Slot \cup {None}],
         \A d \in Client :
            request[d].code \in ChangesState \/ request'[d].code \in ChangesState =>
                request'[d] = request[d]
  PROVE  NotifyInv'
<1>1. \A i \in SessionId : CurrentState(i)' = CurrentState(i)
  BY DEF CurrentState
<1>2. \A c \in Client, i \in SessionId :
        /\ Changes(c, i)' = Changes(c, i)
        /\ Changes(c, i) => request'[c] = request[c]
  BY DEF Changes
<1>3. \A f \in m_deviceFiles, i \in SessionId : Told(f, i) => Told(f, i)'
  BY <1>1, <1>2 DEF Told, At
<1>4. QED
  BY <1>1, <1>2, <1>3 DEF NotifyInv

LEMMA AnswersKept ==
  ASSUME AnswerInv, TypeOK, UNCHANGED <<promise, m_sessions>>, Control,
         \A s \in Slot : session'[s].Parameters = session[s].Parameters,
         \A d \in Client :
            /\ request[d].code \in Answering \/ request'[d].code \in Answering =>
                  request'[d] = request[d]
            /\ request[d].at = "idle" => request'[d].at = "idle"
            /\ request'[d].attempt = request[d].attempt
            /\ request'[d].code \notin Answering => request'[d].status # "Overflow"
  PROVE  AnswerInv'
<1> SUFFICES ASSUME NEW c \in Client PROVE Answer(c)'
  BY DEF AnswerInv
<1>1. CASE request'[c].code \in Answering
  <2>1. request'[c] = request[c]
    BY <1>1
  <2>2. request[c].held \subseteq Slot
    BY DEF TypeOK, Request
  <2>3. Asking(c)' = Asking(c)
    BY <2>1 DEF Asking, At
  <2>4. ASSUME Asking(c), NEW n, Fits(c, n) PROVE Fits(c, n)'
    <3>1. CASE At(c, "get")
      <4>1. \E s \in Slot : request[c].held = {s}
        BY <3>1, <2>4 DEF Control, Sound, Works, At, Asking
      <4>2. Of(c)' = Of(c) /\ Of(c) \in Slot
        BY <4>1, <2>1 DEF Of
      <4>3. QED
        BY <4>2, <2>1, <2>4 DEF Fits
    <3>2. CASE request[c].status = "Overflow" \/ request[c].attempt = 1
      BY <3>2, <2>1, <2>4 DEF Fits
    <3>3. QED
      BY <3>1, <3>2, <2>4 DEF Asking
  <2>5. QED
    BY <2>1, <2>3, <2>4 DEF AnswerInv, Answer, At
<1>2. CASE request'[c].code \notin Answering
  BY <1>2 DEF AnswerInv, Answer, Answering, Asking, At
<1>3. QED
  BY <1>1, <1>2

-----------------------------------------------------------------------------
(* Steps of a handler that change its own request only.                    *)

\* The references of a request stay, or its session is looked up.
Refers(c, r) ==
    \/ r.held = request[c].held
    \/ /\ request[c].held = {} /\ m_sessions[request[c].id] # None
       /\ request[c].id \in SessionId
       /\ r.held = {m_sessions[request[c].id]}

LEMMA ReferenceTaken ==
  ASSUME TypeOK, Control, Owned, NEW c \in Client, NEW r \in Request, Sound(r),
         request' = [request EXCEPT ![c] = r], r.id = request[c].id, Refers(c, r),
         UNCHANGED m_sessions, \A s \in Slot : session'[s] = session[s] \/ ~FreeSlot(s)
  PROVE  Owned' /\ FreeSlots' = FreeSlots
<1>1. /\ request'[c] = r
      /\ \A d \in Client \ {c} : request'[d] = request[d]
  BY Replaced
<1>2. CASE r.held = request[c].held
  <2>1. SameReferences
    BY <1>1, <1>2 DEF SameReferences
  <2>2. QED
    BY <2>1, OwnedKept
<1>3. CASE /\ request[c].held = {} /\ m_sessions[request[c].id] # None
           /\ request[c].id \in SessionId
           /\ r.held = {m_sessions[request[c].id]}
  <2> DEFINE i == request[c].id
             t == m_sessions[i]
  <2>1. t \in Slot /\ i \in SessionId
    BY <1>3 DEF TypeOK
  <2>2. \A s \in Slot : s # t => Holders(s)' = Holders(s)
    BY <1>1, <1>3 DEF Holders
  <2>3. InTable(t) /\ \A s \in Slot : InTable(s)' = InTable(s)
    BY <2>1 DEF InTable
  <2>4. \A s \in Slot : FreeSlot(s)' = FreeSlot(s)
    BY <2>2, <2>3 DEF FreeSlot
  <2>5. FreeSlots' = FreeSlots
    BY <2>4 DEF FreeSlots
  <2>6. ASSUME NEW d \in Client, NEW s \in request'[d].held
        PROVE  /\ \A j \in SessionId : m_sessions[j] = s => j = request[d].id
               /\ \A e \in Client : s \in request'[e].held => request[e].id = request[d].id
    <3>1. \A e \in Client : t \in request[e].held => request[e].id = i
      BY <2>1 DEF Owned
    <3>2. CASE d = c
      <4>1. s = t
        BY <1>1, <1>3, <2>6, <3>2
      <4>2. \A j \in SessionId : m_sessions[j] = t => j = i
        BY <2>1, <1>3 DEF Owned
      <4>3. QED
        BY <4>1, <4>2, <3>1, <3>2, <1>1
    <3>3. CASE d # c
      <4>1. s \in request[d].held
        BY <1>1, <2>6, <3>3
      <4>2. /\ \A j \in SessionId : m_sessions[j] = s => j = request[d].id
            /\ \A e \in Client : s \in request[e].held => request[e].id = request[d].id
        BY <4>1 DEF Owned
      <4>3. s \in request'[c].held => s = t
        BY <1>1, <1>3
      <4>4. QED
        BY <4>1, <4>2, <4>3, <3>1, <1>1
    <3>4. QED
      BY <3>2, <3>3
  <2>7. \A d \in Client : request'[d].id = request[d].id
    BY <1>1
  <2>8. Owned'
    BY <2>4, <2>6, <2>7 DEF Owned
  <2>9. QED
    BY <2>5, <2>8
<1>4. QED
  BY <1>2, <1>3 DEF Refers

\* Everything but the request of c stays.
OnlyRequest(c, r) ==
    /\ request' = [request EXCEPT ![c] = r]
    /\ UNCHANGED <<m_sessions, session, generator, terminated, fileVars, historyVars, promise>>

\* A handler that no part of the invariant looks at, except for what it holds.
LEMMA CalmKeeps ==
  ASSUME IInv, NEW c \in Client, NEW r \in Request, Sound(r), OnlyRequest(c, r),
         Refers(c, r), request[c].at # "idle", r.at # "idle",
         r.code = request[c].code, r.code \notin ChangesState \cup Answering,
         r.id = request[c].id, r.thread = request[c].thread, r.joins = request[c].joins,
         r.arg = request[c].arg, r.attempt = request[c].attempt,
         r.thread = None, r.joins = None,
         r.arg = "start" /\ r.at \in {"begin", "start", "enable"} =>
             request[c].at \in {"begin", "start", "enable"}
  PROVE  IInv'
<1> USE DEF IInv, OnlyRequest
<1>1. /\ request' \in [Client -> Request]
      /\ Control'
      /\ request'[c] = r
      /\ \A d \in Client \ {c} : request'[d] = request[d]
  BY Replaced
<1>2. TypeOK'
  BY <1>1 DEF TypeOK, fileVars, historyVars
<1>3. Owned' /\ FreeSlots' = FreeSlots
  BY ReferenceTaken
<1>4. SlotsLeft'
  <2>1. Initializing' \subseteq Initializing
    BY <1>1 DEF Initializing, At, ChangesState
  <2>2. QED
    BY <1>3, <2>1, SlotsLeftKept
<1>5. ThreadInv'
  <2>1. SameThreads
    BY <1>1 DEF SameThreads
  <2>2. Starting' \subseteq Starting
    BY <1>1 DEF Starting
  <2>3. QED
    BY <2>1, <2>2, ThreadsKept
<1>6. Balanced'
  BY <1>1, BalanceKept DEF Counted, ChangesState, historyVars
<1>7. NotifyInv'
  BY <1>1, NotifyKept DEF TypeOK, fileVars, historyVars
<1>8. AnswerInv'
  <2>1. r.status # "Overflow"
    BY DEF Sound
  <2>2. \A d \in Client : request'[d].code \notin Answering => request'[d].status # "Overflow"
    BY <1>1 DEF Control, Sound
  <2>3. QED
    BY <1>1, <2>2, AnswersKept
<1>9. QED
  BY <1>1, <1>2, <1>3, <1>4, <1>5, <1>6, <1>7, <1>8

\* What the first step of most handlers makes of its request.
LEMMA FindsRequest ==
  ASSUME TypeOK, Control, NEW c \in Client, NEW next \in Position, Finds(c, next),
         request[c].id \in SessionId
  PROVE  \E r \in Request :
            /\ request' = [request EXCEPT ![c] = r]
            /\ \/ /\ r = [request[c] EXCEPT !.at = "release", !.status = "NotExist"]
                  /\ m_sessions[request[c].id] = None
               \/ /\ r = [request[c] EXCEPT !.at = next, !.held = {m_sessions[request[c].id]}]
                  /\ m_sessions[request[c].id] # None
<1> DEFINE s == SessionGet(request[c].id)
<1>0. request[c] \in Request
  BY DEF TypeOK
<1>1. CASE s = None
  <2> DEFINE r == [request[c] EXCEPT !.at = "release", !.status = "NotExist"]
  <2>1. r \in Request
    BY <1>0 DEF Request, Position, Status
  <2>2. request' = [request EXCEPT ![c] = r]
    BY <1>1 DEF Finds, Ends
  <2>3. QED
    BY <2>1, <2>2, <1>1 DEF SessionGet
<1>2. CASE s # None
  <2> DEFINE r == [request[c] EXCEPT !.at = next, !.held = {s}]
  <2>0. {s} \in SUBSET Slot
    BY <1>2 DEF TypeOK, SessionGet
  <2>1. r \in Request
    BY <1>0, <2>0 DEF Request
  <2>2. request' = [request EXCEPT ![c] = r]
    BY <1>2 DEF Finds
  <2>3. QED
    BY <2>1, <2>2, <1>2 DEF SessionGet
<1>3. QED
  BY <1>1, <1>2

\* Lookups by handlers that neither change a state nor ask for an answer's size.
LEMMA CalmFinds ==
  ASSUME IInv, NEW c \in Client, NEW next \in Position, Finds(c, next),
         request[c].code \notin OfTheDevice \cup ChangesState \cup Answering,
         next \in Places(request[c].code), next \notin {"idle", "begin", "assign", "join", "move"},
         next \in {"start", "enable"} => request[c].arg = "start",
         UNCHANGED <<promise, fileVars, historyVars>>
  PROVE  IInv'
<1>1. /\ request[c].id \in SessionId
      /\ request[c].at = "begin"
      /\ request[c].held = {}
  BY DEF IInv, Control, Sound, Finds, At
<1>2. PICK r \in Request :
        /\ request' = [request EXCEPT ![c] = r]
        /\ \/ /\ r = [request[c] EXCEPT !.at = "release", !.status = "NotExist"]
              /\ m_sessions[request[c].id] = None
           \/ /\ r = [request[c] EXCEPT !.at = next, !.held = {m_sessions[request[c].id]}]
              /\ m_sessions[request[c].id] # None
  BY <1>1, FindsRequest DEF IInv
<1>3. OnlyRequest(c, r)
  BY <1>2 DEF OnlyRequest, Finds, sessionVars
<1>4. /\ r.code = request[c].code /\ r.id = request[c].id /\ r.arg = request[c].arg
      /\ r.thread = None /\ r.joins = None /\ r.attempt = request[c].attempt
      /\ request[c].thread = None /\ request[c].joins = None
      /\ r.at \in {"release", next} /\ r.at # "idle"
      /\ Refers(c, r)
  <2>1. request[c] \in Request /\ Sound(request[c])
    BY DEF IInv, TypeOK, Control
  <2>2. request[c].thread = None /\ request[c].joins = None
    BY <2>1, <1>1 DEF Sound
  <2>3. QED
    BY <2>1, <2>2, <1>1, <1>2 DEF Request, Refers
<1>5. Sound(r)
  <2>1. Sound(request[c])
    BY DEF IInv, Control
  <2>2. CASE r = [request[c] EXCEPT !.at = "release", !.status = "NotExist"]
    <3>1. "release" \in Places(request[c].code)
      BY <2>1, <1>1 DEF Sound, Places, OfTheDevice
    <3>2. QED
      BY <2>1, <2>2, <3>1, <1>1 DEF Sound, Works, IInv, TypeOK, Request
  <2>3. CASE /\ r = [request[c] EXCEPT !.at = next, !.held = {m_sessions[request[c].id]}]
             /\ m_sessions[request[c].id] # None
    <3>1. m_sessions[request[c].id] \in Slot
      BY <2>3, <1>1 DEF IInv, TypeOK
    <3>2. QED
      BY <2>1, <2>3, <3>1, <1>1 DEF Sound, Works, IInv, TypeOK, Request
  <2>4. QED
    BY <1>2, <2>2, <2>3
<1>6. QED
  BY <1>1, <1>3, <1>4, <1>5, CalmKeeps

\* A handler that goes on, or ends with a status.
LEMMA CalmGoes ==
  ASSUME IInv, NEW c \in Client, NEW at \in Position, NEW status \in Status,
         OnlyRequest(c, [request[c] EXCEPT !.at = at, !.status = status]),
         request[c].code \notin ChangesState \cup Answering,
         request[c].at \notin {"idle", "start", "enable", "assign", "join", "move"},
         at \in Places(request[c].code),
         at \notin {"idle", "begin", "start", "enable", "assign", "join", "move"},
         at = "release" \/ request[c].code = "DEVICE_RESET" \/ Works(request[c]),
         status # "Overflow", at # "release" => status = "Ok"
  PROVE  IInv'
<1> DEFINE r == [request[c] EXCEPT !.at = at, !.status = status]
<1>0. Sound(request[c]) /\ request[c] \in Request
  BY DEF IInv, Control, TypeOK
<1>1. r \in Request
  BY <1>0 DEF Request
<1>2. /\ r.at = at /\ r.status = status
      /\ r.code = request[c].code /\ r.id = request[c].id /\ r.arg = request[c].arg
      /\ r.held = request[c].held /\ r.thread = request[c].thread
      /\ r.joins = request[c].joins /\ r.attempt = request[c].attempt
      /\ r.size = request[c].size /\ r.needed = request[c].needed
  BY <1>0 DEF Request
<1>3. r.thread = None /\ r.joins = None
  BY <1>0, <1>2 DEF Sound
<1> HIDE DEF r
<1>4. Sound(r)
  BY <1>0, <1>2, <1>3 DEF Sound, Works
<1>5. OnlyRequest(c, r)
  BY DEF r
<1>6. QED
  BY <1>1, <1>2, <1>3, <1>4, <1>5, CalmKeeps DEF Refers

\* Handlers of the device, and of sessions where no part of the invariant looks.
LEMMA CalmSteps ==
  ASSUME IInv, NEW c \in Client, UNCHANGED promise,
         \/ OnUwbDeviceReset(c) \/ OnUwbGetSessionCount(c) \/ OnUwbSimulatorCapabilities(c)
         \/ OnUwbGetSessionState(c) \/ OnUwbSessionStartRanging(c)
         \/ OnUwbSessionUpdateControllerMulticastList(c)
  PROVE  IInv'
<1>1. Sound(request[c]) /\ request[c] \in Request /\ request \in [Client -> Request]
  BY DEF IInv, Control, TypeOK
<1>3. CASE OnUwbDeviceReset(c)
  <2>1. PICK at \in {"Uninitialized", "initialize", "Ready", "release"} :
            request' = [request EXCEPT ![c].at = at]
    BY <1>3 DEF OnUwbDeviceReset, DeviceReset, DeviceUpdateState, Goes
  <2>2. request[c].code = "DEVICE_RESET" /\ request[c].at \in Places("DEVICE_RESET")
        /\ request[c].at # "release"
    BY <1>1, <1>3 DEF OnUwbDeviceReset, DeviceReset, DeviceUpdateState, At, Handles, Sound, Places
  <2>3. request[c].status = "Ok"
    BY <1>1, <2>2 DEF Sound
  <2>4. OnlyRequest(c, [request[c] EXCEPT !.at = at, !.status = "Ok"])
    BY <1>1, <2>1, <2>3, <1>3 DEF OnlyRequest, OnUwbDeviceReset, Request, sessionVars
  <2>5. QED
    BY <2>2, <2>4, CalmGoes DEF Position, Status, Places, ChangesState, Answering
<1>4. CASE OnUwbGetSessionCount(c) \/ OnUwbSimulatorCapabilities(c)
  <2>1. request' = [request EXCEPT ![c].at = "release", ![c].status = "Ok"]
        /\ request[c].code \in {"GET_SESSION_COUNT", "SIM_GET_CAPABILITIES"}
        /\ request[c].at = "begin"
    BY <1>4 DEF OnUwbGetSessionCount, OnUwbSimulatorCapabilities, Ends, Handles, At
  <2>2. OnlyRequest(c, [request[c] EXCEPT !.at = "release", !.status = "Ok"])
    BY <2>1, <1>4 DEF OnlyRequest, OnUwbGetSessionCount, OnUwbSimulatorCapabilities, sessionVars
  <2>3. QED
    BY <2>1, <2>2, CalmGoes DEF Position, Status, Places, ChangesState, Answering
<1>5. CASE OnUwbGetSessionState(c) \/ OnUwbSessionStartRanging(c)
  <2>1. /\ request[c].code \in {"GET_SESSION_STATE", "START_RANGING_SESSION"}
        /\ Finds(c, "release")
        /\ UNCHANGED <<fileVars, historyVars>>
    BY <1>5 DEF OnUwbGetSessionState, OnUwbSessionStartRanging, Handles
  <2>2. /\ "release" \in Position
        /\ "release" \in Places(request[c].code)
        /\ request[c].code \notin OfTheDevice \cup ChangesState \cup Answering
    BY <2>1 DEF Position, Places, OfTheDevice, ChangesState, Answering
  <2>3. QED
    BY <2>1, <2>2, CalmFinds
<1>6. CASE OnUwbSessionUpdateControllerMulticastList(c)
  <2> DEFINE code == "SESSION_UPDATE_CONTROLLER_MULTICAST_LIST"
  <2>1. request[c].code = code
    BY <1>6 DEF OnUwbSessionUpdateControllerMulticastList, Handles
  <2>2. CASE Finds(c, "list")
    <3>1. /\ "list" \in Position
          /\ "list" \in Places(request[c].code)
          /\ request[c].code \notin OfTheDevice \cup ChangesState \cup Answering
      BY <2>1 DEF Position, Places, OfTheDevice, ChangesState, Answering
    <3>2. UNCHANGED <<fileVars, historyVars>>
      BY <1>6 DEF OnUwbSessionUpdateControllerMulticastList
    <3>3. QED
      BY <3>1, <3>2, <2>2, CalmFinds
  <2>3. CASE SessionUpdateControllerMulticastList(c) /\ UNCHANGED <<m_sessions, generator, terminated>>
    <3>1. PICK status \in {"Ok", "InvalidParameter"} :
             request' = [request EXCEPT ![c].at = "release", ![c].status = status]
      BY <2>3 DEF SessionUpdateControllerMulticastList, Ends
    <3>2. OnlyRequest(c, [request[c] EXCEPT !.at = "release", !.status = status])
      BY <3>1, <2>3, <1>6 DEF OnlyRequest, OnUwbSessionUpdateControllerMulticastList,
         SessionUpdateControllerMulticastList
    <3>3. request[c].at = "list"
      BY <2>3 DEF SessionUpdateControllerMulticastList, At
    <3>4. QED
      BY <2>1, <3>2, <3>3, CalmGoes DEF Position, Status, Places, Works, ChangesState, Answering
  <2>4. QED
    BY <1>6, <2>2, <2>3 DEF OnUwbSessionUpdateControllerMulticastList
<1>7. QED
  BY <1>3, <1>4, <1>5, <1>6

-----------------------------------------------------------------------------
(* TriggerSessionEvent: the generator of a session.                        *)

\* Of a step on a generator only the threads are left to look at.
LEMMA TriggerKeeps ==
  ASSUME IInv, NEW c \in Client, NEW r \in Request, Sound(r),
         request[c].code = "SIM_TRIGGER_SESSION_EVENT",
         request[c].at \notin {"idle", "begin", "release"}, r.at \notin {"idle", "begin"},
         request' = [request EXCEPT ![c] = r],
         r.code = request[c].code, r.id = request[c].id, r.held = request[c].held,
         r.attempt = request[c].attempt,
         UNCHANGED <<m_sessions, fileVars, historyVars, promise>>,
         session' \in [Slot -> [State : SessionState, Enabled : BOOLEAN,
                                Thread : Generator \cup {None}, Parameters : Nat]],
         \A s \in Slot : /\ session'[s].State = session[s].State
                         /\ session'[s].Parameters = session[s].Parameters
                         /\ session'[s] = session[s] \/ s \in request[c].held,
         generator' \in [Generator -> [session : Slot \cup {None}, stop : BOOLEAN,
                                       done : BOOLEAN]],
         terminated' \in BOOLEAN,
         ThreadInv'
  PROVE  IInv'
<1> USE DEF IInv
<1>1. /\ request' \in [Client -> Request]
      /\ Control'
      /\ request'[c] = r
      /\ \A d \in Client \ {c} : request'[d] = request[d]
  BY Replaced
<1>2. TypeOK'
  BY <1>1 DEF TypeOK, fileVars, historyVars
<1>3. Owned' /\ FreeSlots' = FreeSlots
  BY ReferenceTaken DEF Refers, FreeSlot, Holders
<1>4. SlotsLeft'
  <2>1. Initializing' \subseteq Initializing
    BY <1>1 DEF Initializing, At
  <2>2. QED
    BY <1>3, <2>1, SlotsLeftKept
<1>5. Balanced'
  BY <1>1, BalanceKept DEF Counted, historyVars
<1>6. NotifyInv'
  BY <1>1, NotifyKept DEF TypeOK, fileVars, historyVars, ChangesState
<1>7. AnswerInv'
  <2>1. \A d \in Client : request'[d].code \notin Answering => request'[d].status # "Overflow"
    BY <1>1 DEF Control, Sound
  <2>2. QED
    BY <1>1, <2>1, AnswersKept DEF Answering
<1>8. QED
  BY <1>1, <1>2, <1>3, <1>4, <1>5, <1>6, <1>7

\* The handler's session is the one that it holds.
LEMMA HoldsOne ==
  ASSUME TypeOK, Control, NEW c \in Client, Works(request[c])
  PROVE  /\ Of(c) \in Slot
         /\ request[c].held = {Of(c)}
<1>1. PICK s \in Slot : request[c].held = {s}
  BY DEF Control, Sound
<1>2. QED
  BY <1>1 DEF Of

Triggers(c) ==
    /\ IInv /\ ~terminated
    /\ request[c].code = "SIM_TRIGGER_SESSION_EVENT"
    /\ UNCHANGED <<promise, m_sessions, m_deviceState, fileVars, historyVars>>

GoneTo(c, at, thread, joins) ==
    [request[c] EXCEPT !.at = at, !.thread = thread, !.joins = joins]

\* The position changes, and the handles as the position tells.
LEMMA TriggerGoes ==
  ASSUME NEW c \in Client, Triggers(c), Works(request[c]),
         NEW at \in {"enable", "assign", "join", "move", "disable", "request_stop", "release"},
         at \in {"enable", "assign", "join", "move"} => request[c].arg = "start",
         NEW thread \in Generator \cup {None}, NEW joins \in Generator \cup {None},
         thread # None <=> at \in {"assign", "join", "move"},
         joins # None <=> at = "join",
         NEW r, r = GoneTo(c, at, thread, joins)
  PROVE  /\ r \in Request /\ Sound(r)
         /\ r.at = at /\ r.thread = thread /\ r.joins = joins
         /\ r.code = request[c].code /\ r.id = request[c].id /\ r.arg = request[c].arg
         /\ r.held = request[c].held /\ r.attempt = request[c].attempt
<1>1. request[c] \in Request /\ Sound(request[c])
  BY DEF Triggers, IInv, TypeOK, Control
<1>2. r \in Request
  BY <1>1 DEF Request, Position, GoneTo
<1>3. /\ r.at = at /\ r.thread = thread /\ r.joins = joins
      /\ r.code = request[c].code /\ r.id = request[c].id /\ r.arg = request[c].arg
      /\ r.held = request[c].held /\ r.attempt = request[c].attempt
      /\ r.status = request[c].status /\ r.size = request[c].size
      /\ r.needed = request[c].needed
  BY <1>1 DEF Request, GoneTo
<1>4. request[c].code = "SIM_TRIGGER_SESSION_EVENT"
  BY DEF Triggers
<1>5. at \in Places(r.code)
  BY <1>3, <1>4 DEF Places
<1>6. Sound(r)
  BY <1>1, <1>3, <1>4, <1>5 DEF Sound, Works
<1>7. QED
  BY <1>2, <1>3, <1>6

\* A generator that is asked to stop is still who it was.
LEMMA AskedToStop ==
  ASSUME TypeOK, NEW g \in Generator, generator[g].session # None,
         generator' = [generator EXCEPT ![g].stop = TRUE]
  PROVE  /\ generator' \in [Generator -> [session : Slot \cup {None}, stop : BOOLEAN,
                                          done : BOOLEAN]]
         /\ \A h \in Generator :
               /\ generator'[h].session = generator[h].session
               /\ generator'[h] = NoThread <=> generator[h] = NoThread
<1>1. generator' \in [Generator -> [session : Slot \cup {None}, stop : BOOLEAN, done : BOOLEAN]]
  BY DEF TypeOK
<1>2. \A h \in Generator \ {g} : generator'[h] = generator[h]
  BY DEF TypeOK
<1>3. generator'[g].session = generator[g].session
  BY DEF TypeOK
<1>4. generator[g] # NoThread /\ generator'[g] # NoThread
  BY <1>3 DEF NoThread
<1>5. QED
  BY <1>1, <1>2, <1>3, <1>4

\* The thread of a session in use refers to it.
LEMMA ThreadOfSession ==
  ASSUME IInv, ~terminated, NEW s \in Slot, session[s].Thread # None
  PROVE  /\ session[s].Thread \in Generator
         /\ generator[session[s].Thread].session = s
  BY DEF IInv, TypeOK, ThreadInv, OneHandle

LEMMA StartLooked ==
  ASSUME NEW c \in Client, Triggers(c), At(c, "start"),
         RandomRangingMeasurementGenerationStart(c), UNCHANGED terminated
  PROVE  IInv'
<1>1. Sound(request[c]) /\ request[c] \in Request
  BY DEF Triggers, IInv, Control, TypeOK
<1>2. /\ Works(request[c]) /\ request[c].thread = None /\ request[c].joins = None
      /\ request[c].arg = "start" /\ request[c].status = "Ok"
  BY <1>1 DEF Triggers, Works, At, Sound
<1>3. PICK at \in {"enable", "release"} :
        /\ request' = [request EXCEPT ![c] = GoneTo(c, at, None, None)]
        /\ UNCHANGED <<session, generator>>
  <2>1. CASE Ends(c, "Ok")
    <3> DEFINE r == [request[c] EXCEPT !.at = "release", !.status = "Ok"]
    <3>1. r = GoneTo(c, "release", None, None)
      BY <1>1, <1>2 DEF Request, GoneTo
    <3>2. request' = [request EXCEPT ![c] = r]
      BY <2>1 DEF Ends
    <3>3. QED
      BY <3>1, <3>2 DEF RandomRangingMeasurementGenerationStart, At
  <2>2. CASE Goes(c, "enable")
    <3> DEFINE r == [request[c] EXCEPT !.at = "enable"]
    <3>1. r = GoneTo(c, "enable", None, None)
      BY <1>1, <1>2 DEF Request, GoneTo
    <3>2. request' = [request EXCEPT ![c] = r]
      BY <2>2 DEF Goes
    <3>3. QED
      BY <3>1, <3>2 DEF RandomRangingMeasurementGenerationStart, At
  <2>3. QED
    BY <2>1, <2>2 DEF RandomRangingMeasurementGenerationStart, At
<1> DEFINE r == GoneTo(c, at, None, None)
<1>4. /\ r \in Request /\ Sound(r)
      /\ r.at = at /\ r.thread = None /\ r.joins = None
      /\ r.code = request[c].code /\ r.id = request[c].id /\ r.arg = request[c].arg
      /\ r.held = request[c].held /\ r.attempt = request[c].attempt
  BY <1>2, TriggerGoes
<1>5. OnlyRequest(c, r)
  BY <1>3 DEF OnlyRequest, Triggers
<1> HIDE DEF r
<1>6. QED
  BY <1>1, <1>2, <1>4, <1>5, CalmKeeps DEF Triggers, Refers, At, ChangesState, Answering

\* A step that leaves the handles as they are, and may change one session.
LEMMA TriggerHandlesSame ==
  ASSUME NEW c \in Client, Triggers(c), Works(request[c]),
         request[c].at \notin {"idle", "begin", "release"},
         NEW at \in {"enable", "assign", "join", "move", "disable", "request_stop", "release"},
         at \in {"enable", "assign", "join", "move"} => request[c].arg = "start",
         request[c].thread # None <=> at \in {"assign", "join", "move"},
         request[c].joins # None <=> at = "join",
         at = "enable" => request[c].at = "start",
         request' = [request EXCEPT ![c] = GoneTo(c, at, request[c].thread, request[c].joins)],
         UNCHANGED terminated,
         session' = session \/ session' = [session EXCEPT ![Of(c)].Enabled = TRUE]
                            \/ session' = [session EXCEPT ![Of(c)].Enabled = FALSE],
         generator' \in [Generator -> [session : Slot \cup {None}, stop : BOOLEAN,
                                       done : BOOLEAN]],
         \A g \in Generator : /\ generator'[g].session = generator[g].session
                              /\ generator'[g] = NoThread <=> generator[g] = NoThread
  PROVE  IInv'
<1> DEFINE r == GoneTo(c, at, request[c].thread, request[c].joins)
<1>1. /\ IInv /\ TypeOK /\ Control /\ ThreadInv
      /\ UNCHANGED <<promise, m_sessions, fileVars, historyVars>>
  BY DEF Triggers, IInv
<1>2. request[c].thread \in Generator \cup {None} /\ request[c].joins \in Generator \cup {None}
  BY <1>1 DEF TypeOK, Request
<1>3. /\ r \in Request /\ Sound(r)
      /\ r.at = at /\ r.thread = request[c].thread /\ r.joins = request[c].joins
      /\ r.code = request[c].code /\ r.id = request[c].id /\ r.arg = request[c].arg
      /\ r.held = request[c].held /\ r.attempt = request[c].attempt
  BY <1>2, TriggerGoes
<1>4. request' = [request EXCEPT ![c] = r]
  OBVIOUS
<1> HIDE DEF r
<1>5. /\ request'[c] = r
      /\ \A d \in Client \ {c} : request'[d] = request[d]
  BY <1>1, <1>3, <1>4, Replaced
<1>6. Of(c) \in Slot /\ request[c].held = {Of(c)}
  BY <1>1, HoldsOne
<1>7. /\ session' \in [Slot -> [State : SessionState, Enabled : BOOLEAN,
                                Thread : Generator \cup {None}, Parameters : Nat]]
      /\ \A s \in Slot : /\ session'[s].State = session[s].State
                         /\ session'[s].Parameters = session[s].Parameters
                         /\ session'[s].Thread = session[s].Thread
                         /\ session'[s] = session[s] \/ s \in request[c].held
  <2>1. session \in [Slot -> [State : SessionState, Enabled : BOOLEAN,
                             Thread : Generator \cup {None}, Parameters : Nat]]
    BY <1>1 DEF TypeOK
  <2>2. CASE session' = session
    BY <2>1, <2>2
  <2>3. CASE session' = [session EXCEPT ![Of(c)].Enabled = TRUE]
    BY <2>1, <2>3, <1>6
  <2>4. CASE session' = [session EXCEPT ![Of(c)].Enabled = FALSE]
    BY <2>1, <2>4, <1>6
  <2>5. QED
    BY <2>2, <2>3, <2>4
<1>8. ThreadInv'
  <2>1. SameThreads
    BY <1>3, <1>5, <1>7 DEF SameThreads
  <2>2. Starting' \subseteq Starting
    BY <1>3, <1>5 DEF Starting
  <2>3. QED
    BY <1>1, <2>1, <2>2, ThreadsKept
<1>9. request[c].code = "SIM_TRIGGER_SESSION_EVENT" /\ terminated' \in BOOLEAN
  BY <1>1 DEF Triggers, TypeOK
<1>10. r.at \notin {"idle", "begin"}
  BY <1>3
<1>11. QED
  BY <1>1, <1>3, <1>4, <1>7, <1>8, <1>9, <1>10, TriggerKeeps

\* The request, as a step that names its new position and status leaves it.
LEMMA GoneToIs ==
  ASSUME TypeOK, NEW c \in Client, request[c].status = "Ok", NEW at
  PROVE  /\ Goes(c, at) => request' = [request EXCEPT ![c] =
                                GoneTo(c, at, request[c].thread, request[c].joins)]
         /\ Ends(c, "Ok") => request' = [request EXCEPT ![c] =
                                GoneTo(c, "release", request[c].thread, request[c].joins)]
<1>1. request[c] \in Request
  BY DEF TypeOK
<1>2. [request[c] EXCEPT !.at = at] = GoneTo(c, at, request[c].thread, request[c].joins)
  BY <1>1 DEF GoneTo, Request
<1>3. [request[c] EXCEPT !.at = "release", !.status = "Ok"]
        = GoneTo(c, "release", request[c].thread, request[c].joins)
  BY <1>1 DEF GoneTo, Request
<1>4. QED
  BY <1>2, <1>3 DEF Goes, Ends

LEMMA StopSteps ==
  ASSUME NEW c \in Client, Triggers(c), request[c].at \in {"stop", "disable", "request_stop"},
         RandomRangingMeasurementGenerationStop(c), UNCHANGED terminated
  PROVE  IInv'
<1>1. /\ TypeOK /\ Control /\ Sound(request[c]) /\ IInv /\ ~terminated
      /\ request[c].code = "SIM_TRIGGER_SESSION_EVENT"
  BY DEF Triggers, IInv, Control
<1>2. /\ Works(request[c]) /\ request[c].thread = None /\ request[c].joins = None
      /\ request[c].status = "Ok" /\ request[c].at \notin {"idle", "begin", "release"}
  BY <1>1 DEF Works, Sound
<1>3. generator \in [Generator -> [session : Slot \cup {None}, stop : BOOLEAN, done : BOOLEAN]]
  BY <1>1 DEF TypeOK
<1>4. Of(c) \in Slot /\ request[c].held = {Of(c)}
  BY <1>1, <1>2, HoldsOne
<1>5. CASE At(c, "stop")
  <2>1. /\ Ends(c, "Ok") \/ Goes(c, "disable")
        /\ UNCHANGED <<session, generator>>
    BY <1>5 DEF RandomRangingMeasurementGenerationStop, At
  <2>2. PICK at \in {"disable", "release"} : request' = [request EXCEPT ![c] =
            GoneTo(c, at, request[c].thread, request[c].joins)]
    BY <1>1, <1>2, <2>1, GoneToIs
  <2>3. QED
    BY <1>2, <1>3, <2>1, <2>2, TriggerHandlesSame
<1>6. CASE At(c, "disable")
  <2>1. /\ session' = [session EXCEPT ![Of(c)].Enabled = FALSE]
        /\ Goes(c, "request_stop")
        /\ UNCHANGED generator
    BY <1>6 DEF RandomRangingMeasurementGenerationStop, At
  <2>2. request' = [request EXCEPT ![c] =
            GoneTo(c, "request_stop", request[c].thread, request[c].joins)]
    BY <1>1, <1>2, <2>1, GoneToIs
  <2>3. QED
    BY <1>2, <1>3, <2>1, <2>2, TriggerHandlesSame
<1>7. CASE At(c, "request_stop")
  <2> DEFINE g == session[Of(c)].Thread
  <2>1. /\ generator' = IF g # None THEN [generator EXCEPT ![g].stop = TRUE] ELSE generator
        /\ Ends(c, "Ok")
        /\ UNCHANGED session
    BY <1>7 DEF RandomRangingMeasurementGenerationStop, At
  <2>2. request' = [request EXCEPT ![c] =
            GoneTo(c, "release", request[c].thread, request[c].joins)]
    BY <1>1, <1>2, <2>1, GoneToIs
  <2>3. g # None => g \in Generator /\ generator[g].session = Of(c)
    BY <1>1, <1>4, ThreadOfSession
  <2>4. /\ generator' \in [Generator -> [session : Slot \cup {None}, stop : BOOLEAN,
                                         done : BOOLEAN]]
        /\ \A h \in Generator : /\ generator'[h].session = generator[h].session
                                /\ generator'[h] = NoThread <=> generator[h] = NoThread
    <3>1. CASE g = None
      BY <3>1, <2>1, <1>3
    <3>2. CASE g # None
      <4>1. generator[g].session # None
        BY <3>2, <2>3, <1>4, SimulatorAssumption
      <4>2. generator' = [generator EXCEPT ![g].stop = TRUE]
        BY <3>2, <2>1
      <4> HIDE DEF g
      <4>3. QED
        BY <3>2, <2>3, <4>1, <4>2, <1>1, AskedToStop
    <3>3. QED
      BY <3>1, <3>2
  <2>5. QED
    BY <1>2, <2>1, <2>2, <2>4, TriggerHandlesSame
<1>8. QED
  BY <1>5, <1>6, <1>7 DEF At

\* The other steps change the handles to the threads.
Took(c, at, thread, joins) ==
    /\ request'[c].at = at /\ request'[c].thread = thread /\ request'[c].joins = joins
    /\ request'[c].held = {Of(c)} /\ request'[c].arg = request[c].arg
    /\ \A d \in Client \ {c} : request'[d] = request[d]

LEMMA TriggerRequest ==
  ASSUME NEW c \in Client, Triggers(c), Works(request[c]),
         NEW at \in {"enable", "assign", "join", "move", "disable", "request_stop", "release"},
         at \in {"enable", "assign", "join", "move"} => request[c].arg = "start",
         NEW thread \in Generator \cup {None}, NEW joins \in Generator \cup {None},
         thread # None <=> at \in {"assign", "join", "move"},
         joins # None <=> at = "join",
         request' = [request EXCEPT ![c] = GoneTo(c, at, thread, joins)]
  PROVE  Took(c, at, thread, joins)
<1>1. TypeOK /\ Control
  BY DEF Triggers, IInv
<1>2. Of(c) \in Slot /\ request[c].held = {Of(c)}
  BY <1>1, HoldsOne
<1> DEFINE r == GoneTo(c, at, thread, joins)
<1>3. /\ r \in Request /\ Sound(r)
      /\ r.at = at /\ r.thread = thread /\ r.joins = joins
      /\ r.held = request[c].held /\ r.arg = request[c].arg
  BY TriggerGoes
<1>4. request' = [request EXCEPT ![c] = r]
  OBVIOUS
<1> HIDE DEF r
<1>5. request'[c] = r /\ \A d \in Client \ {c} : request'[d] = request[d]
  BY <1>1, <1>3, <1>4, Replaced
<1>6. QED
  BY <1>2, <1>3, <1>5 DEF Took

LEMMA TriggerChanges ==
  ASSUME NEW c \in Client, Triggers(c), Works(request[c]),
         NEW at \in {"enable", "assign", "join", "move", "disable", "request_stop", "release"},
         at \in {"enable", "assign", "join", "move"} => request[c].arg = "start",
         NEW thread \in Generator \cup {None}, NEW joins \in Generator \cup {None},
         thread # None <=> at \in {"assign", "join", "move"},
         joins # None <=> at = "join",
         request' = [request EXCEPT ![c] = GoneTo(c, at, thread, joins)],
         session' \in [Slot -> [State : SessionState, Enabled : BOOLEAN,
                                Thread : Generator \cup {None}, Parameters : Nat]],
         \A s \in Slot : /\ session'[s].State = session[s].State
                         /\ session'[s].Parameters = session[s].Parameters
                         /\ s # Of(c) => session'[s] = session[s],
         generator' \in [Generator -> [session : Slot \cup {None}, stop : BOOLEAN,
                                       done : BOOLEAN]],
         terminated' \in BOOLEAN,
         ~terminated' => OneHandle' /\ ThreadsLeft'
  PROVE  IInv'
<1> DEFINE r == GoneTo(c, at, thread, joins)
<1>1. /\ IInv /\ TypeOK /\ Control
      /\ request[c].code = "SIM_TRIGGER_SESSION_EVENT"
      /\ UNCHANGED <<promise, m_sessions, fileVars, historyVars>>
  BY DEF Triggers, IInv
<1>2. Of(c) \in Slot /\ request[c].held = {Of(c)}
  BY <1>1, HoldsOne
<1>3. /\ r \in Request /\ Sound(r)
      /\ r.at = at
      /\ r.code = request[c].code /\ r.id = request[c].id
      /\ r.held = request[c].held /\ r.attempt = request[c].attempt
  BY TriggerGoes
<1>4. request' = [request EXCEPT ![c] = r]
  OBVIOUS
<1> HIDE DEF r
<1>5. ThreadInv'
  BY DEF ThreadInv
<1>6. r.at \notin {"idle", "begin"} /\ request[c].at \notin {"idle", "begin", "release"}
  BY <1>3 DEF Works
<1>7. \A s \in Slot : session'[s] = session[s] \/ s \in request[c].held
  BY <1>2
<1>8. QED
  BY <1>1, <1>3, <1>4, <1>5, <1>6, <1>7, TriggerKeeps

\* A thread is left for who is about to start one.
LEMMA ThreadFound ==
  ASSUME TypeOK, ThreadsLeft, NEW c \in Starting
  PROVE  (CHOOSE g \in FreeThreads : TRUE) \in FreeThreads
<1>1. Starting # {} /\ IsFiniteSet(Starting) /\ IsFiniteSet(FreeThreads)
  BY Finite
<1>2. Cardinality(Starting) # 0 /\ Cardinality(Starting) \in Nat
  BY <1>1, FS_EmptySet, FS_CardinalityType
<1>3. FreeThreads # {}
  BY <1>1, <1>2, FS_EmptySet DEF ThreadsLeft
<1>4. QED
  BY <1>3

\* One set less one of its members, another less one of its own.
LEMMA OneLess ==
  ASSUME NEW A, NEW X, NEW a \in A, NEW x \in X, IsFiniteSet(A), IsFiniteSet(X),
         Cardinality(A) <= Cardinality(X)
  PROVE  Cardinality(A \ {a}) <= Cardinality(X \ {x})
<1>1. /\ Cardinality(A \ {a}) = Cardinality(A) - 1
      /\ Cardinality(X \ {x}) = Cardinality(X) - 1
  BY FS_RemoveElement
<1>2. Cardinality(A) \in Nat /\ Cardinality(X) \in Nat
  BY FS_CardinalityType
<1>3. QED
  BY <1>1, <1>2

\* The handle of the request that has started a thread is the only one to it.
LEMMA HandleOfRequest ==
  ASSUME OneHandle, NEW c \in Client, NEW g, g = request[c].thread, g # None
  PROVE  /\ request[c].held = {generator[g].session}
         /\ \A s \in Slot : session[s].Thread # g
         /\ \A d \in Client : request[d].joins # g
         /\ \A d \in Client \ {c} : request[d].thread # g
BY DEF OneHandle

LEMMA StartEnables ==
  ASSUME NEW c \in Client, Triggers(c), At(c, "enable"),
         RandomRangingMeasurementGenerationStart(c), UNCHANGED terminated
  PROVE  IInv'
<1>1. /\ TypeOK /\ Control /\ Sound(request[c]) /\ request[c] \in Request
      /\ OneHandle /\ ThreadsLeft
  BY DEF Triggers, IInv, Control, TypeOK, ThreadInv
<1>2. /\ Works(request[c]) /\ request[c].thread = None /\ request[c].joins = None
      /\ request[c].arg = "start" /\ request[c].at = "enable"
  BY <1>1 DEF Triggers, Works, At, Sound
<1>3. Of(c) \in Slot
  BY <1>1, <1>2, HoldsOne
<1> DEFINE g == CHOOSE g \in FreeThreads : TRUE
<1>4. c \in Starting
  BY <1>2 DEF Starting
<1>5. g \in FreeThreads
  BY <1>1, <1>4, ThreadFound
<1>6. /\ session' = [session EXCEPT ![Of(c)].Enabled = TRUE]
      /\ generator' = [generator EXCEPT ![g].session = Of(c)]
      /\ request' = [request EXCEPT ![c].at = "assign", ![c].thread = g]
  BY <1>2 DEF RandomRangingMeasurementGenerationStart, At
<1> HIDE DEF g
<1>7. /\ g \in Generator /\ generator[g] = NoThread /\ generator[g].session = None
      /\ g # None /\ \A d \in Client : request[d].joins # g
  BY <1>5, SimulatorAssumption DEF FreeThreads, NoThread
<1>8. request' = [request EXCEPT ![c] = GoneTo(c, "assign", g, None)]
  <2>1. [request[c] EXCEPT !.at = "assign", !.thread = g] = GoneTo(c, "assign", g, None)
    BY <1>1, <1>2 DEF GoneTo, Request
  <2>2. QED
    BY <1>6, <2>1
<1>9. /\ request'[c].at = "assign" /\ request'[c].thread = g /\ request'[c].joins = None
      /\ request'[c].held = {Of(c)} /\ request'[c].arg = request[c].arg
      /\ \A d \in Client \ {c} : request'[d] = request[d]
  <2>1. Took(c, "assign", g, None)
    BY <1>2, <1>7, <1>8, TriggerRequest
  <2>2. QED
    BY <2>1 DEF Took
<1>10. /\ generator' \in [Generator -> [session : Slot \cup {None}, stop : BOOLEAN,
                                        done : BOOLEAN]]
       /\ generator'[g].session = Of(c)
       /\ \A h \in Generator \ {g} : generator'[h] = generator[h]
  BY <1>1, <1>3, <1>6, <1>7 DEF TypeOK
<1>11. /\ session' \in [Slot -> [State : SessionState, Enabled : BOOLEAN,
                                 Thread : Generator \cup {None}, Parameters : Nat]]
       /\ \A s \in Slot : /\ session'[s].State = session[s].State
                          /\ session'[s].Parameters = session[s].Parameters
                          /\ session'[s].Thread = session[s].Thread
                          /\ s # Of(c) => session'[s] = session[s]
  BY <1>1, <1>3, <1>6 DEF TypeOK
<1>12. \A s \in Slot : session[s].Thread # g
  BY <1>1, <1>7, SimulatorAssumption DEF OneHandle
<1>13. \A d \in Client : request[d].thread # g
  <2> SUFFICES ASSUME NEW d \in Client, request[d].thread = g PROVE FALSE
    OBVIOUS
  <2>1. request[d].held = {None}
    BY <1>1, <1>7 DEF OneHandle
  <2>2. QED
    BY <1>1, <2>1, SimulatorAssumption DEF TypeOK, Request
<1>14. OneHandle'
  <2>1. \A s \in Slot : session'[s].Thread # None =>
          generator'[session'[s].Thread].session = s
    <3>1. \A s \in Slot : session[s].Thread \in Generator \cup {None}
      BY <1>1 DEF TypeOK
    <3>2. QED
      BY <1>1, <1>10, <1>11, <1>12, <3>1 DEF OneHandle
  <2>2. ASSUME NEW d \in Client, NEW h, h = request'[d].thread, h # None
        PROVE  /\ request'[d].held = {generator'[h].session}
               /\ \A s \in Slot : session'[s].Thread # h
               /\ \A e \in Client : request'[e].joins # h
               /\ \A e \in Client \ {d} : request'[e].thread # h
    <3>1. CASE d = c
      BY <3>1, <2>2, <1>7, <1>9, <1>10, <1>11, <1>12, <1>13
    <3>2. CASE d # c
      <4>1. h = request[d].thread /\ h # g /\ h \in Generator
        BY <3>2, <2>2, <1>1, <1>9, <1>13 DEF TypeOK, Request
      <4>2. /\ request[d].held = {generator[h].session}
            /\ \A s \in Slot : session[s].Thread # h
            /\ \A e \in Client : request[e].joins # h
            /\ \A e \in Client \ {d} : request[e].thread # h
        BY <4>1, <2>2, <1>1, HandleOfRequest
      <4>3. QED
        BY <4>1, <4>2, <3>2, <2>2, <1>9, <1>10, <1>11
    <3>3. QED
      BY <3>1, <3>2
  <2>3. ASSUME NEW d \in Client, NEW h, h = request'[d].joins, h # None
        PROVE  generator'[h].session \in request'[d].held \cup {None}
    <3>1. d # c /\ h = request[d].joins /\ h # g /\ h \in Generator
      BY <2>3, <1>1, <1>7, <1>9 DEF TypeOK, Request
    <3>2. QED
      BY <3>1, <2>3, <1>1, <1>9, <1>10 DEF OneHandle
  <2>4. ASSUME NEW h \in Generator
        PROVE  IF generator'[h].session = None THEN generator'[h] = NoThread
               ELSE \/ session'[generator'[h].session].Thread = h
                    \/ \E d \in Client : request'[d].thread = h
    <3>1. CASE h = g
      BY <3>1, <1>3, <1>9, <1>10, SimulatorAssumption
    <3>2. CASE h # g
      <4>1. generator'[h] = generator[h] /\ generator[h].session \in Slot \cup {None}
        BY <3>2, <1>1, <1>10 DEF TypeOK
      <4>2. \A d \in Client : request[d].thread = h => request'[d].thread = h
        BY <1>2, <1>9, SimulatorAssumption
      <4>3. QED
        BY <4>1, <4>2, <1>1, <1>11 DEF OneHandle
    <3>3. QED
      BY <3>1, <3>2
  <2>5. QED
    BY <2>1, <2>2, <2>3, <2>4 DEF OneHandle
<1>15. ThreadsLeft'
  <2>1. Starting' \subseteq Starting \ {c}
    BY <1>9 DEF Starting
  <2>2. FreeThreads \ {g} \subseteq FreeThreads'
    <3> SUFFICES ASSUME NEW h \in FreeThreads, h # g PROVE h \in FreeThreads'
      OBVIOUS
    <3>1. h \in Generator /\ generator'[h] = NoThread
      BY <1>10 DEF FreeThreads
    <3>2. \A d \in Client : request'[d].joins # h
      BY <1>9, <3>1, SimulatorAssumption DEF FreeThreads
    <3>3. QED
      BY <3>1, <3>2 DEF FreeThreads
  <2>3. IsFiniteSet(Starting \ {c}) /\ IsFiniteSet(FreeThreads')
    <3>1. Starting \ {c} \subseteq Client /\ FreeThreads' \subseteq Generator
      BY DEF Starting, FreeThreads
    <3>2. QED
      BY <3>1, FS_Subset, SimulatorAssumption
  <2>4. Cardinality(Starting \ {c}) <= Cardinality(FreeThreads \ {g})
    BY <1>1, <1>4, <1>5, Finite, OneLess DEF ThreadsLeft
  <2>5. QED
    BY <2>1, <2>2, <2>3, <2>4, StillLeft DEF ThreadsLeft
<1>16. terminated' \in BOOLEAN
  BY <1>1 DEF TypeOK
<1>17. QED
  BY <1>2, <1>7, <1>8, <1>10, <1>11, <1>14, <1>15, <1>16, TriggerChanges

\* What TriggerChanges asks of a session whose thread alone may change.
LEMMA ThreadReplaced ==
  ASSUME TypeOK, NEW s \in Slot, NEW g \in Generator \cup {None},
         session' = [session EXCEPT ![s].Thread = g]
  PROVE  /\ session' \in [Slot -> [State : SessionState, Enabled : BOOLEAN,
                                   Thread : Generator \cup {None}, Parameters : Nat]]
         /\ \A t \in Slot : /\ session'[t].State = session[t].State
                            /\ session'[t].Parameters = session[t].Parameters
                            /\ t # s => session'[t] = session[t]
         /\ session'[s].Thread = g
<1>1. session \in [Slot -> [State : SessionState, Enabled : BOOLEAN,
                            Thread : Generator \cup {None}, Parameters : Nat]]
  BY DEF TypeOK
<1>2. QED
  BY <1>1

LEMMA ThreadsLeftKept ==
  ASSUME ThreadsLeft, FreeThreads \subseteq FreeThreads', Starting' \subseteq Starting
  PROVE  ThreadsLeft'
<1>1. FreeThreads' \subseteq Generator
  BY DEF FreeThreads
<1>2. IsFiniteSet(FreeThreads')
  BY <1>1, FS_Subset, SimulatorAssumption
<1>3. QED
  BY <1>2, Finite, StillLeft DEF ThreadsLeft

\* The session has a thread, which is asked to stop.
LEMMA AssignStops ==
  ASSUME NEW c \in Client, Triggers(c), At(c, "assign"), AssignThread(c, Of(c)),
         request[c].held # {}
  PROVE  IInv'
<1> DEFINE old == session[Of(c)].Thread
           t == request[c].thread
<1>1. /\ TypeOK /\ Control /\ Sound(request[c]) /\ request[c] \in Request
      /\ IInv /\ ~terminated /\ OneHandle /\ ThreadsLeft
  BY DEF Triggers, IInv, Control, TypeOK, ThreadInv
<1>2. /\ Works(request[c]) /\ t # None /\ t \in Generator \cup {None}
      /\ request[c].joins = None /\ request[c].arg = "start" /\ request[c].at = "assign"
      /\ request[c].status = "Ok"
  BY <1>1 DEF Triggers, Works, At, Sound, Request
<1>3. Of(c) \in Slot /\ request[c].held = {Of(c)}
  BY <1>1, <1>2, HoldsOne
<1>4. UNCHANGED <<session, terminated>>
  BY <1>2 DEF AssignThread, At
<1>5. CASE old = None
  <2>1. Goes(c, "move") /\ UNCHANGED generator
    BY <1>2, <1>5 DEF AssignThread, At
  <2>2. request' = [request EXCEPT ![c] =
            GoneTo(c, "move", request[c].thread, request[c].joins)]
    BY <1>1, <1>2, <2>1, GoneToIs
  <2>3. generator' \in [Generator -> [session : Slot \cup {None}, stop : BOOLEAN,
                                      done : BOOLEAN]]
    BY <1>1, <2>1 DEF TypeOK
  <2>4. \A g \in Generator : /\ generator'[g].session = generator[g].session
                             /\ generator'[g] = NoThread <=> generator[g] = NoThread
    BY <2>1
  <2>5. QED
    BY <1>2, <1>4, <2>2, <2>3, <2>4, TriggerHandlesSame
<1>6. CASE old # None
  <2>1. /\ generator' = [generator EXCEPT ![old].stop = TRUE]
        /\ request' = [request EXCEPT ![c].at = "join", ![c].joins = old]
    BY <1>2, <1>6 DEF AssignThread, At
  <2>2. old \in Generator /\ generator[old].session = Of(c)
    BY <1>1, <1>3, <1>6, ThreadOfSession
  <2>3. generator[old].session # None
    BY <2>2, <1>3, SimulatorAssumption
  <2> HIDE DEF old
  <2>4. request' = [request EXCEPT ![c] = GoneTo(c, "join", t, old)]
    <3>1. [request[c] EXCEPT !.at = "join", !.joins = old] = GoneTo(c, "join", t, old)
      BY <1>1, <1>2 DEF GoneTo, Request
    <3>2. QED
      BY <2>1, <3>1
  <2>5. Took(c, "join", t, old)
    BY <1>2, <1>6, <2>2, <2>4, TriggerRequest
  <2>6. /\ generator' \in [Generator -> [session : Slot \cup {None}, stop : BOOLEAN,
                                         done : BOOLEAN]]
        /\ \A h \in Generator : /\ generator'[h].session = generator[h].session
                                /\ generator'[h] = NoThread <=> generator[h] = NoThread
    BY <2>1, <2>2, <2>3, <1>1, AskedToStop
  <2>7. OneHandle'
    <3>1. \A s \in Slot : session'[s].Thread # None =>
            generator'[session'[s].Thread].session = s
      BY <1>1, <1>4, <2>6 DEF OneHandle, TypeOK
    <3>2. ASSUME NEW d \in Client, NEW h, h = request'[d].thread, h # None
          PROVE  /\ request'[d].held = {generator'[h].session}
                 /\ \A s \in Slot : session'[s].Thread # h
                 /\ \A e \in Client : request'[e].joins # h
                 /\ \A e \in Client \ {d} : request'[e].thread # h
      <4>1. /\ \A e \in Client : request'[e].thread = request[e].thread
            /\ \A e \in Client : request'[e].held = request[e].held
            /\ \A e \in Client : request'[e].joins \in {request[e].joins, old}
        BY <2>5, <1>3 DEF Took
      <4>2. h = request[d].thread /\ h \in Generator
        BY <3>2, <4>1, <1>1 DEF TypeOK, Request
      <4>3. /\ request[d].held = {generator[h].session}
            /\ \A s \in Slot : session[s].Thread # h
            /\ \A e \in Client : request[e].joins # h
            /\ \A e \in Client \ {d} : request[e].thread # h
        BY <4>2, <3>2, <1>1, HandleOfRequest
      <4>4. old # h
        BY <4>3, <1>3 DEF old
      <4>5. QED
        BY <4>1, <4>2, <4>3, <4>4, <1>4, <2>6
    <3>3. ASSUME NEW d \in Client, NEW h, h = request'[d].joins, h # None
          PROVE  generator'[h].session \in request'[d].held \cup {None}
      <4>1. CASE d = c
        BY <4>1, <3>3, <2>2, <2>5, <2>6 DEF Took
      <4>2. CASE d # c
        <5>1. request'[d] = request[d] /\ h \in Generator
          BY <4>2, <3>3, <2>5, <1>1 DEF Took, TypeOK, Request
        <5>2. QED
          BY <5>1, <3>3, <2>6, <1>1 DEF OneHandle
      <4>3. QED
        BY <4>1, <4>2
    <3>4. ASSUME NEW h \in Generator
          PROVE  IF generator'[h].session = None THEN generator'[h] = NoThread
                 ELSE \/ session'[generator'[h].session].Thread = h
                      \/ \E d \in Client : request'[d].thread = h
      <4>1. \A e \in Client : request'[e].thread = request[e].thread
        BY <2>5 DEF Took
      <4>2. QED
        BY <4>1, <1>1, <1>4, <2>6 DEF OneHandle
    <3>5. QED
      BY <3>1, <3>2, <3>3, <3>4 DEF OneHandle
  <2>8. ThreadsLeft'
    <3>1. Starting' \subseteq Starting
      BY <2>5, <1>2 DEF Starting, Took
    <3>2. ASSUME NEW h \in FreeThreads PROVE h \in FreeThreads'
      <4>1. h \in Generator /\ generator[h] = NoThread /\ \A d \in Client : request[d].joins # h
        BY DEF FreeThreads
      <4>2. h # old
        BY <4>1, <2>3 DEF NoThread
      <4>3. QED
        BY <4>1, <4>2, <2>5, <2>6 DEF FreeThreads, Took
    <3>3. QED
      BY <3>1, <3>2, <1>1, ThreadsLeftKept
  <2>9. terminated' \in BOOLEAN
    BY <1>1, <1>4 DEF TypeOK
  <2>10. session' \in [Slot -> [State : SessionState, Enabled : BOOLEAN,
                                Thread : Generator \cup {None}, Parameters : Nat]]
    BY <1>1, <1>4 DEF TypeOK
  <2>11. QED
    BY <1>2, <1>4, <1>6, <2>2, <2>4, <2>6, <2>7, <2>8, <2>9, <2>10, TriggerChanges
<1>7. QED
  BY <1>5, <1>6

\* The old thread has ended: nothing refers to it any more.
LEMMA AssignJoins ==
  ASSUME NEW c \in Client, Triggers(c), At(c, "join"), AssignThread(c, Of(c)),
         request[c].held # {}
  PROVE  IInv'
<1> DEFINE j == request[c].joins
           t == request[c].thread
           g == IF session[Of(c)].Thread = j THEN None ELSE session[Of(c)].Thread
<1>1. /\ TypeOK /\ Control /\ Sound(request[c]) /\ request[c] \in Request
      /\ IInv /\ ~terminated /\ OneHandle /\ ThreadsLeft
  BY DEF Triggers, IInv, Control, TypeOK, ThreadInv
<1>2. /\ Works(request[c]) /\ t # None /\ t \in Generator \cup {None}
      /\ j # None /\ j \in Generator /\ request[c].arg = "start" /\ request[c].at = "join"
  BY <1>1 DEF Triggers, Works, At, Sound, Request
<1>3. Of(c) \in Slot /\ request[c].held = {Of(c)}
  BY <1>1, <1>2, HoldsOne
<1>4. /\ generator' = [generator EXCEPT ![j] = NoThread]
      /\ session' = [session EXCEPT ![Of(c)].Thread = IF @ = j THEN None ELSE @]
      /\ request' = [request EXCEPT ![c].at = "move", ![c].joins = None]
      /\ UNCHANGED terminated
  BY <1>2 DEF AssignThread, At
<1>5. request' = [request EXCEPT ![c] = GoneTo(c, "move", t, None)]
  <2>1. [request[c] EXCEPT !.at = "move", !.joins = None] = GoneTo(c, "move", t, None)
    BY <1>1, <1>2 DEF GoneTo, Request
  <2>2. QED
    BY <1>4, <2>1
<1>6. Took(c, "move", t, None)
  BY <1>2, <1>5, TriggerRequest
<1>7. session' = [session EXCEPT ![Of(c)].Thread = g] /\ g \in Generator \cup {None}
  BY <1>1, <1>3, <1>4 DEF TypeOK
<1>8. /\ generator' \in [Generator -> [session : Slot \cup {None}, stop : BOOLEAN,
                                       done : BOOLEAN]]
      /\ generator'[j] = NoThread
      /\ \A h \in Generator \ {j} : generator'[h] = generator[h]
  BY <1>1, <1>2, <1>4 DEF TypeOK, NoThread
<1>9. /\ session' \in [Slot -> [State : SessionState, Enabled : BOOLEAN,
                                Thread : Generator \cup {None}, Parameters : Nat]]
      /\ \A s \in Slot : /\ session'[s].State = session[s].State
                         /\ session'[s].Parameters = session[s].Parameters
                         /\ s # Of(c) => session'[s] = session[s]
      /\ session'[Of(c)].Thread = g
  <2> HIDE DEF g
  <2>1. QED
    BY <1>1, <1>3, <1>7, ThreadReplaced
<1>10. \A s \in Slot : /\ session'[s].Thread \in {None, session[s].Thread}
                       /\ session[s].Thread # j => session'[s].Thread = session[s].Thread
  BY <1>9
<1>11. OneHandle'
  <2>1. ASSUME NEW s \in Slot, session'[s].Thread # None
        PROVE  generator'[session'[s].Thread].session = s
    <3>1. session'[s].Thread = session[s].Thread /\ session[s].Thread \in Generator
      BY <2>1, <1>1, <1>10 DEF TypeOK
    <3>2. generator[session[s].Thread].session = s
      BY <3>1, <2>1, <1>1 DEF OneHandle
    <3>3. session[s].Thread # j
      <4>1. CASE s = Of(c)
        BY <4>1, <3>1, <2>1, <1>9
      <4>2. CASE s # Of(c)
        <5>1. generator[j].session \in {Of(c), None}
          BY <1>1, <1>2, <1>3 DEF OneHandle
        <5>2. QED
          BY <5>1, <4>2, <3>2, SimulatorAssumption
      <4>3. QED
        BY <4>1, <4>2
    <3>4. QED
      BY <3>1, <3>2, <3>3, <1>8
  <2>2. ASSUME NEW d \in Client, NEW h, h = request'[d].thread, h # None
        PROVE  /\ request'[d].held = {generator'[h].session}
               /\ \A s \in Slot : session'[s].Thread # h
               /\ \A e \in Client : request'[e].joins # h
               /\ \A e \in Client \ {d} : request'[e].thread # h
    <3>1. /\ \A e \in Client : request'[e].thread = request[e].thread
          /\ \A e \in Client : request'[e].held = request[e].held
          /\ \A e \in Client : request'[e].joins \in {request[e].joins, None}
      BY <1>3, <1>6 DEF Took
    <3>2. h = request[d].thread /\ h \in Generator
      BY <2>2, <3>1, <1>1 DEF TypeOK, Request
    <3>3. /\ request[d].held = {generator[h].session}
          /\ \A s \in Slot : session[s].Thread # h
          /\ \A e \in Client : request[e].joins # h
          /\ \A e \in Client \ {d} : request[e].thread # h
      BY <3>2, <2>2, <1>1, HandleOfRequest
    <3>4. h # j
      BY <3>3
    <3>5. QED
      BY <2>2, <3>1, <3>2, <3>3, <3>4, <1>8, <1>10
  <2>3. ASSUME NEW d \in Client, NEW h, h = request'[d].joins, h # None
        PROVE  generator'[h].session \in request'[d].held \cup {None}
    <3>1. d # c /\ request'[d] = request[d] /\ h \in Generator
      BY <2>3, <1>1, <1>6 DEF Took, TypeOK, Request
    <3>2. CASE h = j
      BY <3>2, <1>8 DEF NoThread
    <3>3. CASE h # j
      BY <3>1, <3>3, <2>3, <1>1, <1>8 DEF OneHandle
    <3>4. QED
      BY <3>2, <3>3
  <2>4. ASSUME NEW h \in Generator
        PROVE  IF generator'[h].session = None THEN generator'[h] = NoThread
               ELSE \/ session'[generator'[h].session].Thread = h
                    \/ \E d \in Client : request'[d].thread = h
    <3>1. CASE h = j
      BY <3>1, <1>8 DEF NoThread
    <3>2. CASE h # j
      <4>1. \A e \in Client : request'[e].thread = request[e].thread
        BY <1>6 DEF Took
      <4>2. generator'[h] = generator[h] /\ generator[h].session \in Slot \cup {None}
        BY <3>2, <1>1, <1>8 DEF TypeOK
      <4>3. QED
        BY <3>2, <4>1, <4>2, <1>1, <1>10 DEF OneHandle
    <3>3. QED
      BY <3>1, <3>2
  <2>5. QED
    BY <2>1, <2>2, <2>3, <2>4 DEF OneHandle
<1>12. ThreadsLeft'
  <2>1. Starting' \subseteq Starting
    BY <1>6, <1>2 DEF Starting, Took
  <2>2. ASSUME NEW h \in FreeThreads PROVE h \in FreeThreads'
    <3>1. h \in Generator /\ generator[h] = NoThread /\ \A d \in Client : request[d].joins # h
      BY DEF FreeThreads
    <3>2. \A d \in Client : request'[d].joins # h
      BY <3>1, <1>6, SimulatorAssumption DEF Took
    <3>3. generator'[h] = NoThread
      BY <3>1, <1>8
    <3>4. QED
      BY <3>1, <3>2, <3>3 DEF FreeThreads
  <2>3. QED
    BY <2>1, <2>2, <1>1, ThreadsLeftKept
<1>13. terminated' \in BOOLEAN
  BY <1>1, <1>4 DEF TypeOK
<1>14. QED
  BY <1>2, <1>5, <1>8, <1>9, <1>11, <1>12, <1>13, TriggerChanges

\* The session's handle is replaced, and is let go of only if it is empty.
LEMMA AssignMoves ==
  ASSUME NEW c \in Client, Triggers(c), At(c, "move"), AssignThread(c, Of(c)),
         request[c].held # {}
  PROVE  IInv'
<1> DEFINE t == request[c].thread
<1>1. /\ TypeOK /\ Control /\ Sound(request[c]) /\ request[c] \in Request
      /\ IInv /\ ~terminated /\ OneHandle /\ ThreadsLeft
  BY DEF Triggers, IInv, Control, TypeOK, ThreadInv
<1>2. /\ Works(request[c]) /\ t # None /\ t \in Generator
      /\ request[c].joins = None /\ request[c].arg = "start" /\ request[c].at = "move"
  BY <1>1 DEF Triggers, Works, At, Sound, Request
<1>3. Of(c) \in Slot /\ request[c].held = {Of(c)}
  BY <1>1, <1>2, HoldsOne
<1>4. /\ terminated' = (session[Of(c)].Thread # None)
      /\ session' = [session EXCEPT ![Of(c)].Thread = t]
      /\ request' = [request EXCEPT ![c].at = "release", ![c].thread = None]
      /\ UNCHANGED generator
  BY <1>2 DEF AssignThread, At
<1>5. request' = [request EXCEPT ![c] = GoneTo(c, "release", None, None)]
  <2>1. [request[c] EXCEPT !.at = "release", !.thread = None]
            = GoneTo(c, "release", None, None)
    BY <1>1, <1>2 DEF GoneTo, Request
  <2>2. QED
    BY <1>4, <2>1
<1>6. Took(c, "release", None, None)
  BY <1>2, <1>5, TriggerRequest
<1>7. /\ session' \in [Slot -> [State : SessionState, Enabled : BOOLEAN,
                                Thread : Generator \cup {None}, Parameters : Nat]]
      /\ \A s \in Slot : /\ session'[s].State = session[s].State
                         /\ session'[s].Parameters = session[s].Parameters
                         /\ s # Of(c) => session'[s] = session[s]
      /\ session'[Of(c)].Thread = t
  BY <1>1, <1>2, <1>3, <1>4, ThreadReplaced
<1>8. /\ request[c].held = {generator[t].session}
      /\ \A s \in Slot : session[s].Thread # t
      /\ \A e \in Client : request[e].joins # t
      /\ \A e \in Client \ {c} : request[e].thread # t
  BY <1>1, <1>2, HandleOfRequest
<1>9. ASSUME ~terminated' PROVE OneHandle'
  <2>0. session[Of(c)].Thread = None
    BY <1>4, <1>9
  <2>1. ASSUME NEW s \in Slot, session'[s].Thread # None
        PROVE  generator'[session'[s].Thread].session = s
    <3>1. CASE s = Of(c)
      BY <3>1, <1>3, <1>4, <1>7, <1>8
    <3>2. CASE s # Of(c)
      BY <3>2, <2>1, <1>1, <1>4, <1>7 DEF OneHandle
    <3>3. QED
      BY <3>1, <3>2
  <2>2. ASSUME NEW d \in Client, NEW h, h = request'[d].thread, h # None
        PROVE  /\ request'[d].held = {generator'[h].session}
               /\ \A s \in Slot : session'[s].Thread # h
               /\ \A e \in Client : request'[e].joins # h
               /\ \A e \in Client \ {d} : request'[e].thread # h
    <3>1. d # c /\ request'[d] = request[d]
      BY <2>2, <1>6 DEF Took
    <3>2. /\ request[d].held = {generator[h].session}
          /\ \A s \in Slot : session[s].Thread # h
          /\ \A e \in Client : request[e].joins # h
          /\ \A e \in Client \ {d} : request[e].thread # h
      BY <3>1, <2>2, <1>1, HandleOfRequest
    <3>3. h # t
      BY <3>1, <3>2
    <3>4. \A s \in Slot : session'[s].Thread # h
      BY <3>2, <3>3, <1>7
    <3>5. \A e \in Client : request'[e].joins # h
      BY <3>2, <1>6, <2>2 DEF Took
    <3>6. \A e \in Client \ {d} : request'[e].thread # h
      BY <3>2, <1>6, <2>2 DEF Took
    <3>7. QED
      BY <3>1, <3>2, <3>4, <3>5, <3>6, <1>4
  <2>3. ASSUME NEW d \in Client, NEW h, h = request'[d].joins, h # None
        PROVE  generator'[h].session \in request'[d].held \cup {None}
    <3>1. d # c /\ request'[d] = request[d]
      BY <2>3, <1>6 DEF Took
    <3>2. QED
      BY <3>1, <2>3, <1>1, <1>4 DEF OneHandle
  <2>4. ASSUME NEW h \in Generator
        PROVE  IF generator'[h].session = None THEN generator'[h] = NoThread
               ELSE \/ session'[generator'[h].session].Thread = h
                    \/ \E d \in Client : request'[d].thread = h
    <3>1. CASE h = t
      <4>1. generator'[t].session = Of(c)
        BY <1>3, <1>4, <1>8
      <4>2. QED
        BY <3>1, <4>1, <1>3, <1>7, SimulatorAssumption
    <3>2. CASE h # t
      <4>1. generator[h].session \in Slot \cup {None}
        BY <1>1 DEF TypeOK
      <4>2. \A d \in Client : request[d].thread = h => request'[d].thread = h
        BY <3>2, <1>6 DEF Took
      <4>3. IF generator[h].session = None THEN generator[h] = NoThread
            ELSE \/ session[generator[h].session].Thread = h
                 \/ \E d \in Client : request[d].thread = h
        BY <1>1 DEF OneHandle
      <4>4. h # None
        BY SimulatorAssumption
      <4>5. session[Of(c)].Thread # h
        BY <4>4, <2>0
      <4>6. QED
        BY <4>1, <4>2, <4>3, <4>5, <1>4, <1>7
    <3>3. QED
      BY <3>1, <3>2
  <2>5. QED
    BY <2>1, <2>2, <2>3, <2>4 DEF OneHandle
<1>10. ThreadsLeft'
  <2>1. Starting' \subseteq Starting
    BY <1>6, <1>2 DEF Starting, Took
  <2>2. ASSUME NEW h \in FreeThreads PROVE h \in FreeThreads'
    <3>1. h \in Generator /\ generator[h] = NoThread /\ \A d \in Client : request[d].joins # h
      BY DEF FreeThreads
    <3>2. \A d \in Client : request'[d].joins # h
      BY <3>1, <1>6, SimulatorAssumption DEF Took
    <3>3. QED
      BY <3>1, <3>2, <1>4 DEF FreeThreads
  <2>3. QED
    BY <2>1, <2>2, <1>1, ThreadsLeftKept
<1>11. terminated' \in BOOLEAN
  BY <1>4
<1>12. generator' \in [Generator -> [session : Slot \cup {None}, stop : BOOLEAN,
                                     done : BOOLEAN]]
  BY <1>1, <1>4 DEF TypeOK
<1>13. QED
  BY <1>2, <1>5, <1>7, <1>9, <1>10, <1>11, <1>12, TriggerChanges

LEMMA TriggerSteps ==
  ASSUME IInv, ~terminated, NEW c \in Client, OnUwbSimulatorTriggerSessionEvent(c),
         UNCHANGED promise
  PROVE  IInv'
<1>1. /\ request[c].code = "SIM_TRIGGER_SESSION_EVENT"
      /\ Sound(request[c])
  BY DEF OnUwbSimulatorTriggerSessionEvent, Handles, IInv, Control
<1>2. CASE Finds(c, request[c].arg)
  <2>1. /\ request[c].arg \in Position
        /\ request[c].code \notin OfTheDevice \cup ChangesState \cup Answering
        /\ request[c].arg \in Places(request[c].code)
        /\ request[c].arg \notin {"idle", "begin", "assign", "join", "move"}
        /\ request[c].arg \in {"start", "enable"} => request[c].arg = "start"
    BY <1>1 DEF Sound, Events, Position, OfTheDevice, ChangesState, Answering, Places
  <2>2. UNCHANGED <<promise, fileVars, historyVars>>
    BY DEF OnUwbSimulatorTriggerSessionEvent
  <2>3. QED
    BY <1>2, <2>1, <2>2, CalmFinds
<1>3. ASSUME UNCHANGED m_sessions,
             \/ RandomRangingMeasurementGenerationStart(c) /\ UNCHANGED terminated
             \/ request[c].held # {} /\ AssignThread(c, Of(c))
             \/ RandomRangingMeasurementGenerationStop(c) /\ UNCHANGED terminated
      PROVE  IInv'
  <2>1. Triggers(c)
    BY <1>1, <1>3 DEF Triggers, OnUwbSimulatorTriggerSessionEvent
  <2>2. CASE RandomRangingMeasurementGenerationStart(c) /\ UNCHANGED terminated
    <3>1. At(c, "start") \/ At(c, "enable")
      BY <2>2 DEF RandomRangingMeasurementGenerationStart
    <3>2. QED
      BY <3>1, <2>1, <2>2, StartLooked, StartEnables
  <2>3. CASE request[c].held # {} /\ AssignThread(c, Of(c))
    <3>1. At(c, "assign") \/ At(c, "join") \/ At(c, "move")
      BY <2>3 DEF AssignThread
    <3>2. QED
      BY <3>1, <2>1, <2>3, AssignStops, AssignJoins, AssignMoves
  <2>4. CASE RandomRangingMeasurementGenerationStop(c) /\ UNCHANGED terminated
    <3>1. request[c].at \in {"stop", "disable", "request_stop"}
      BY <2>4 DEF RandomRangingMeasurementGenerationStop, At
    <3>2. QED
      BY <3>1, <2>1, <2>4, StopSteps
  <2>5. QED
    BY <1>3, <2>2, <2>3, <2>4
<1>4. QED
  BY <1>2, <1>3 DEF OnUwbSimulatorTriggerSessionEvent

-----------------------------------------------------------------------------
(* The parameters of a session, and the answers that have a size.          *)

LEMMA LargerOfTwo ==
  ASSUME NEW a \in Nat, NEW b \in Nat
  PROVE  Max({a, b}) \in Nat /\ Max({a, b}) >= a
<1>1. \E x \in {a, b} : \A y \in {a, b} : x >= y
  <2>1. CASE a >= b
    BY <2>1
  <2>2. CASE b >= a
    BY <2>2
  <2>3. QED
    BY <2>1, <2>2
<1>2. Max({a, b}) \in {a, b} /\ \A y \in {a, b} : Max({a, b}) >= y
  BY <1>1 DEF Max
<1>3. QED
  BY <1>2

\* Parameters are added to the session that the handler has found, and whoever
\* asks for them meanwhile is marked.
LEMMA ParametersSet ==
  ASSUME IInv, NEW c \in Client, UNCHANGED promise,
         OnUwbSetApplicationConfigurationParameters(c), At(c, "set")
  PROVE  IInv'
<1> DEFINE n == Max({session[Of(c)].Parameters, request[c].size})
<1>1. /\ TypeOK /\ Control /\ Owned /\ SlotsLeft /\ ThreadInv /\ Balanced /\ NotifyInv
      /\ AnswerInv /\ Sound(request[c]) /\ request \in [Client -> Request]
      /\ session \in [Slot -> [State : SessionState, Enabled : BOOLEAN,
                               Thread : Generator \cup {None}, Parameters : Nat]]
  BY DEF IInv, Control, TypeOK
<1>2. /\ request[c].code = "SET_APP_CONFIG_PARAMS" /\ request[c].at = "set"
      /\ Works(request[c]) /\ request[c].status = "Ok"
  BY <1>1 DEF OnUwbSetApplicationConfigurationParameters, Handles, At, Works, Sound
<1>3. Of(c) \in Slot /\ request[c].held = {Of(c)}
  BY <1>1, <1>2, HoldsOne
<1>4. /\ \/ UNCHANGED session
         \/ session' = [session EXCEPT ![Of(c)].Parameters = n]
      /\ request' = [d \in Client |->
             IF d = c THEN [request[c] EXCEPT !.at = "release"]
             ELSE [request[d] EXCEPT !.grown = @ \/ (Asking(d) /\ session' # session)]]
      /\ UNCHANGED <<m_sessions, generator, terminated>>
      /\ UNCHANGED <<fileVars, historyVars, promise>>
  BY <1>2 DEF OnUwbSetApplicationConfigurationParameters, Finds, At, n
<1>5. n \in Nat
  <2>1. session[Of(c)].Parameters \in Nat /\ request[c].size \in Nat
    BY <1>1, <1>3 DEF Request
  <2>2. QED
    BY <2>1, LargerOfTwo DEF n
<1> HIDE DEF n
<1>6. /\ session' \in [Slot -> [State : SessionState, Enabled : BOOLEAN,
                                Thread : Generator \cup {None}, Parameters : Nat]]
      /\ \A s \in Slot : /\ session'[s].State = session[s].State
                         /\ session'[s].Thread = session[s].Thread
                         /\ s # Of(c) => session'[s] = session[s]
  <2>1. CASE UNCHANGED session
    BY <2>1, <1>1
  <2>2. CASE session' = [session EXCEPT ![Of(c)].Parameters = n]
    BY <2>2, <1>1, <1>3, <1>5
  <2>3. QED
    BY <1>4, <2>1, <2>2
<1>7. /\ request'[c] \in Request /\ Sound(request'[c])
      /\ request'[c] = [request[c] EXCEPT !.at = "release"]
  <2> DEFINE r == [request[c] EXCEPT !.at = "release"]
  <2>1. r \in Request
    BY <1>1 DEF Request, Position
  <2>2. /\ r.at = "release" /\ r.code = request[c].code /\ r.id = request[c].id
        /\ r.arg = request[c].arg /\ r.held = request[c].held
        /\ r.attempt = request[c].attempt /\ r.thread = request[c].thread
        /\ r.joins = request[c].joins /\ r.status = request[c].status
    BY <1>1 DEF Request
  <2>3. request'[c] = r
    BY <1>4
  <2> HIDE DEF r
  <2>4. Sound(r)
    BY <1>1, <1>2, <2>2 DEF Sound, Works, Places
  <2>5. QED
    BY <2>1, <2>3, <2>4 DEF r
<1>8. ASSUME NEW d \in Client, d # c
      PROVE  /\ request'[d] \in Request
             /\ request'[d] = [request[d] EXCEPT !.grown = request'[d].grown]
             /\ request'[d].grown = (request[d].grown \/ (Asking(d) /\ session' # session))
             /\ ~Asking(d) => request'[d] = request[d]
             /\ request'[d].grown = request[d].grown => request'[d] = request[d]
  <2>1. request[d] \in Request /\ request[d].grown \in BOOLEAN
    BY <1>1 DEF Request
  <2>2. PICK b \in BOOLEAN : b = (request[d].grown \/ (Asking(d) /\ session' # session))
    OBVIOUS
  <2>3. request'[d] = [request[d] EXCEPT !.grown = b]
    BY <1>4, <1>8, <2>2
  <2>4. request'[d].grown = b /\ request'[d] \in Request
    BY <2>1, <2>3 DEF Request
  <2>5. ~Asking(d) => b = request[d].grown
    BY <2>1, <2>2
  <2>6. b = request[d].grown => request'[d] = request[d]
    BY <2>1, <2>3 DEF Request
  <2>7. QED
    BY <2>2, <2>3, <2>4, <2>5, <2>6
<1>9. ASSUME NEW d \in Client
      PROVE  /\ request'[d].code = request[d].code /\ request'[d].id = request[d].id
             /\ request'[d].arg = request[d].arg /\ request'[d].held = request[d].held
             /\ request'[d].thread = request[d].thread /\ request'[d].joins = request[d].joins
             /\ request'[d].attempt = request[d].attempt
             /\ request'[d].status = request[d].status
             /\ request'[d].size = request[d].size /\ request'[d].needed = request[d].needed
             /\ request'[d].at = IF d = c THEN "release" ELSE request[d].at
  <2>1. request[d] \in Request
    BY <1>1
  <2>2. CASE d = c
    BY <2>1, <2>2, <1>7 DEF Request
  <2>3. CASE d # c
    BY <2>1, <2>3, <1>8 DEF Request
  <2>4. QED
    BY <2>2, <2>3
<1>10. ASSUME NEW d \in Client PROVE request'[d] \in Request /\ Sound(request'[d])
  <2>1. CASE d = c
    BY <2>1, <1>7
  <2>2. CASE d # c
    <3>1. Sound(request[d])
      BY <1>1 DEF Control
    <3>2. QED
      BY <3>1, <2>2, <1>8, <1>9 DEF Sound, Works
  <2>3. QED
    BY <2>1, <2>2
<1>11. TypeOK' /\ Control'
  <2>1. request' \in [Client -> Request]
    BY <1>4, <1>10
  <2>2. QED
    BY <2>1, <1>1, <1>4, <1>6, <1>10 DEF TypeOK, Control, fileVars, historyVars
<1>12. Owned' /\ FreeSlots' = FreeSlots
  <2>1. SameReferences
    BY <1>4, <1>9 DEF SameReferences
  <2>2. ~FreeSlot(Of(c))
    BY <1>3 DEF FreeSlot, Holders
  <2>3. QED
    BY <1>1, <1>6, <2>1, <2>2, OwnedKept
<1>13. SlotsLeft'
  <2>1. Initializing' \subseteq Initializing
    BY <1>9 DEF Initializing, At
  <2>2. QED
    BY <1>1, <1>12, <2>1, SlotsLeftKept
<1>14. ThreadInv'
  <2>1. SameThreads
    BY <1>4, <1>6, <1>9 DEF SameThreads
  <2>2. Starting' \subseteq Starting
    BY <1>9 DEF Starting
  <2>3. QED
    BY <1>1, <1>4, <2>1, <2>2, ThreadsKept
<1>15. \A d \in Client : request[d].code # "SET_APP_CONFIG_PARAMS" =>
          request[d].code = "GET_APP_CONFIG_PARAMS" \/ request'[d] = request[d]
  BY <1>2, <1>8 DEF Asking
<1>16. Balanced'
  BY <1>1, <1>4, <1>9, <1>15, BalanceKept DEF Counted, historyVars
<1>17. NotifyInv'
  BY <1>1, <1>4, <1>6, <1>9, <1>15, NotifyKept DEF TypeOK, ChangesState, fileVars, historyVars
<1>18. ASSUME NEW d \in Client PROVE Answer(d)'
  <2>1. Answer(d)
    BY <1>1 DEF AnswerInv
  <2>2. Asking(d)' = Asking(d)
    BY <1>2, <1>9 DEF Asking, At
  <2>3. request[d].grown => request'[d].grown
    <3>1. CASE d = c
      <4>1. request[c] \in Request
        BY <1>1
      <4>2. request'[c].grown = request[c].grown
        BY <4>1, <1>7 DEF Request
      <4>3. QED
        BY <3>1, <4>2
    <3>2. CASE d # c
      BY <3>2, <1>8
    <3>3. QED
      BY <3>1, <3>2
  <2>4. ~At(d, "idle")' => promise'[d] = "none"
    BY <2>1, <1>2, <1>4, <1>9 DEF Answer, At
  <2>5. ASSUME Asking(d), ~request'[d].grown
        PROVE  session' = session /\ d # c /\ request'[d] = request[d]
    <3>1. d # c
      BY <2>5, <1>2 DEF Asking
    <3>2. session' = session
      BY <3>1, <2>5, <1>8
    <3>3. request'[d].grown = request[d].grown
      BY <3>1, <3>2, <1>8, <1>1 DEF Request
    <3>4. QED
      BY <3>1, <3>2, <3>3, <1>8
  <2>6. ASSUME Asking(d), ~request'[d].grown, NEW m, Fits(d, m) PROVE Fits(d, m)'
    <3>1. Of(d)' = Of(d)
      BY <2>5, <2>6 DEF Of
    <3>2. QED
      BY <3>1, <2>5, <2>6 DEF Fits
  <2>7. QED
    BY <2>1, <2>2, <2>3, <2>4, <2>5, <2>6, <1>4, <1>9 DEF Answer
<1>19. QED
  BY <1>11, <1>12, <1>13, <1>14, <1>16, <1>17, <1>18 DEF IInv, AnswerInv

LEMMA SetSteps ==
  ASSUME IInv, NEW c \in Client, UNCHANGED promise,
         OnUwbSetApplicationConfigurationParameters(c)
  PROVE  IInv'
<1>1. request[c].code = "SET_APP_CONFIG_PARAMS"
  BY DEF OnUwbSetApplicationConfigurationParameters, Handles
<1>2. CASE Finds(c, "set")
  <2>1. /\ "set" \in Position /\ "set" \in Places(request[c].code)
        /\ request[c].code \notin OfTheDevice \cup ChangesState \cup Answering
    BY <1>1 DEF Position, Places, OfTheDevice, ChangesState, Answering
  <2>2. UNCHANGED <<fileVars, historyVars>>
    BY DEF OnUwbSetApplicationConfigurationParameters
  <2>3. QED
    BY <1>2, <2>1, <2>2, CalmFinds
<1>3. CASE At(c, "set")
  BY <1>3, ParametersSet
<1>4. QED
  BY <1>2, <1>3 DEF OnUwbSetApplicationConfigurationParameters

\* Of a step of a request whose answer has a size, the answer is left to look at.
LEMMA AnsweringKeeps ==
  ASSUME IInv, NEW c \in Client, NEW r \in Request, Sound(r), OnlyRequest(c, r),
         Refers(c, r), request[c].at # "idle", r.at # "idle",
         r.code = request[c].code, r.code \in Answering, r.id = request[c].id,
         r.thread = None, r.joins = None, Answer(c)'
  PROVE  IInv'
<1> USE DEF IInv, OnlyRequest
<1>1. /\ request' \in [Client -> Request]
      /\ Control'
      /\ request'[c] = r
      /\ \A d \in Client \ {c} : request'[d] = request[d]
  BY Replaced
<1>2. TypeOK'
  BY <1>1 DEF TypeOK, fileVars, historyVars
<1>3. Owned' /\ FreeSlots' = FreeSlots
  BY ReferenceTaken
<1>4. SlotsLeft'
  <2>1. Initializing' \subseteq Initializing
    BY <1>1 DEF Initializing, At, Answering
  <2>2. QED
    BY <1>3, <2>1, SlotsLeftKept
<1>5. ThreadInv'
  <2>1. request[c].thread = None /\ request[c].joins = None
    <3>1. Sound(request[c]) /\ request[c].at \in Places(request[c].code)
      BY DEF Control, Sound
    <3>2. request[c].at \notin {"assign", "join", "move"}
      BY <3>1 DEF Places, Answering
    <3>3. QED
      BY <3>1, <3>2 DEF Sound
  <2>2. SameThreads
    BY <1>1, <2>1 DEF SameThreads
  <2>3. r.arg # "start"
    BY DEF Sound, Answering
  <2>4. Starting' \subseteq Starting
    BY <1>1, <2>3 DEF Starting
  <2>5. QED
    BY <2>2, <2>4, ThreadsKept
<1>6. Balanced'
  BY <1>1, BalanceKept DEF Counted, Answering, historyVars
<1>7. NotifyInv'
  BY <1>1, NotifyKept DEF TypeOK, Answering, ChangesState, fileVars, historyVars
<1>8. AnswerInv'
  <2>1. ASSUME NEW d \in Client, d # c PROVE Answer(d)'
    <3>1. request'[d] = request[d] /\ Answer(d)
      BY <1>1, <2>1 DEF AnswerInv
    <3>2. /\ Asking(d)' = Asking(d) /\ At(d, "idle")' = At(d, "idle")
          /\ \A n : Fits(d, n)' = Fits(d, n)
      BY <3>1 DEF Asking, At, Fits, Of
    <3>3. QED
      BY <3>1, <3>2 DEF Answer
  <2>2. QED
    BY <2>1 DEF AnswerInv
<1>9. QED
  BY <1>1, <1>2, <1>3, <1>4, <1>5, <1>6, <1>7, <1>8

AnswerOf(c, needed) ==
    [request[c] EXCEPT !.at = "release", !.needed = needed,
                       !.status = IF request[c].size < needed THEN "Overflow" ELSE "Ok"]

LEMMA AnswerIsSound ==
  ASSUME IInv, NEW c \in Client, NEW needed \in Nat, request[c].code \in Answering,
         Answers(c, needed), NEW r, r = AnswerOf(c, needed), request[c].at # "idle",
         UNCHANGED <<sessionVars, fileVars, historyVars, promise>>
  PROVE  /\ r \in Request /\ Sound(r) /\ OnlyRequest(c, r)
         /\ Refers(c, r) /\ r.thread = None /\ r.joins = None
         /\ request'[c] = r /\ r.at = "release" /\ r.needed = needed
         /\ r.code = request[c].code /\ r.id = request[c].id /\ r.size = request[c].size
         /\ r.held = request[c].held /\ r.attempt = request[c].attempt
         /\ r.grown = request[c].grown
         /\ r.status = IF r.size < needed THEN "Overflow" ELSE "Ok"
<1>1. request \in [Client -> Request] /\ request[c] \in Request /\ Sound(request[c])
  BY DEF IInv, TypeOK, Control
<1>2. r \in Request
  <2>1. PICK status \in Status :
            status = IF request[c].size < needed THEN "Overflow" ELSE "Ok"
    BY DEF Status
  <2>2. r = [request[c] EXCEPT !.at = "release", !.needed = needed, !.status = status]
    BY <2>1 DEF AnswerOf
  <2>3. QED
    BY <1>1, <2>2 DEF Request, Position
<1>3. /\ r.at = "release" /\ r.needed = needed
      /\ r.code = request[c].code /\ r.id = request[c].id /\ r.size = request[c].size
      /\ r.held = request[c].held /\ r.attempt = request[c].attempt
      /\ r.grown = request[c].grown /\ r.arg = request[c].arg
      /\ r.thread = request[c].thread /\ r.joins = request[c].joins
      /\ r.status = IF r.size < needed THEN "Overflow" ELSE "Ok"
  BY <1>1 DEF AnswerOf, Request
<1>4. request' = [request EXCEPT ![c] = r]
  BY DEF Answers, AnswerOf
<1>5. r.thread = None /\ r.joins = None
  <2>1. request[c].at \notin {"assign", "join", "move"}
    BY <1>1 DEF Sound, Places, Answering
  <2>2. QED
    BY <1>1, <1>3, <2>1 DEF Sound
<1>6. "release" \in Places(request[c].code)
  BY DEF Places, Answering
<1>7. Sound(r)
  BY <1>1, <1>3, <1>5, <1>6 DEF Sound, Works, Answering
<1>8. OnlyRequest(c, r)
  BY <1>4 DEF OnlyRequest, sessionVars
<1>9. Refers(c, r)
  BY <1>3 DEF Refers
<1>10. request'[c] = r
  BY <1>1, <1>4
<1>11. QED
  BY <1>2, <1>3, <1>5, <1>7, <1>8, <1>9, <1>10

\* The information and the capabilities of the device never change in size.
LEMMA DeviceAnswers ==
  ASSUME IInv, NEW c \in Client, UNCHANGED promise,
         OnUwbGetDeviceInformation(c) \/ OnUwbGetDeviceCapabilities(c)
  PROVE  IInv'
<1>1. /\ request[c].code \in {"GET_DEVICE_INFO", "GET_DEVICE_CAPABILITIES"}
      /\ request[c].at = "begin" /\ Answers(c, VariableSize)
      /\ UNCHANGED <<sessionVars, fileVars, historyVars>>
  BY DEF OnUwbGetDeviceInformation, OnUwbGetDeviceCapabilities, Handles, At
<1>2. VariableSize \in Nat /\ request[c].code \in Answering
  BY <1>1 DEF VariableSize, Answering
<1> DEFINE r == AnswerOf(c, VariableSize)
<1>3. /\ r \in Request /\ Sound(r) /\ OnlyRequest(c, r)
      /\ Refers(c, r) /\ r.thread = None /\ r.joins = None
      /\ request'[c] = r /\ r.at = "release" /\ r.needed = VariableSize
      /\ r.code = request[c].code /\ r.id = request[c].id /\ r.size = request[c].size
      /\ r.attempt = request[c].attempt
      /\ r.status = IF r.size < VariableSize THEN "Overflow" ELSE "Ok"
  BY <1>1, <1>2, AnswerIsSound
<1> HIDE DEF r
<1>4. Answer(c)'
  <2>1. Answer(c)
    BY DEF IInv, AnswerInv
  <2>2. r.attempt = 1 => r.size = VariableSize
    BY <2>1, <1>1, <1>3 DEF Answer, Answering
  <2>3. ~Asking(c)'
    BY <1>1, <1>3 DEF Asking
  <2>4. r.status = "Overflow" => r.attempt # 1
    BY <1>3, <2>2 DEF VariableSize
  <2>5. promise'[c] = "none"
    BY <2>1, <1>1 DEF Answer, At
  <2>6. QED
    BY <1>3, <2>2, <2>3, <2>4, <2>5 DEF Answer
<1>5. QED
  BY <1>1, <1>2, <1>3, <1>4, AnsweringKeeps

\* The session is looked up: what it has fits, unless some was added since.
LEMMA ParametersFound ==
  ASSUME IInv, NEW c \in Client, UNCHANGED <<promise, fileVars, historyVars>>,
         request[c].code = "GET_APP_CONFIG_PARAMS", Finds(c, "get")
  PROVE  IInv'
<1>1. /\ request[c].id \in SessionId /\ request[c].at = "begin" /\ request[c].held = {}
      /\ Sound(request[c]) /\ request[c] \in Request /\ TypeOK /\ Control
      /\ request[c].status = "Ok" /\ Answer(c)
  BY DEF IInv, Control, TypeOK, AnswerInv, Sound, Finds, At, OfTheDevice
<1> DEFINE i == request[c].id
<1>2. PICK r \in Request :
        /\ request' = [request EXCEPT ![c] = r]
        /\ \/ /\ r = [request[c] EXCEPT !.at = "release", !.status = "NotExist"]
              /\ m_sessions[i] = None
           \/ /\ r = [request[c] EXCEPT !.at = "get", !.held = {m_sessions[i]}]
              /\ m_sessions[i] # None
  BY <1>1, FindsRequest DEF Position
<1>3. /\ r.code = request[c].code /\ r.id = i /\ r.size = request[c].size
      /\ r.attempt = request[c].attempt /\ r.grown = request[c].grown
      /\ r.arg = request[c].arg /\ r.thread = request[c].thread
      /\ r.joins = request[c].joins
      /\ \/ /\ r.at = "release" /\ r.status = "NotExist" /\ r.held = {}
            /\ m_sessions[i] = None
         \/ /\ r.at = "get" /\ r.status = "Ok" /\ r.held = {m_sessions[i]}
            /\ m_sessions[i] \in Slot
  BY <1>1, <1>2 DEF Request, TypeOK
<1>4. r.thread = None /\ r.joins = None
  BY <1>1, <1>3 DEF Sound
<1>5. Sound(r)
  <2>1. r.at \in Places(r.code)
    BY <1>3 DEF Places
  <2>2. QED
    BY <1>1, <1>3, <1>4, <2>1 DEF Sound, Works
<1>6. OnlyRequest(c, r)
  BY <1>2 DEF OnlyRequest, Finds, sessionVars
<1>7. Refers(c, r)
  BY <1>1, <1>3, SimulatorAssumption DEF Refers
<1>8. request'[c] = r
  BY <1>1, <1>2 DEF TypeOK
<1>9. Answer(c)'
  <2>1. promise'[c] = "none"
    BY <1>1 DEF Answer, At
  <2>2. ASSUME ~request'[c].grown, NEW s \in Slot,
               s \in request'[c].held \/ m_sessions'[i] = s,
               At(c, "get")' \/ request'[c].status = "Overflow" \/ request'[c].attempt = 1
        PROVE  Fits(c, session[s].Parameters)'
    <3>1. UNCHANGED <<session, m_sessions>>
      BY DEF Finds, sessionVars
    <3>2. /\ m_sessions[i] = s /\ r.at = "get" /\ r.status = "Ok"
          /\ r.held = {s}
      BY <2>2, <3>1, <1>3, <1>8, SimulatorAssumption
    <3>3. CASE r.attempt = 1
      <4>1. Asking(c) /\ ~request[c].grown
        BY <3>3, <2>2, <1>3, <1>8 DEF Asking
      <4>2. Fits(c, session[s].Parameters)
        BY <4>1, <3>2, <1>1 DEF Answer
      <4>3. session[s].Parameters <= request[c].size
        BY <4>2, <3>3, <1>1, <1>3 DEF Fits
      <4>4. QED
        BY <4>3, <3>1, <3>2, <3>3, <1>3, <1>8 DEF Fits
    <3>4. CASE r.attempt # 1
      <4>1. Of(c)' = s
        BY <3>2, <1>8 DEF Of
      <4>2. session[s].Parameters \in Nat
        BY <1>1 DEF TypeOK
      <4>3. QED
        BY <4>1, <4>2, <3>1, <3>2, <3>4, <1>8 DEF Fits
    <3>5. QED
      BY <3>3, <3>4
  <2>3. request'[c].status # "Overflow" /\ request'[c].id = i
        /\ request'[c].code = "GET_APP_CONFIG_PARAMS"
    BY <1>3, <1>8
  <2>4. QED
    BY <2>1, <2>2, <2>3 DEF Answer, Asking
<1>10. r.at # "idle" /\ r.code \in Answering
  BY <1>3 DEF Answering
<1>11. QED
  BY <1>1, <1>3, <1>4, <1>5, <1>6, <1>7, <1>9, <1>10, AnsweringKeeps

\* What the client asks for is measured against its buffer.
LEMMA ParametersGot ==
  ASSUME IInv, NEW c \in Client, UNCHANGED <<promise, sessionVars, fileVars, historyVars>>,
         request[c].code = "GET_APP_CONFIG_PARAMS", At(c, "get"),
         Answers(c, session[Of(c)].Parameters)
  PROVE  IInv'
<1> DEFINE n == session[Of(c)].Parameters
           r == AnswerOf(c, n)
<1>1. /\ Sound(request[c]) /\ request[c] \in Request /\ TypeOK /\ Control
      /\ request[c].at = "get" /\ request[c].status = "Ok" /\ Works(request[c]) /\ Answer(c)
  BY DEF IInv, Control, TypeOK, AnswerInv, Sound, At, Works
<1>2. Of(c) \in Slot /\ request[c].held = {Of(c)} /\ n \in Nat
  <2>1. Of(c) \in Slot /\ request[c].held = {Of(c)}
    BY <1>1, HoldsOne
  <2>2. QED
    BY <1>1, <2>1 DEF TypeOK
<1>3. request[c].code \in Answering
  BY DEF Answering
<1> HIDE DEF n
<1>4. Answers(c, n)
  BY DEF n
<1>5. /\ r \in Request /\ Sound(r) /\ OnlyRequest(c, r)
      /\ Refers(c, r) /\ r.thread = None /\ r.joins = None
      /\ request'[c] = r /\ r.at = "release" /\ r.needed = n
      /\ r.code = request[c].code /\ r.id = request[c].id /\ r.size = request[c].size
      /\ r.held = request[c].held /\ r.attempt = request[c].attempt
      /\ r.grown = request[c].grown
      /\ r.status = IF r.size < n THEN "Overflow" ELSE "Ok"
  BY <1>1, <1>2, <1>3, <1>4, AnswerIsSound
<1> HIDE DEF r
<1>6. ASSUME ~request[c].grown, NEW s \in Slot,
             s \in request[c].held \/ m_sessions[request[c].id] = s
      PROVE  session[s].Parameters <= IF request[c].attempt = 1 THEN request[c].size ELSE n
  <2>1. Asking(c)
    BY <1>1 DEF Asking, At
  <2>2. Fits(c, session[s].Parameters)
    BY <1>1, <1>6, <2>1 DEF Answer
  <2>3. QED
    BY <1>1, <2>2 DEF Fits, n
<1>7. ~request[c].grown /\ request[c].attempt = 1 => n <= request[c].size
  BY <1>2, <1>6 DEF n
<1>8. Answer(c)'
  <2>1. promise'[c] = "none"
    BY <1>1 DEF Answer, At
  <2>2. request'[c].status = "Overflow" /\ request'[c].attempt = 1 => request'[c].grown
    <3>1. request[c].size \in Nat
      BY <1>1 DEF Request
    <3>2. QED
      BY <3>1, <1>2, <1>5, <1>7
  <2>3. ASSUME ~request'[c].grown, NEW s \in Slot,
               s \in request'[c].held \/ m_sessions'[request'[c].id] = s,
               Asking(c)'
        PROVE  Fits(c, session[s].Parameters)'
    <3>1. UNCHANGED <<session, m_sessions>>
      BY DEF sessionVars
    <3>2. session[s].Parameters <= IF request[c].attempt = 1 THEN request[c].size ELSE n
      BY <1>5, <1>6, <2>3, <3>1
    <3>3. /\ session[s].Parameters \in Nat /\ request[c].size \in Nat
          /\ request[c].attempt \in {0, 1}
      BY <1>1 DEF TypeOK, Request
    <3>4. CASE r.status = "Overflow"
      <4>1. request[c].size < n
        BY <3>4, <1>5
      <4>2. session[s].Parameters <= n
        BY <4>1, <3>2, <3>3, <1>2
      <4>3. QED
        BY <4>2, <3>1, <3>4, <1>5 DEF Fits
    <3>5. CASE r.status # "Overflow"
      <4>1. r.attempt = 1
        BY <3>5, <1>5, <2>3 DEF Asking, At
      <4>2. QED
        BY <4>1, <3>1, <3>2, <3>5, <1>5 DEF Fits
    <3>6. QED
      BY <3>4, <3>5
  <2>4. request'[c].code = "GET_APP_CONFIG_PARAMS"
    BY <1>5
  <2>5. QED
    BY <2>1, <2>2, <2>3, <2>4, <1>5 DEF Answer
<1>9. request[c].at # "idle" /\ r.at # "idle"
  BY <1>1, <1>5
<1>10. QED
  BY <1>3, <1>5, <1>8, <1>9, AnsweringKeeps

LEMMA GetSteps ==
  ASSUME IInv, NEW c \in Client, UNCHANGED promise,
         OnUwbGetApplicationConfigurationParameters(c)
  PROVE  IInv'
BY ParametersFound, ParametersGot
   DEF OnUwbGetApplicationConfigurationParameters, Handles

\* The second attempt offers what the first was told to be needed.
LEMMA RetrySteps ==
  ASSUME IInv, NEW c \in Client, Completed(c), Retries(c)
  PROVE  IInv'
<1> DEFINE r == [request[c] EXCEPT !.at = "begin", !.attempt = 1, !.status = "Ok",
                                   !.size = request[c].needed, !.needed = 0]
<1>1. /\ Sound(request[c]) /\ request[c] \in Request /\ TypeOK /\ Control
      /\ request[c].at = "release" /\ request[c].held = {} /\ request[c].status = "Overflow"
      /\ request[c].code \in Answering /\ Answer(c)
      /\ UNCHANGED <<m_sessions, session>>
  BY DEF IInv, Control, TypeOK, AnswerInv, Sound, Completed, Retries, At, sessionVars
<1>2. r \in Request
  BY <1>1 DEF Request, Position, Status
<1>3. /\ r.at = "begin" /\ r.attempt = 1 /\ r.status = "Ok" /\ r.size = request[c].needed
      /\ r.code = request[c].code /\ r.id = request[c].id /\ r.held = {}
      /\ r.grown = request[c].grown /\ r.arg = request[c].arg
      /\ r.thread = request[c].thread /\ r.joins = request[c].joins
  BY <1>1 DEF Request
<1>4. request' = [request EXCEPT ![c] = r]
  BY DEF Retries
<1> HIDE DEF r
<1>5. r.thread = None /\ r.joins = None
  BY <1>1, <1>3 DEF Sound
<1>6. Sound(r)
  <2>1. r.at \in Places(r.code)
    BY <1>1, <1>3 DEF Places, Answering
  <2>2. QED
    BY <1>1, <1>3, <1>5, <2>1 DEF Sound, Works
<1>7. OnlyRequest(c, r)
  BY <1>4 DEF OnlyRequest, Retries, sessionVars
<1>8. Refers(c, r)
  BY <1>1, <1>3 DEF Refers
<1>9. request'[c] = r
  BY <1>1, <1>4 DEF TypeOK
<1>10. Answer(c)'
  <2>1. promise'[c] = "none"
    BY <1>1 DEF Answer, At, Retries
  <2>2. request'[c].status = "Ok"
    BY <1>3, <1>9
  <2>3. request'[c].code \in Answering \ {"GET_APP_CONFIG_PARAMS"}
            => request'[c].size = VariableSize
    BY <1>1, <1>3, <1>9 DEF Answer
  <2>4. ASSUME Asking(c)', ~request'[c].grown, NEW s \in Slot,
               s \in request'[c].held \/ m_sessions'[request'[c].id] = s
        PROVE  Fits(c, session[s].Parameters)'
    <3>1. Asking(c) /\ ~request[c].grown /\ m_sessions[request[c].id] = s
      BY <2>4, <1>1, <1>3, <1>9 DEF Asking
    <3>2. Fits(c, session[s].Parameters)
      BY <3>1, <1>1 DEF Answer
    <3>3. session[s].Parameters <= request[c].needed
      BY <3>2, <1>1 DEF Fits
    <3>4. QED
      BY <3>3, <1>1, <1>3, <1>9 DEF Fits
  <2>5. QED
    BY <2>1, <2>2, <2>3, <2>4 DEF Answer
<1>11. request[c].at # "idle" /\ r.at # "idle" /\ r.code \in Answering
  BY <1>1, <1>3
<1>12. QED
  BY <1>2, <1>3, <1>5, <1>6, <1>7, <1>8, <1>10, <1>11, AnsweringKeeps

-----------------------------------------------------------------------------
(* Handlers that change the state of a session.                            *)

\* A request that changes a state, after one more step of its handler.
Changed(c, r) ==
    /\ c \in Client /\ r \in Request /\ Sound(r)
    /\ request[c].code \in ChangesState
    /\ request' = [request EXCEPT ![c] = r]
    /\ r.code = request[c].code /\ r.id = request[c].id
    /\ request[c].at # "idle" /\ r.at \notin {"idle", "begin"}
    /\ UNCHANGED <<generator, terminated, m_deviceFiles, historyVars, promise>>

LEMMA ChangedIs ==
  ASSUME IInv, NEW c, NEW r, Changed(c, r)
  PROVE  /\ request' \in [Client -> Request] /\ Control'
         /\ request'[c] = r /\ \A d \in Client \ {c} : request'[d] = request[d]
         /\ request[c].thread = None /\ request[c].joins = None
         /\ r.thread = None /\ r.joins = None /\ r.arg # "start"
         /\ request[c].id \in SessionId
<1>1. /\ TypeOK /\ Control /\ Sound(request[c])
  BY DEF IInv, Control, Changed
<1>2. /\ request[c].at \notin {"assign", "join", "move"}
      /\ r.at \notin {"assign", "join", "move"}
  BY <1>1 DEF Sound, Places, ChangesState, Changed
<1>3. /\ request[c].thread = None /\ request[c].joins = None
      /\ r.thread = None /\ r.joins = None /\ r.arg # "start"
      /\ request[c].id \in SessionId
  BY <1>1, <1>2 DEF Sound, Changed, ChangesState, OfTheDevice
<1>4. QED
  BY <1>1, <1>3, Replaced DEF Changed

\* Threads and answers do not depend on such a step.
LEMMA ChangerKeeps ==
  ASSUME IInv, NEW c, NEW r, Changed(c, r),
         m_sessions' \in [SessionId -> Slot \cup {None}],
         \A i \in SessionId : m_sessions'[i] # None =>
            \/ m_sessions'[i] = m_sessions[i]
            \/ session[m_sessions'[i]].Parameters = 0,
         session' \in [Slot -> [State : SessionState, Enabled : BOOLEAN,
                                Thread : Generator \cup {None}, Parameters : Nat]],
         \A s \in Slot : /\ session'[s].Thread = session[s].Thread
                         /\ session'[s].Parameters = session[s].Parameters,
         last' \in [Listener -> [SessionId -> SessionState \cup {None}]],
         Owned', SlotsLeft', Balanced', NotifyInv'
  PROVE  IInv'
<1>1. /\ request' \in [Client -> Request] /\ Control'
      /\ request'[c] = r /\ \A d \in Client \ {c} : request'[d] = request[d]
      /\ request[c].thread = None /\ request[c].joins = None
      /\ r.thread = None /\ r.joins = None /\ r.arg # "start"
  BY ChangedIs
<1>2. TypeOK /\ Control /\ ThreadInv /\ AnswerInv
  BY DEF IInv
<1>3. TypeOK'
  BY <1>1, <1>2 DEF TypeOK, Changed, historyVars
<1>4. ThreadInv'
  <2>1. SameThreads
    BY <1>1 DEF SameThreads, Changed
  <2>2. Starting' \subseteq Starting
    BY <1>1 DEF Starting
  <2>3. terminated => terminated'
    BY DEF Changed
  <2>4. QED
    BY <1>2, <2>1, <2>2, <2>3, ThreadsKept
<1>5. ASSUME NEW d \in Client PROVE Answer(d)'
  <2>1. Answer(d)
    BY <1>2 DEF AnswerInv
  <2>2. promise' = promise
    BY DEF Changed
  <2>3. CASE d = c
    <3>1. r.code \notin Answering /\ r.status # "Overflow"
      BY <1>2 DEF Changed, ChangesState, Answering, Sound
    <3>2. ~Asking(c)'
      BY <3>1, <1>1 DEF Asking, Answering
    <3>3. request[c].at # "idle"
      BY DEF Changed
    <3>4. QED
      BY <2>1, <2>2, <2>3, <3>1, <3>2, <3>3, <1>1 DEF Answer, At
  <2>4. CASE d # c
    <3>1. request'[d] = request[d]
      BY <2>4, <1>1
    <3>2. Asking(d)' = Asking(d)
      BY <3>1 DEF Asking, At
    <3>3. ASSUME Asking(d), ~request[d].grown, NEW s \in Slot,
                 s \in request[d].held \/ m_sessions'[request[d].id] = s
          PROVE  Fits(d, session[s].Parameters)
      <4>1. CASE s \in request[d].held \/ m_sessions[request[d].id] = s
        BY <4>1, <3>3, <2>1 DEF Answer
      <4>2. CASE /\ m_sessions'[request[d].id] = s
                 /\ m_sessions[request[d].id] # s
        <5>1. /\ request[d] \in Request /\ request[d].id \in SessionId
              /\ At(d, "get") \/ request[d].status = "Overflow" \/ request[d].attempt = 1
              /\ Sound(request[d]) /\ request[d].code = "GET_APP_CONFIG_PARAMS"
          BY <3>3, <1>2 DEF Asking, Control, Sound, TypeOK, OfTheDevice
        <5>2. session[s].Parameters = 0
          BY <4>2, <5>1, SimulatorAssumption
        <5>3. At(d, "get") => Of(d) \in Slot
          BY <5>1, <1>2, HoldsOne DEF At, Works
        <5>4. At(d, "get") => session[Of(d)].Parameters >= 0
          BY <5>3, <1>2 DEF TypeOK
        <5>5. request[d].size >= 0 /\ request[d].needed >= 0
          BY <5>1 DEF Request
        <5>6. QED
          BY <5>1, <5>2, <5>4, <5>5 DEF Fits
      <4>3. QED
        BY <3>3, <4>1, <4>2
    <3>4. ASSUME Asking(d), NEW n, Fits(d, n) PROVE Fits(d, n)'
      <4>1. CASE At(d, "get")
        <5>1. Works(request[d])
          BY <4>1, <3>4 DEF Works, Asking, At
        <5>2. Of(d)' = Of(d) /\ Of(d) \in Slot
          BY <5>1, <3>1, <1>2, HoldsOne DEF Of
        <5>3. QED
          BY <5>2, <3>1, <3>4 DEF Fits
      <4>2. CASE request[d].status = "Overflow" \/ request[d].attempt = 1
        BY <4>2, <3>1, <3>4 DEF Fits
      <4>3. QED
        BY <4>1, <4>2, <3>4 DEF Asking
    <3>5. QED
      BY <2>1, <2>2, <3>1, <3>2, <3>3, <3>4 DEF Answer, At
  <2>5. QED
    BY <2>3, <2>4
<1>6. QED
  BY <1>1, <1>3, <1>4, <1>5 DEF IInv, AnswerInv

\* Nothing that the balance counts comes or goes.
LEMMA BalanceSame ==
  ASSUME IInv, NEW c, NEW r, Changed(c, r),
         \A i \in SessionId : m_sessions'[i] = None <=> m_sessions[i] = None,
         \A i \in SessionId : /\ c \in Created(i)' <=> c \in Created(i)
                              /\ c \in Removed(i)' <=> c \in Removed(i)
  PROVE  Balanced'
<1>1. \A d \in Client \ {c} : request'[d] = request[d]
  BY ChangedIs
<1>2. \A i \in SessionId : Created(i)' = Created(i) /\ Removed(i)' = Removed(i)
  <2> SUFFICES ASSUME NEW i \in SessionId, NEW d \in Client
      PROVE /\ d \in Created(i)' <=> d \in Created(i)
            /\ d \in Removed(i)' <=> d \in Removed(i)
    BY DEF Created, Removed
  <2>1. CASE d = c
    BY <2>1
  <2>2. CASE d # c
    BY <2>2, <1>1 DEF Created, Removed, At
  <2>3. QED
    BY <2>1, <2>2
<1>3. QED
  BY <1>2 DEF IInv, Balanced, Changed, historyVars

\* What a step leaves to show of one id, where no two changes have overlapped.
NotifyOf(c) ==
    LET i == request[c].id IN
    /\ request[c].at \in {"update", "raise", "push", "destroy"} =>
          m_sessions[i] # None /\ request[c].held = {m_sessions[i]}
    /\ request[c].at \in {"raise", "push"} => request[c].state = CurrentState(i)
    /\ request[c].code = "SESSION_DEINIT" /\ request[c].at \in {"raise", "push", "destroy"} =>
          CurrentState(i) = "Deinitialized"
    /\ \A f \in m_deviceFiles : \/ last[f][i] = CurrentState(i)
                                \/ request[c].at = "raise"
                                \/ request[c].at = "push" /\ f \in request[c].targets

LEMMA NotifyBefore ==
  ASSUME IInv, NEW c \in Client, request[c].code \in ChangesState,
         ~overlapped[request[c].id]
  PROVE  NotifyOf(c)
<1> DEFINE i == request[c].id
<1>1. i \in SessionId
  BY DEF IInv, Control, Sound, ChangesState, OfTheDevice
<1>2. /\ \A d \in Client : Changes(d, i) => d = c
      /\ Changes(c, i)
  BY <1>1 DEF IInv, NotifyInv, Changes
<1>3. \A f \in m_deviceFiles : Told(f, i)
  BY <1>1 DEF IInv, NotifyInv
<1>4. QED
  BY <1>1, <1>2, <1>3 DEF IInv, NotifyInv, NotifyOf, Told, At

LEMMA NotifyChanged ==
  ASSUME IInv, NEW c, NEW r, Changed(c, r),
         \A i \in SessionId \ {request[c].id} : /\ m_sessions'[i] = m_sessions[i]
                                                /\ CurrentState(i)' = CurrentState(i)
                                                /\ \A f \in Listener : last'[f][i] = last[f][i],
         ~overlapped[request[c].id] => NotifyOf(c)'
  PROVE  NotifyInv'
<1> SUFFICES ASSUME NEW i \in SessionId, ~overlapped'[i]
    PROVE /\ \A d, e \in Client : Changes(d, i)' /\ Changes(e, i)' => d = e
          /\ \A d \in Client : Changes(d, i)' =>
              /\ request'[d].at \in {"update", "raise", "push", "destroy"} =>
                    m_sessions'[i] # None /\ request'[d].held = {m_sessions'[i]}
              /\ request'[d].at \in {"raise", "push"} => request'[d].state = CurrentState(i)'
              /\ request'[d].code = "SESSION_DEINIT"
                    /\ request'[d].at \in {"raise", "push", "destroy"} =>
                        CurrentState(i)' = "Deinitialized"
          /\ \A f \in m_deviceFiles' : Told(f, i)'
  BY DEF NotifyInv
<1>1. /\ request'[c] = r /\ \A d \in Client \ {c} : request'[d] = request[d]
  BY ChangedIs
<1>2. /\ c \in Client /\ request[c].code \in ChangesState /\ r.code = request[c].code
      /\ r.id = request[c].id /\ ~overlapped[i] /\ m_deviceFiles' = m_deviceFiles
  BY DEF Changed, historyVars
<1>3. \A d \in Client : Changes(d, i)' = Changes(d, i)
  BY <1>1, <1>2 DEF Changes
<1>4. \A d, e \in Client : Changes(d, i) /\ Changes(e, i) => d = e
  BY <1>2 DEF IInv, NotifyInv
<1>5. CASE i = request[c].id
  <2>1. NotifyOf(c)' /\ Changes(c, i)
    BY <1>2, <1>5 DEF Changes
  <2>2. \A d \in Client : Changes(d, i) => d = c
    BY <1>2, <1>4, <2>1
  <2>3. \A f \in m_deviceFiles' : Told(f, i)'
    <3>1. request'[c].id = i
      BY <1>1, <1>2, <1>5
    <3>2. QED
      BY <3>1, <2>1, <1>2, <1>3 DEF NotifyOf, Told, At
  <2>4. request'[c].id = i
    BY <1>1, <1>2, <1>5
  <2>5. QED
    BY <1>3, <1>4, <2>1, <2>2, <2>3, <2>4 DEF NotifyOf
<1>6. CASE i # request[c].id
  <2>1. ~Changes(c, i)
    BY <1>6 DEF Changes
  <2>2. /\ m_sessions'[i] = m_sessions[i] /\ CurrentState(i)' = CurrentState(i)
        /\ \A f \in Listener : last'[f][i] = last[f][i]
    BY <1>6
  <2>3. \A d \in Client : Changes(d, i) => request'[d] = request[d]
    BY <2>1, <1>1
  <2>4. \A f \in m_deviceFiles' : Told(f, i)'
    <3> SUFFICES ASSUME NEW f \in m_deviceFiles PROVE Told(f, i)'
      BY <1>2
    <3>1. Told(f, i) /\ f \in Listener
      BY <1>2 DEF IInv, NotifyInv, TypeOK
    <3>2. QED
      BY <3>1, <2>2, <2>3, <1>3 DEF Told, At
  <2>5. QED
    BY <1>2, <1>3, <1>4, <2>2, <2>3, <2>4 DEF IInv, NotifyInv
<1>7. QED
  BY <1>5, <1>6

\* A step that leaves the table as it is.
LEMMA TableStays ==
  ASSUME IInv, NEW c, NEW r, Changed(c, r), Refers(c, r), UNCHANGED m_sessions,
         session' \in [Slot -> [State : SessionState, Enabled : BOOLEAN,
                                Thread : Generator \cup {None}, Parameters : Nat]],
         \A s \in Slot : /\ session'[s].Thread = session[s].Thread
                         /\ session'[s].Parameters = session[s].Parameters
                         /\ session'[s] = session[s] \/ s \in request[c].held,
         last' \in [Listener -> [SessionId -> SessionState \cup {None}]],
         \A f \in Listener, i \in SessionId \ {request[c].id} : last'[f][i] = last[f][i],
         \A i \in SessionId : /\ c \in Created(i)' <=> c \in Created(i)
                              /\ c \in Removed(i)' <=> c \in Removed(i),
         ~overlapped[request[c].id] => NotifyOf(c)'
  PROVE  IInv'
<1>1. /\ TypeOK /\ Control /\ Owned /\ SlotsLeft /\ Balanced
      /\ request[c].id \in SessionId
      /\ request'[c] = r /\ \A d \in Client \ {c} : request'[d] = request[d]
  BY ChangedIs DEF IInv
<1>2. Owned' /\ FreeSlots' = FreeSlots
  <2>1. \A s \in Slot : session'[s] = session[s] \/ ~FreeSlot(s)
    BY DEF FreeSlot, Holders, Changed
  <2>2. QED
    BY <1>1, <2>1, ReferenceTaken DEF Changed
<1>3. SlotsLeft'
  <2>1. Initializing' \subseteq Initializing
    BY <1>1 DEF Initializing, At, Changed
  <2>2. QED
    BY <1>1, <1>2, <2>1, SlotsLeftKept
<1>4. Balanced'
  BY BalanceSame
<1>5. \A i \in SessionId \ {request[c].id} : CurrentState(i)' = CurrentState(i)
  <2> SUFFICES ASSUME NEW i \in SessionId, i # request[c].id
      PROVE CurrentState(i)' = CurrentState(i)
    OBVIOUS
  <2>1. CASE m_sessions[i] = None
    BY <2>1 DEF CurrentState
  <2>2. CASE m_sessions[i] # None
    <3>1. m_sessions[i] \in Slot
      BY <2>2, <1>1 DEF TypeOK
    <3>2. m_sessions[i] \notin request[c].held
      BY <1>1 DEF Owned, Changed
    <3>3. QED
      BY <3>1, <3>2 DEF CurrentState
  <2>3. QED
    BY <2>1, <2>2
<1>6. NotifyInv'
  BY <1>5, NotifyChanged
<1>7. \A i \in SessionId : m_sessions'[i] = m_sessions[i]
  OBVIOUS
<1>8. m_sessions' \in [SessionId -> Slot \cup {None}]
  BY <1>1 DEF TypeOK
<1>9. QED
  BY <1>2, <1>3, <1>4, <1>6, <1>7, <1>8, ChangerKeeps

\* Of such a step of the request alone, the position and the references are left.
LEMMA RequestStays ==
  ASSUME IInv, NEW c, NEW r, Changed(c, r), Refers(c, r),
         UNCHANGED <<m_sessions, session, last>>,
         \A i \in SessionId : /\ c \in Created(i)' <=> c \in Created(i)
                              /\ c \in Removed(i)' <=> c \in Removed(i),
         ~overlapped[request[c].id] => NotifyOf(c)'
  PROVE  IInv'
<1>1. /\ session' \in [Slot -> [State : SessionState, Enabled : BOOLEAN,
                                Thread : Generator \cup {None}, Parameters : Nat]]
      /\ last' \in [Listener -> [SessionId -> SessionState \cup {None}]]
  BY DEF IInv, TypeOK
<1>2. \A s \in Slot : /\ session'[s].Thread = session[s].Thread
                      /\ session'[s].Parameters = session[s].Parameters
                      /\ session'[s] = session[s] \/ s \in request[c].held
  OBVIOUS
<1>3. \A f \in Listener, i \in SessionId \ {request[c].id} : last'[f][i] = last[f][i]
  OBVIOUS
<1>4. QED
  BY <1>1, <1>2, <1>3, TableStays

LEMMA ChangerFinds ==
  ASSUME IInv, NEW c \in Client, request[c].code \in {"SESSION_DEINIT", "STOP_RANGING_SESSION"},
         Finds(c, "update"), UNCHANGED <<promise, fileVars, historyVars>>
  PROVE  IInv'
<1> DEFINE i == request[c].id
<1>1. /\ request[c].id \in SessionId /\ request[c].at = "begin" /\ request[c].held = {}
      /\ Sound(request[c]) /\ request[c] \in Request /\ TypeOK /\ Control
      /\ request[c].status = "Ok" /\ request[c].code \in ChangesState
  BY DEF IInv, Control, TypeOK, Sound, Finds, At, OfTheDevice, ChangesState
<1>2. PICK r \in Request :
        /\ request' = [request EXCEPT ![c] = r]
        /\ \/ /\ r = [request[c] EXCEPT !.at = "release", !.status = "NotExist"]
              /\ m_sessions[i] = None
           \/ /\ r = [request[c] EXCEPT !.at = "update", !.held = {m_sessions[i]}]
              /\ m_sessions[i] # None
  BY <1>1, FindsRequest DEF Position
<1>3. /\ r.code = request[c].code /\ r.id = i /\ r.arg = request[c].arg
      /\ r.attempt = request[c].attempt
      /\ r.thread = request[c].thread /\ r.joins = request[c].joins
      /\ \/ /\ r.at = "release" /\ r.status = "NotExist" /\ r.held = {}
            /\ m_sessions[i] = None
         \/ /\ r.at = "update" /\ r.status = "Ok" /\ r.held = {m_sessions[i]}
            /\ m_sessions[i] \in Slot
  BY <1>1, <1>2 DEF Request, TypeOK
<1>4. Sound(r)
  <2>1. r.at \in Places(r.code)
    BY <1>3 DEF Places
  <2>2. QED
    BY <1>1, <1>3, <2>1 DEF Sound, Works
<1>5. UNCHANGED <<m_sessions, session, generator, terminated, m_deviceFiles, last>>
  BY DEF Finds, sessionVars, fileVars
<1>6. Changed(c, r)
  BY <1>1, <1>2, <1>3, <1>4, <1>5 DEF Changed
<1>7. Refers(c, r)
  BY <1>1, <1>3, SimulatorAssumption DEF Refers
<1>8. request'[c] = r
  BY <1>6, ChangedIs
<1>9. \A j \in SessionId : /\ c \in Created(j)' <=> c \in Created(j)
                           /\ c \in Removed(j)' <=> c \in Removed(j)
  BY <1>1, <1>3, <1>8 DEF Created, Removed, At
<1>10. ASSUME ~overlapped[i] PROVE NotifyOf(c)'
  <2>1. NotifyOf(c)
    BY <1>1, <1>10, NotifyBefore
  <2>2. \A j \in SessionId : CurrentState(j)' = CurrentState(j)
    BY <1>5 DEF CurrentState
  <2>3. \A f \in m_deviceFiles : last[f][i] = CurrentState(i)
    BY <2>1, <1>1 DEF NotifyOf
  <2>4. m_sessions[i] \in Slot => m_sessions[i] # None
    BY SimulatorAssumption
  <2>5. QED
    BY <2>2, <2>3, <2>4, <1>1, <1>3, <1>5, <1>8 DEF NotifyOf
<1>11. QED
  BY <1>5, <1>6, <1>7, <1>9, <1>10, RequestStays

\* The state is written: there is something to tell.
LEMMA StateWritten ==
  ASSUME IInv, NEW c \in Client, request[c].code \in ChangesState, At(c, "update"),
         NEW state \in SessionState,
         request[c].code = "SESSION_DEINIT" => state = "Deinitialized",
         session' = [session EXCEPT ![Of(c)].State = state],
         request' = [request EXCEPT ![c].at = "raise", ![c].state = state],
         UNCHANGED <<m_sessions, generator, terminated, fileVars, historyVars, promise>>
  PROVE  IInv'
<1> DEFINE r == [request[c] EXCEPT !.at = "raise", !.state = state]
           h == Of(c)
           i == request[c].id
<1>1. /\ Sound(request[c]) /\ request[c] \in Request /\ TypeOK /\ Control
      /\ request[c].at = "update" /\ request[c].status = "Ok" /\ Works(request[c])
      /\ i \in SessionId
  BY DEF IInv, Control, TypeOK, Sound, At, Works, ChangesState, OfTheDevice
<1>2. h \in Slot /\ request[c].held = {h}
  BY <1>1, HoldsOne
<1>3. r \in Request
  BY <1>1 DEF Request, Position
<1>4. /\ r.code = request[c].code /\ r.id = i /\ r.arg = request[c].arg
      /\ r.held = request[c].held /\ r.attempt = request[c].attempt
      /\ r.thread = request[c].thread /\ r.joins = request[c].joins
      /\ r.at = "raise" /\ r.state = state /\ r.status = "Ok"
  BY <1>1 DEF Request
<1>5. Changed(c, r)
  <2>1. request' = [request EXCEPT ![c] = r]
    OBVIOUS
  <2> HIDE DEF r
  <2>2. "raise" \in Places(request[c].code)
    BY <1>1 DEF Sound, Places, ChangesState
  <2>3. Sound(r)
    BY <1>1, <1>4, <2>2 DEF Sound, Works
  <2>4. QED
    BY <2>1, <2>3, <1>1, <1>3, <1>4 DEF Changed, fileVars
<1> HIDE DEF r
<1>6. request'[c] = r
  BY <1>5, ChangedIs
<1>7. /\ session' \in [Slot -> [State : SessionState, Enabled : BOOLEAN,
                                Thread : Generator \cup {None}, Parameters : Nat]]
      /\ \A s \in Slot : /\ session'[s].Thread = session[s].Thread
                         /\ session'[s].Parameters = session[s].Parameters
                         /\ session'[s] = session[s] \/ s \in request[c].held
      /\ session'[h].State = state
  <2>1. session \in [Slot -> [State : SessionState, Enabled : BOOLEAN,
                              Thread : Generator \cup {None}, Parameters : Nat]]
    BY <1>1 DEF TypeOK
  <2>2. QED
    BY <2>1, <1>2
<1>8. \A j \in SessionId : /\ c \in Created(j)' <=> c \in Created(j)
                           /\ c \in Removed(j)' <=> c \in Removed(j)
  BY <1>1, <1>4, <1>6 DEF Created, Removed, At
<1>9. ASSUME ~overlapped[i] PROVE NotifyOf(c)'
  <2>1. m_sessions[i] = h /\ h # None
    BY <1>9, <1>1, <1>2, NotifyBefore, SimulatorAssumption DEF NotifyOf
  <2>2. \A j \in SessionId : j = i => CurrentState(j)' = state
    BY <2>1, <1>7 DEF CurrentState
  <2>3. /\ request'[c].at = "raise" /\ request'[c].id = i /\ request'[c].state = state
        /\ request'[c].held = {h} /\ request'[c].code = request[c].code
    BY <1>2, <1>4, <1>6
  <2>4. QED
    BY <2>1, <2>2, <2>3, <1>1 DEF NotifyOf
<1>10. last' \in [Listener -> [SessionId -> SessionState \cup {None}]]
  BY <1>1 DEF TypeOK, fileVars
<1>11. \A f \in Listener, j \in SessionId \ {request[c].id} : last'[f][j] = last[f][j]
  BY DEF fileVars
<1>12. Refers(c, r)
  BY <1>4 DEF Refers
<1>13. QED
  BY <1>5, <1>7, <1>8, <1>9, <1>10, <1>11, <1>12, TableStays

\* The files are told.
LEMMA Pushed ==
  ASSUME IInv, NEW c \in Client, request[c].code \in ChangesState,
         NEW next \in {"destroy", "release"},
         next = "destroy" <=> request[c].code = "SESSION_DEINIT",
         PushUwbNotification(c, next), UNCHANGED session,
         UNCHANGED <<m_sessions, generator, terminated, historyVars, promise>>
  PROVE  IInv'
<1> DEFINE i == request[c].id
<1>1. /\ Sound(request[c]) /\ request[c] \in Request /\ TypeOK /\ Control
      /\ request[c].at \in {"raise", "push"} /\ request[c].status = "Ok"
      /\ Works(request[c]) /\ i \in SessionId
  BY DEF IInv, Control, TypeOK, Sound, At, Works, ChangesState, OfTheDevice,
         PushUwbNotification
<1>2. PICK at \in {"push", next}, targets \in SUBSET Listener :
        /\ request' = [request EXCEPT ![c] =
                [request[c] EXCEPT !.at = at, !.targets = targets]]
        /\ \/ /\ request[c].at = "raise" /\ at = "push" /\ targets = m_deviceFiles
              /\ UNCHANGED fileVars
           \/ /\ request[c].at = "push" /\ at = "push"
              /\ \E f \in request[c].targets :
                    /\ targets = request[c].targets \ {f}
                    /\ last' = [last EXCEPT ![f][i] =
                            IF overlapped[i] THEN None ELSE request[c].state]
              /\ UNCHANGED m_deviceFiles
           \/ /\ request[c].at = "push" /\ at = next
              /\ targets = request[c].targets /\ targets = {}
              /\ UNCHANGED fileVars
  <2>1. request[c].targets \subseteq Listener /\ m_deviceFiles \subseteq Listener
    BY <1>1 DEF Request, TypeOK
  <2>2. CASE /\ At(c, "raise")
             /\ request' = [request EXCEPT ![c].at = "push", ![c].targets = m_deviceFiles]
             /\ UNCHANGED fileVars
    BY <2>1, <2>2 DEF At
  <2>3. CASE /\ At(c, "push")
             /\ \E f \in request[c].targets :
                  /\ last' = [last EXCEPT ![f][i] =
                          IF overlapped[i] THEN None ELSE request[c].state]
                  /\ request' = [request EXCEPT ![c].targets = @ \ {f}]
             /\ UNCHANGED m_deviceFiles
    <3>1. PICK f \in request[c].targets :
            /\ last' = [last EXCEPT ![f][i] =
                    IF overlapped[i] THEN None ELSE request[c].state]
            /\ request' = [request EXCEPT ![c].targets = @ \ {f}]
      BY <2>3
    <3>2. request[c].at = "push"
      BY <2>3 DEF At
    <3>3. [request[c] EXCEPT !.targets = @ \ {f}]
            = [request[c] EXCEPT !.at = "push", !.targets = request[c].targets \ {f}]
      BY <3>2, <1>1 DEF Request
    <3>4. request' = [request EXCEPT ![c] =
            [request[c] EXCEPT !.at = "push", !.targets = request[c].targets \ {f}]]
      BY <3>1, <3>3
    <3>5. request[c].targets \ {f} \in SUBSET Listener
      BY <2>1
    <3>6. QED
      BY <3>1, <3>2, <3>4, <3>5, <2>3
  <2>4. CASE At(c, "push") /\ request[c].targets = {} /\ Goes(c, next) /\ UNCHANGED fileVars
    <3>1. [request[c] EXCEPT !.at = next]
            = [request[c] EXCEPT !.at = next, !.targets = request[c].targets]
      BY <1>1 DEF Request
    <3>2. request' = [request EXCEPT ![c] =
            [request[c] EXCEPT !.at = next, !.targets = request[c].targets]]
      BY <2>4, <3>1 DEF Goes
    <3>3. QED
      BY <3>2, <2>1, <2>4 DEF At
  <2>5. QED
    BY <2>2, <2>3, <2>4 DEF PushUwbNotification
<1> DEFINE r == [request[c] EXCEPT !.at = at, !.targets = targets]
<1>3. r \in Request
  BY <1>1, <1>2 DEF Request, Position
<1>4. /\ r.code = request[c].code /\ r.id = i /\ r.arg = request[c].arg
      /\ r.held = request[c].held /\ r.attempt = request[c].attempt
      /\ r.thread = request[c].thread /\ r.joins = request[c].joins
      /\ r.at = at /\ r.targets = targets /\ r.status = "Ok" /\ r.state = request[c].state
  BY <1>1 DEF Request
<1>5. UNCHANGED m_deviceFiles
  BY <1>2 DEF fileVars
<1>6. Changed(c, r)
  <2>1. request' = [request EXCEPT ![c] = r]
    BY <1>2
  <2> HIDE DEF r
  <2>2. at \in Places(request[c].code)
    BY <1>1, <1>2 DEF Sound, Places, ChangesState
  <2>3. \E s \in Slot : request[c].held = {s}
    BY <1>1 DEF Sound
  <2>4. Sound(r)
    BY <1>1, <1>2, <1>4, <2>2, <2>3 DEF Sound, Works
  <2>5. QED
    BY <2>1, <2>4, <1>1, <1>2, <1>3, <1>4, <1>5 DEF Changed
<1> HIDE DEF r
<1>7. request'[c] = r
  BY <1>6, ChangedIs
<1>8. \A j \in SessionId : /\ c \in Created(j)' <=> c \in Created(j)
                           /\ c \in Removed(j)' <=> c \in Removed(j)
  BY <1>1, <1>2, <1>4, <1>7 DEF Created, Removed, At
<1>9. /\ last' \in [Listener -> [SessionId -> SessionState \cup {None}]]
      /\ \A f \in Listener, j \in SessionId \ {request[c].id} : last'[f][j] = last[f][j]
  <2>1. last \in [Listener -> [SessionId -> SessionState \cup {None}]]
    BY <1>1 DEF TypeOK
  <2>2. CASE UNCHANGED fileVars
    BY <2>1, <2>2 DEF fileVars
  <2>3. CASE \E f \in request[c].targets : last' = [last EXCEPT ![f][i] =
                  IF overlapped[i] THEN None ELSE request[c].state]
    <3>1. PICK f \in request[c].targets, v \in SessionState \cup {None} :
            last' = [last EXCEPT ![f][i] = v]
      BY <2>3, <1>1 DEF Request
    <3>2. f \in Listener
      BY <1>1 DEF Request
    <3>3. QED
      BY <3>1, <3>2, <2>1, <1>1
  <2>4. QED
    BY <2>2, <2>3, <1>2
<1>10. ASSUME ~overlapped[i] PROVE NotifyOf(c)'
  <2>1. NotifyOf(c)
    BY <1>1, <1>10, NotifyBefore
  <2>2. \A j \in SessionId : CurrentState(j)' = CurrentState(j)
    BY DEF CurrentState
  <2>3. /\ m_sessions[i] # None /\ request[c].held = {m_sessions[i]}
        /\ request[c].state = CurrentState(i)
        /\ request[c].code = "SESSION_DEINIT" => CurrentState(i) = "Deinitialized"
        /\ \A f \in m_deviceFiles : \/ last[f][i] = CurrentState(i)
                                    \/ request[c].at = "raise"
                                    \/ request[c].at = "push" /\ f \in request[c].targets
    BY <2>1, <1>1 DEF NotifyOf
  <2>4. ASSUME NEW f \in m_deviceFiles
        PROVE  last'[f][i] = CurrentState(i) \/ (at = "push" /\ f \in targets)
    <3>1. CASE request[c].at = "raise"
      BY <3>1, <1>2
    <3>2. CASE request[c].at = "push" /\ at = next /\ targets = request[c].targets
                /\ targets = {} /\ UNCHANGED fileVars
      BY <3>2, <2>3 DEF fileVars
    <3>3. ASSUME request[c].at = "push", at = "push", NEW g \in request[c].targets,
                 targets = request[c].targets \ {g},
                 last' = [last EXCEPT ![g][i] =
                            IF overlapped[i] THEN None ELSE request[c].state]
          PROVE  last'[f][i] = CurrentState(i) \/ (at = "push" /\ f \in targets)
      <4>1. /\ f \in Listener /\ g \in Listener
            /\ last \in [Listener -> [SessionId -> SessionState \cup {None}]]
        BY <1>1 DEF Request, TypeOK
      <4>2. last' = [last EXCEPT ![g][i] = request[c].state]
        BY <3>3, <1>10
      <4>3. CASE f = g
        BY <4>1, <4>2, <4>3, <2>3, <1>1
      <4>4. CASE f # g
        BY <4>1, <4>2, <4>4, <2>3, <3>3, <1>1
      <4>5. QED
        BY <4>3, <4>4
    <3>4. QED
      BY <3>1, <3>2, <3>3, <1>1, <1>2
  <2>5. request'[c].at = at /\ request'[c].targets = targets /\ request'[c].id = i
        /\ request'[c].code = request[c].code /\ request'[c].held = request[c].held
        /\ request'[c].state = request[c].state
    BY <1>4, <1>7
  <2>6. QED
    BY <2>2, <2>3, <2>4, <2>5, <1>1, <1>5 DEF NotifyOf
<1>11. Refers(c, r)
  BY <1>4 DEF Refers
<1>12. /\ session' \in [Slot -> [State : SessionState, Enabled : BOOLEAN,
                                 Thread : Generator \cup {None}, Parameters : Nat]]
       /\ \A s \in Slot : /\ session'[s].Thread = session[s].Thread
                          /\ session'[s].Parameters = session[s].Parameters
                          /\ session'[s] = session[s] \/ s \in request[c].held
  BY <1>1 DEF TypeOK
<1>13. QED
  BY <1>6, <1>8, <1>9, <1>10, <1>11, <1>12, TableStays

LEMMA CreateRefused ==
  ASSUME IInv, NEW c \in Client, request[c].code = "SESSION_INIT", At(c, "begin"),
         Ends(c, "Duplicate"), UNCHANGED <<sessionVars, fileVars, historyVars, promise>>
  PROVE  IInv'
<1> DEFINE r == [request[c] EXCEPT !.at = "release", !.status = "Duplicate"]
           i == request[c].id
<1>1. /\ Sound(request[c]) /\ request[c] \in Request
      /\ request[c].at = "begin" /\ request[c].held = {} /\ i \in SessionId
      /\ request[c].code \in ChangesState
  BY DEF IInv, Control, TypeOK, Sound, At, ChangesState, OfTheDevice
<1>2. r \in Request
  BY <1>1 DEF Request, Position, Status
<1>3. /\ r.code = request[c].code /\ r.id = i /\ r.arg = request[c].arg
      /\ r.held = {} /\ r.attempt = request[c].attempt
      /\ r.thread = request[c].thread /\ r.joins = request[c].joins
      /\ r.at = "release" /\ r.status = "Duplicate"
  BY <1>1 DEF Request
<1>4. UNCHANGED <<m_sessions, session, generator, terminated, m_deviceFiles, last>>
  BY DEF sessionVars, fileVars
<1>5. Changed(c, r)
  <2>1. request' = [request EXCEPT ![c] = r]
    BY DEF Ends
  <2> HIDE DEF r
  <2>2. Sound(r)
    BY <1>1, <1>3 DEF Sound, Works, Places
  <2>3. QED
    BY <2>1, <2>2, <1>1, <1>2, <1>3, <1>4 DEF Changed
<1> HIDE DEF r
<1>6. request'[c] = r
  BY <1>5, ChangedIs
<1>7. \A j \in SessionId : /\ c \in Created(j)' <=> c \in Created(j)
                           /\ c \in Removed(j)' <=> c \in Removed(j)
  BY <1>1, <1>3, <1>6 DEF Created, Removed, At
<1>8. ASSUME ~overlapped[i] PROVE NotifyOf(c)'
  <2>1. NotifyOf(c)
    BY <1>1, <1>8, NotifyBefore
  <2>2. \A j \in SessionId : CurrentState(j)' = CurrentState(j)
    BY <1>4 DEF CurrentState
  <2>3. \A f \in m_deviceFiles : last[f][i] = CurrentState(i)
    BY <2>1, <1>1 DEF NotifyOf
  <2>4. QED
    BY <2>2, <2>3, <1>1, <1>3, <1>4, <1>6 DEF NotifyOf
<1>9. Refers(c, r)
  BY <1>1, <1>3 DEF Refers
<1>10. QED
  BY <1>4, <1>5, <1>7, <1>8, <1>9, RequestStays

\* A slot is left, and is as new.
LEMMA SlotFound ==
  ASSUME TypeOK, Owned, SlotsLeft, NEW c \in Initializing
  PROVE  LET s == CHOOSE s \in Slot : FreeSlot(s) IN
         s \in FreeSlots /\ session[s] = NewSession
<1>1. Initializing # {} /\ IsFiniteSet(Initializing) /\ IsFiniteSet(FreeSlots)
  BY Finite
<1>2. Cardinality(Initializing) # 0 /\ Cardinality(Initializing) \in Nat
  BY <1>1, FS_EmptySet, FS_CardinalityType
<1>3. FreeSlots # {}
  BY <1>1, <1>2, FS_EmptySet DEF SlotsLeft
<1>4. \E s \in Slot : FreeSlot(s)
  BY <1>3 DEF FreeSlots
<1> DEFINE s == CHOOSE s \in Slot : FreeSlot(s)
<1>5. s \in Slot /\ FreeSlot(s)
  BY <1>4
<1> HIDE DEF s
<1>6. s \in FreeSlots /\ session[s] = NewSession
  BY <1>5 DEF FreeSlots, Owned
<1>7. QED
  BY <1>6 DEF s

LEMMA CreateEmplaced ==
  ASSUME IInv, NEW c \in Client, request[c].code = "SESSION_INIT", At(c, "begin"),
         m_sessions[request[c].id] = None,
         NEW s, s = CHOOSE t \in Slot : FreeSlot(t),
         m_sessions' = [m_sessions EXCEPT ![request[c].id] = s],
         request' = [request EXCEPT ![c].at = "update", ![c].held = {s}],
         UNCHANGED <<session, generator, terminated, fileVars, historyVars, promise>>
  PROVE  IInv'
<1> DEFINE r == [request[c] EXCEPT !.at = "update", !.held = {s}]
           i == request[c].id
<1>1. /\ Sound(request[c]) /\ request[c] \in Request /\ TypeOK /\ Control /\ Owned
      /\ SlotsLeft /\ Balanced
      /\ request[c].at = "begin" /\ request[c].held = {} /\ i \in SessionId
      /\ request[c].code \in ChangesState /\ request[c].status = "Ok"
  BY DEF IInv, Control, TypeOK, Sound, At, ChangesState, OfTheDevice
<1>2. c \in Initializing
  BY DEF Initializing
<1>3. s \in FreeSlots /\ session[s] = NewSession
  BY <1>1, <1>2, SlotFound
<1>4. s \in Slot /\ s # None /\ ~InTable(s) /\ Holders(s) = {}
  BY <1>3, SimulatorAssumption DEF FreeSlots, FreeSlot
<1>5. r \in Request
  BY <1>1, <1>4 DEF Request, Position
<1>6. /\ r.code = request[c].code /\ r.id = i /\ r.arg = request[c].arg
      /\ r.held = {s} /\ r.attempt = request[c].attempt
      /\ r.thread = request[c].thread /\ r.joins = request[c].joins
      /\ r.at = "update" /\ r.status = "Ok"
  BY <1>1 DEF Request
<1>7. UNCHANGED <<session, generator, terminated, m_deviceFiles, last, overlapped, balance>>
  BY DEF fileVars, historyVars
<1>8. Changed(c, r)
  <2>1. request' = [request EXCEPT ![c] = r]
    OBVIOUS
  <2> HIDE DEF r
  <2>2. Sound(r)
    BY <1>1, <1>4, <1>6 DEF Sound, Works, Places
  <2>3. QED
    BY <2>1, <2>2, <1>1, <1>5, <1>6, <1>7 DEF Changed
<1> HIDE DEF r
<1>9. request'[c] = r /\ \A d \in Client \ {c} : request'[d] = request[d]
  BY <1>8, ChangedIs
<1>10. /\ m_sessions' \in [SessionId -> Slot \cup {None}]
       /\ m_sessions'[i] = s
       /\ \A j \in SessionId \ {i} : m_sessions'[j] = m_sessions[j]
  BY <1>1, <1>4 DEF TypeOK
<1>11. Owned' /\ FreeSlots' = FreeSlots \ {s}
  <2>1. \A t \in Slot : FreeSlot(t)' <=> FreeSlot(t) /\ t # s
    <3> SUFFICES ASSUME NEW t \in Slot PROVE FreeSlot(t)' <=> FreeSlot(t) /\ t # s
      OBVIOUS
    <3>1. CASE t = s
      BY <3>1, <1>1, <1>10 DEF FreeSlot, InTable
    <3>2. CASE t # s
      <4>1. Holders(t)' = Holders(t)
        BY <3>2, <1>1, <1>6, <1>9 DEF Holders
      <4>2. InTable(t)' <=> InTable(t)
        <5>1. \A j \in SessionId : m_sessions'[j] = t <=> m_sessions[j] = t
          BY <3>2, <1>10, SimulatorAssumption
        <5>2. QED
          BY <5>1 DEF InTable
      <4>3. QED
        BY <3>2, <4>1, <4>2 DEF FreeSlot
    <3>3. QED
      BY <3>1, <3>2
  <2>2. FreeSlots' = FreeSlots \ {s}
    BY <2>1 DEF FreeSlots
  <2>3. \A j, k \in SessionId :
          m_sessions'[j] = m_sessions'[k] /\ m_sessions'[j] # None => j = k
    BY <1>1, <1>4, <1>10 DEF Owned, InTable
  <2>4. ASSUME NEW d \in Client, NEW t \in request'[d].held
        PROVE  /\ \A j \in SessionId : m_sessions'[j] = t => j = request'[d].id
               /\ \A e \in Client : t \in request'[e].held => request'[e].id = request'[d].id
    <3>1. CASE t = s
      <4>1. \A e \in Client : s \notin request[e].held
        BY <1>4 DEF Holders
      <4>2. d = c /\ \A e \in Client : t \in request'[e].held => e = c
        BY <3>1, <4>1, <2>4, <1>9
      <4>3. \A j \in SessionId : m_sessions'[j] = s => j = i
        BY <1>4, <1>10 DEF InTable
      <4>4. QED
        BY <3>1, <4>2, <4>3, <1>6, <1>9
    <3>2. CASE t # s
      <4>1. d # c /\ t \in request[d].held /\ request'[d] = request[d]
        BY <3>2, <2>4, <1>6, <1>9
      <4>2. /\ \A j \in SessionId : m_sessions[j] = t => j = request[d].id
            /\ \A e \in Client : t \in request[e].held => request[e].id = request[d].id
        BY <4>1, <1>1 DEF Owned
      <4>3. \A e \in Client : t \in request'[e].held => e # c
        BY <3>2, <1>6, <1>9
      <4>4. QED
        BY <3>2, <4>1, <4>2, <4>3, <1>9, <1>10
    <3>3. QED
      BY <3>1, <3>2
  <2>5. QED
    BY <2>1, <2>2, <2>3, <2>4, <1>1, <1>7 DEF Owned
<1>12. SlotsLeft'
  <2>1. Initializing' \subseteq Initializing \ {c}
    BY <1>6, <1>9 DEF Initializing, At
  <2>2. IsFiniteSet(FreeSlots') /\ IsFiniteSet(Initializing \ {c})
    BY <1>11, Finite, FS_Subset
  <2>3. Cardinality(Initializing \ {c}) <= Cardinality(FreeSlots \ {s})
    BY <1>1, <1>2, <1>3, Finite, OneLess DEF SlotsLeft
  <2>4. QED
    BY <2>1, <2>2, <2>3, <1>11, StillLeft DEF SlotsLeft
<1>13. Balanced'
  <2>0. \A j \in SessionId, d \in Client :
          d \in Created(j)' <=> d \in Created(j) \/ (d = c /\ j = i)
    <3> SUFFICES ASSUME NEW j \in SessionId, NEW d \in Client
        PROVE d \in Created(j)' <=> d \in Created(j) \/ (d = c /\ j = i)
      OBVIOUS
    <3>1. CASE d = c
      BY <3>1, <1>1, <1>6, <1>9 DEF Created, At
    <3>2. CASE d # c
      BY <3>2, <1>9 DEF Created, At
    <3>3. QED
      BY <3>1, <3>2
  <2> SUFFICES ASSUME NEW j \in SessionId
      PROVE balance'[j] + Cardinality(Created(j)') - Cardinality(Removed(j)')
              = IF m_sessions'[j] = None THEN 0 ELSE 1
    BY DEF Balanced
  <2>1. balance[j] + Cardinality(Created(j)) - Cardinality(Removed(j))
          = IF m_sessions[j] = None THEN 0 ELSE 1
    BY <1>1 DEF Balanced
  <2>2. Removed(j)' = Removed(j)
    <3>1. c \notin Removed(j) /\ c \notin Removed(j)'
      BY <1>1, <1>6, <1>9 DEF Removed, At
    <3>2. QED
      BY <3>1, <1>9 DEF Removed, At
  <2>3. CASE j = i
    <3>0. Created(j) \subseteq Client /\ Created(j)' \subseteq Client
      BY DEF Created
    <3>1. Created(j)' = Created(j) \cup {c} /\ c \notin Created(j)
      <4>1. c \notin Created(j)
        BY <1>1 DEF Created, At
      <4>2. Created(j)' = Created(j) \cup {c}
        BY <3>0, <2>0, <2>3
      <4>3. QED
        BY <4>1, <4>2
    <3>2. Cardinality(Created(j)') = Cardinality(Created(j)) + 1
      BY <3>1, Finite, FS_AddElement
    <3>3. /\ Cardinality(Created(j)) \in Nat /\ Cardinality(Removed(j)) \in Nat
          /\ balance[j] \in Int
      BY Finite, FS_CardinalityType, <1>1 DEF TypeOK
    <3>4. QED
      BY <2>1, <2>2, <2>3, <3>2, <3>3, <1>4, <1>7, <1>10
  <2>4. CASE j # i
    <3>0. Created(j) \subseteq Client /\ Created(j)' \subseteq Client
      BY DEF Created
    <3>1. Created(j)' = Created(j)
      BY <3>0, <2>0, <2>4
    <3>2. QED
      BY <2>1, <2>2, <2>4, <3>1, <1>7, <1>10
  <2>5. QED
    BY <2>3, <2>4
<1>14. \A j \in SessionId \ {i} : CurrentState(j)' = CurrentState(j)
  BY <1>7, <1>10 DEF CurrentState
<1>15. ASSUME ~overlapped[i] PROVE NotifyOf(c)'
  <2>1. NotifyOf(c)
    BY <1>1, <1>15, NotifyBefore
  <2>2. CurrentState(i) = "Deinitialized"
    BY DEF CurrentState
  <2>3. \A j \in SessionId : j = i => CurrentState(j)' = "Deinitialized"
    BY <1>3, <1>4, <1>7, <1>10 DEF CurrentState, NewSession
  <2>4. \A f \in m_deviceFiles : last[f][i] = "Deinitialized"
    BY <2>1, <2>2, <1>1 DEF NotifyOf
  <2>5. /\ request'[c].at = "update" /\ request'[c].id = i /\ request'[c].held = {s}
        /\ request'[c].code = "SESSION_INIT"
    BY <1>6, <1>9
  <2>6. m_sessions'[i] = s /\ m_deviceFiles' = m_deviceFiles /\ last' = last
    BY <1>7, <1>10
  <2>7. QED
    BY <2>3, <2>4, <2>5, <2>6, <1>1, <1>4 DEF NotifyOf
<1>16. NotifyInv'
  BY <1>7, <1>8, <1>10, <1>14, <1>15, NotifyChanged
<1>17. session[s].Parameters = 0
  BY <1>3 DEF NewSession
<1>18. /\ session' \in [Slot -> [State : SessionState, Enabled : BOOLEAN,
                                 Thread : Generator \cup {None}, Parameters : Nat]]
       /\ last' \in [Listener -> [SessionId -> SessionState \cup {None}]]
  BY <1>1, <1>7 DEF TypeOK
<1>19. QED
  BY <1>7, <1>8, <1>10, <1>11, <1>12, <1>13, <1>16, <1>17, <1>18, ChangerKeeps

\* Another request has removed the session.
LEMMA DestroyMissed ==
  ASSUME IInv, NEW c \in Client, request[c].code = "SESSION_DEINIT", At(c, "destroy"),
         SessionDestroy(c), m_sessions[request[c].id] = None,
         UNCHANGED <<fileVars, historyVars, promise>>
  PROVE  IInv'
<1> DEFINE r == [request[c] EXCEPT !.at = "release", !.status = "NotExist"]
           i == request[c].id
<1>1. /\ Sound(request[c]) /\ request[c] \in Request /\ TypeOK
      /\ request[c].at = "destroy" /\ request[c].status = "Ok" /\ i \in SessionId
      /\ request[c].code \in ChangesState
  BY DEF IInv, Control, TypeOK, Sound, At, ChangesState, OfTheDevice
<1>2. r \in Request
  <2>1. request[c] \in Request
    BY <1>1
  <2>2. QED
    BY ONLY <2>1 DEF Request, Position, Status
<1>3. /\ r.code = request[c].code /\ r.id = i /\ r.arg = request[c].arg
      /\ r.held = request[c].held /\ r.attempt = request[c].attempt
      /\ r.thread = request[c].thread /\ r.joins = request[c].joins
      /\ r.at = "release" /\ r.status = "NotExist"
  BY <1>1 DEF Request
<1>4. UNCHANGED <<m_sessions, session, generator, terminated, m_deviceFiles, last>>
  <2>1. m_sessions' = [m_sessions EXCEPT ![i] = None]
    BY DEF SessionDestroy
  <2>2. m_sessions' = m_sessions
    BY <2>1, <1>1 DEF TypeOK
  <2>3. QED
    BY <2>2 DEF SessionDestroy, fileVars
<1>5. Changed(c, r)
  <2>1. request' = [request EXCEPT ![c] = r]
    <3>1. [request[c] EXCEPT !.at = "release", !.status = "NotExist", !.held = request[c].held] = r
      BY <1>1 DEF Request
    <3>2. request' = [request EXCEPT ![c] = [request[c] EXCEPT !.at = "release",
                            !.status = "NotExist", !.held = request[c].held]]
      BY DEF SessionDestroy, SessionGet
    <3>3. QED
      BY <3>1, <3>2
  <2> HIDE DEF r
  <2>2. Sound(r)
    BY <1>1, <1>3 DEF Sound, Works, Places
  <2>3. QED
    BY <2>1, <2>2, <1>1, <1>2, <1>3, <1>4 DEF Changed
<1> HIDE DEF r
<1>6. request'[c] = r
  BY <1>5, ChangedIs
<1>7. \A j \in SessionId : /\ c \in Created(j)' <=> c \in Created(j)
                           /\ c \in Removed(j)' <=> c \in Removed(j)
  BY <1>1, <1>3, <1>6 DEF Created, Removed, At
<1>8. overlapped[i]
  BY <1>1, NotifyBefore DEF NotifyOf
<1>9. Refers(c, r)
  BY <1>3 DEF Refers
<1>10. QED
  BY <1>4, <1>5, <1>7, <1>8, <1>9, RequestStays

\* The session is taken out of the table, and is held by who removes it.
LEMMA DestroyExtracted ==
  ASSUME IInv, NEW c \in Client, request[c].code = "SESSION_DEINIT", At(c, "destroy"),
         SessionDestroy(c), m_sessions[request[c].id] # None,
         UNCHANGED <<fileVars, historyVars, promise>>
  PROVE  IInv'
<1> DEFINE i == request[c].id
<1>1. /\ Sound(request[c]) /\ request[c] \in Request /\ TypeOK /\ Owned /\ SlotsLeft
      /\ Balanced /\ request[c].at = "destroy" /\ request[c].status = "Ok"
      /\ i \in SessionId /\ request[c].code \in ChangesState
  BY DEF IInv, Control, TypeOK, Sound, At, ChangesState, OfTheDevice
<1>2. PICK t \in Slot : t = m_sessions[i]
  BY <1>1 DEF TypeOK
<1> DEFINE r == [request[c] EXCEPT !.at = "release", !.status = "Ok",
                                   !.held = request[c].held \cup {t}]
<1>3. r \in Request
  <2>1. request[c] \in Request /\ request[c].held \cup {t} \in SUBSET Slot
    BY <1>1 DEF Request
  <2>2. QED
    BY ONLY <2>1 DEF Request, Position, Status
<1>4. /\ r.code = request[c].code /\ r.id = i /\ r.arg = request[c].arg
      /\ r.held = request[c].held \cup {t} /\ r.attempt = request[c].attempt
      /\ r.thread = request[c].thread /\ r.joins = request[c].joins
      /\ r.at = "release" /\ r.status = "Ok"
  BY <1>1 DEF Request
<1>5. UNCHANGED <<session, generator, terminated, m_deviceFiles, last, overlapped, balance>>
  BY DEF SessionDestroy, fileVars, historyVars
<1>6. Changed(c, r)
  <2>1. request' = [request EXCEPT ![c] = r]
    BY <1>2 DEF SessionDestroy, SessionGet
  <2> HIDE DEF r
  <2>2. Sound(r)
    BY <1>1, <1>4 DEF Sound, Works, Places
  <2>3. QED
    BY <2>1, <2>2, <1>1, <1>3, <1>4, <1>5 DEF Changed
<1> HIDE DEF r
<1>7. request'[c] = r /\ \A d \in Client \ {c} : request'[d] = request[d]
  BY <1>6, ChangedIs
<1>8. /\ m_sessions' \in [SessionId -> Slot \cup {None}]
      /\ m_sessions'[i] = None
      /\ \A j \in SessionId \ {i} : m_sessions'[j] = m_sessions[j]
  BY <1>1 DEF TypeOK, SessionDestroy
<1>9. \A d \in Client : /\ request'[d].id = request[d].id
                        /\ request'[d].held \in {request[d].held, request[d].held \cup {t}}
                        /\ d # c => request'[d].held = request[d].held
  BY <1>4, <1>7
<1>10. Owned' /\ FreeSlots' = FreeSlots
  <2>1. \A s \in Slot : FreeSlot(s)' = FreeSlot(s)
    <3> SUFFICES ASSUME NEW s \in Slot PROVE FreeSlot(s)' = FreeSlot(s)
      OBVIOUS
    <3>1. CASE s = t
      <4>1. InTable(t) /\ c \in Holders(t)'
        BY <1>1, <1>2, <1>4, <1>7 DEF InTable, Holders
      <4>2. QED
        BY <3>1, <4>1 DEF FreeSlot
    <3>2. CASE s # t
      <4>1. Holders(s)' = Holders(s)
        <5>1. \A d \in Client : s \in request'[d].held <=> s \in request[d].held
          BY <3>2, <1>9
        <5>2. QED
          BY <5>1 DEF Holders
      <4>2. InTable(s)' <=> InTable(s)
        <5>1. \A j \in SessionId : m_sessions'[j] = s <=> m_sessions[j] = s
          BY <3>2, <1>2, <1>8, SimulatorAssumption
        <5>2. QED
          BY <5>1 DEF InTable
      <4>3. QED
        BY <4>1, <4>2 DEF FreeSlot
    <3>3. QED
      BY <3>1, <3>2
  <2>2. FreeSlots' = FreeSlots
    BY <2>1 DEF FreeSlots
  <2>3. \A j, k \in SessionId :
          m_sessions'[j] = m_sessions'[k] /\ m_sessions'[j] # None => j = k
    BY <1>1, <1>8 DEF Owned
  <2>4. \A d \in Client : t \in request[d].held => request[d].id = i
    BY <1>1, <1>2 DEF Owned
  <2>5. ASSUME NEW d \in Client, NEW s \in request'[d].held
        PROVE  /\ \A j \in SessionId : m_sessions'[j] = s => j = request'[d].id
               /\ \A e \in Client : s \in request'[e].held => request'[e].id = request'[d].id
    <3>1. CASE s = t
      <4>1. \A e \in Client : t \in request'[e].held => request[e].id = i
        BY <2>4, <1>9
      <4>2. \A j \in SessionId : m_sessions'[j] # t
        BY <1>1, <1>2, <1>8, SimulatorAssumption DEF Owned
      <4>3. QED
        BY <3>1, <4>1, <4>2, <2>5, <1>9
    <3>2. CASE s # t
      <4>1. s \in Slot /\ s \in request[d].held
        <5>1. s \in request[d].held
          BY <3>2, <2>5, <1>9
        <5>2. request[d].held \subseteq Slot
          BY <1>1 DEF TypeOK, Request
        <5>3. QED
          BY <5>1, <5>2
      <4>2. /\ \A j \in SessionId : m_sessions[j] = s => j = request[d].id
            /\ \A e \in Client : s \in request[e].held => request[e].id = request[d].id
        BY <4>1, <1>1 DEF Owned
      <4>3. \A e \in Client : s \in request'[e].held => s \in request[e].held
        BY <3>2, <1>9
      <4>4. \A j \in SessionId : m_sessions'[j] = s => m_sessions[j] = s
        BY <4>1, <1>8, SimulatorAssumption
      <4>5. QED
        BY <4>2, <4>3, <4>4, <1>9
    <3>3. QED
      BY <3>1, <3>2
  <2>6. QED
    BY <2>1, <2>2, <2>3, <2>5, <1>1, <1>5 DEF Owned
<1>11. SlotsLeft'
  <2>1. Initializing' \subseteq Initializing
    BY <1>4, <1>7 DEF Initializing, At
  <2>2. QED
    BY <2>1, <1>1, <1>10, SlotsLeftKept
<1>12. Balanced'
  <2>0. \A j \in SessionId, d \in Client :
          d \in Removed(j)' <=> d \in Removed(j) \/ (d = c /\ j = i)
    <3> SUFFICES ASSUME NEW j \in SessionId, NEW d \in Client
        PROVE d \in Removed(j)' <=> d \in Removed(j) \/ (d = c /\ j = i)
      OBVIOUS
    <3>1. CASE d = c
      BY <3>1, <1>1, <1>4, <1>7 DEF Removed, At
    <3>2. CASE d # c
      BY <3>2, <1>7 DEF Removed, At
    <3>3. QED
      BY <3>1, <3>2
  <2> SUFFICES ASSUME NEW j \in SessionId
      PROVE balance'[j] + Cardinality(Created(j)') - Cardinality(Removed(j)')
              = IF m_sessions'[j] = None THEN 0 ELSE 1
    BY DEF Balanced
  <2>1. balance[j] + Cardinality(Created(j)) - Cardinality(Removed(j))
          = IF m_sessions[j] = None THEN 0 ELSE 1
    BY <1>1 DEF Balanced
  <2>2. Created(j)' = Created(j)
    <3>1. c \notin Created(j) /\ c \notin Created(j)'
      BY <1>1, <1>4, <1>7 DEF Created, At
    <3>2. QED
      BY <3>1, <1>7 DEF Created, At
  <2>3. Removed(j) \subseteq Client /\ Removed(j)' \subseteq Client
    BY DEF Removed
  <2>4. CASE j = i
    <3>1. c \notin Removed(j)
      BY <1>1 DEF Removed, At
    <3>2. Removed(j)' = Removed(j) \cup {c}
      BY <2>0, <2>3, <2>4
    <3>3. Cardinality(Removed(j)') = Cardinality(Removed(j)) + 1
      BY <3>1, <3>2, Finite, FS_AddElement
    <3>4. /\ Cardinality(Created(j)) \in Nat /\ Cardinality(Removed(j)) \in Nat
          /\ balance[j] \in Int
      BY Finite, FS_CardinalityType, <1>1 DEF TypeOK
    <3>5. QED
      BY <2>1, <2>2, <2>4, <3>3, <3>4, <1>5, <1>8
  <2>5. CASE j # i
    <3>1. Removed(j)' = Removed(j)
      BY <2>0, <2>3, <2>5
    <3>2. QED
      BY <2>1, <2>2, <2>5, <3>1, <1>5, <1>8
  <2>6. QED
    BY <2>4, <2>5
<1>13. \A j \in SessionId \ {i} : CurrentState(j)' = CurrentState(j)
  BY <1>5, <1>8 DEF CurrentState
<1>14. ASSUME ~overlapped[i] PROVE NotifyOf(c)'
  <2>1. NotifyOf(c)
    BY <1>1, <1>14, NotifyBefore
  <2>2. \A f \in m_deviceFiles : last[f][i] = "Deinitialized"
    BY <2>1, <1>1 DEF NotifyOf
  <2>3. \A j \in SessionId : j = i => CurrentState(j)' = "Deinitialized"
    BY <1>8 DEF CurrentState
  <2>4. request'[c].at = "release" /\ request'[c].id = i
    BY <1>4, <1>7
  <2>5. QED
    BY <2>2, <2>3, <2>4, <1>1, <1>5 DEF NotifyOf
<1>15. NotifyInv'
  BY <1>5, <1>6, <1>8, <1>13, <1>14, NotifyChanged
<1>16. /\ session' \in [Slot -> [State : SessionState, Enabled : BOOLEAN,
                                 Thread : Generator \cup {None}, Parameters : Nat]]
       /\ last' \in [Listener -> [SessionId -> SessionState \cup {None}]]
  BY <1>1, <1>5 DEF TypeOK
<1>17. QED
  BY <1>5, <1>6, <1>8, <1>10, <1>11, <1>12, <1>15, <1>16, ChangerKeeps

LEMMA ChangerSteps ==
  ASSUME IInv, NEW c \in Client, UNCHANGED promise,
         OnUwbSessionInitialize(c) \/ OnUwbSessionDeinitialize(c) \/ OnUwbSessionStopRanging(c)
  PROVE  IInv'
<1>1. {"Initialized", "Deinitialized", "Idle"} \subseteq SessionState
  BY DEF SessionState
<1>2. UNCHANGED historyVars /\ request[c].code \in ChangesState
  BY DEF OnUwbSessionInitialize, OnUwbSessionDeinitialize, OnUwbSessionStopRanging, Handles,
         ChangesState
<1>3. ASSUME NEW state \in SessionState, NEW next \in {"destroy", "release"},
             next = "destroy" <=> request[c].code = "SESSION_DEINIT",
             request[c].code = "SESSION_DEINIT" => state = "Deinitialized",
             SessionUpdateState(c, state, "update", next),
             UNCHANGED <<m_sessions, generator, terminated>>
      PROVE  IInv'
  <2>1. CASE /\ At(c, "update")
             /\ session' = [session EXCEPT ![Of(c)].State = state]
             /\ request' = [request EXCEPT ![c].at = "raise", ![c].state = state]
             /\ UNCHANGED fileVars
    BY <2>1, <1>2, <1>3, StateWritten
  <2>2. CASE PushUwbNotification(c, next) /\ UNCHANGED session
    BY <2>2, <1>2, <1>3, Pushed
  <2>3. QED
    BY <1>3, <2>1, <2>2 DEF SessionUpdateState
<1>4. CASE OnUwbSessionInitialize(c)
  <2>1. request[c].code = "SESSION_INIT"
    BY <1>4 DEF OnUwbSessionInitialize, Handles
  <2>2. CASE At(c, "begin") /\ SessionCreate(c, "update") /\ UNCHANGED fileVars
    <3>1. CASE Ends(c, "Duplicate") /\ UNCHANGED sessionVars
      BY <2>1, <2>2, <3>1, <1>2, CreateRefused
    <3>2. CASE SessionGet(request[c].id) = None
      <4>1. PICK s : /\ s = CHOOSE t \in Slot : FreeSlot(t)
                     /\ m_sessions' = [m_sessions EXCEPT ![request[c].id] = s]
                     /\ request' = [request EXCEPT ![c].at = "update", ![c].held = {s}]
                     /\ UNCHANGED <<session, generator, terminated>>
        BY <2>2, <3>2 DEF SessionCreate
      <4>2. QED
        BY <2>1, <2>2, <3>2, <4>1, <1>2, CreateEmplaced DEF SessionGet
    <3>3. QED
      BY <2>2, <3>1, <3>2 DEF SessionCreate
  <2>3. CASE /\ SessionUpdateState(c, "Initialized", "update", "release")
             /\ UNCHANGED <<m_sessions, generator, terminated>>
    BY <2>1, <2>3, <1>1, <1>3
  <2>4. QED
    BY <1>4, <2>2, <2>3 DEF OnUwbSessionInitialize, SessionInitialize
<1>5. CASE OnUwbSessionDeinitialize(c)
  <2>1. request[c].code = "SESSION_DEINIT"
    BY <1>5 DEF OnUwbSessionDeinitialize, Handles
  <2>2. CASE Finds(c, "update") /\ UNCHANGED fileVars
    BY <2>1, <2>2, <1>2, ChangerFinds
  <2>3. CASE /\ SessionUpdateState(c, "Deinitialized", "update", "destroy")
             /\ UNCHANGED <<m_sessions, generator, terminated>>
    BY <2>1, <2>3, <1>1, <1>3
  <2>4. CASE At(c, "destroy") /\ SessionDestroy(c) /\ UNCHANGED fileVars
    BY <2>1, <2>4, <1>2, DestroyMissed, DestroyExtracted
  <2>5. QED
    BY <1>5, <2>2, <2>3, <2>4 DEF OnUwbSessionDeinitialize, SessionDeninitialize
<1>6. CASE OnUwbSessionStopRanging(c)
  <2>1. request[c].code = "STOP_RANGING_SESSION"
    BY <1>6 DEF OnUwbSessionStopRanging, Handles
  <2>2. CASE Finds(c, "update") /\ UNCHANGED fileVars
    BY <2>1, <2>2, <1>2, ChangerFinds
  <2>3. CASE /\ SessionUpdateState(c, "Idle", "update", "release")
             /\ UNCHANGED <<m_sessions, generator, terminated>>
    BY <2>1, <2>3, <1>1, <1>3
  <2>4. QED
    BY <1>6, <2>2, <2>3 DEF OnUwbSessionStopRanging
<1>7. QED
  BY <1>4, <1>5, <1>6

-----------------------------------------------------------------------------
(* A handler returns: its references are dropped.                          *)

Dropped(c, s) ==
    /\ c \in Client /\ s \in Slot /\ request[c].at = "release" /\ s \in request[c].held
    /\ request' = [request EXCEPT ![c].held = @ \ {s}]
    /\ UNCHANGED <<m_sessions, terminated, fileVars, historyVars, promise>>

Same(q, r) ==
    /\ r.at = q.at /\ r.code = q.code /\ r.id = q.id /\ r.arg = q.arg /\ r.state = q.state
    /\ r.targets = q.targets /\ r.thread = q.thread /\ r.joins = q.joins /\ r.size = q.size
    /\ r.needed = q.needed /\ r.status = q.status /\ r.attempt = q.attempt
    /\ r.grown = q.grown

LEMMA DroppedIs ==
  ASSUME IInv, NEW c, NEW s, Dropped(c, s)
  PROVE  /\ request' \in [Client -> Request] /\ Control'
         /\ \A d \in Client : Same(request[d], request'[d])
         /\ request'[c].held = request[c].held \ {s}
         /\ \A d \in Client \ {c} : request'[d] = request[d]
         /\ request[c].thread = None /\ request[c].joins = None
<1> DEFINE r == [request[c] EXCEPT !.held = request[c].held \ {s}]
<1>1. /\ TypeOK /\ Control /\ Sound(request[c]) /\ request[c] \in Request
      /\ request[c].at = "release" /\ c \in Client
  BY DEF IInv, Control, TypeOK, Dropped
<1>2. r \in Request
  <2>1. request[c].held \ {s} \in SUBSET Slot
    BY <1>1 DEF Request
  <2>2. QED
    BY <1>1, <2>1 DEF Request
<1>3. Same(request[c], r) /\ r.held = request[c].held \ {s}
  BY <1>1 DEF Request, Same
<1>4. request' = [request EXCEPT ![c] = r]
  BY DEF Dropped
<1> HIDE DEF r
<1>5. Sound(r)
  BY <1>1, <1>3 DEF Sound, Works, Same
<1>6. /\ request' \in [Client -> Request] /\ Control'
      /\ request'[c] = r /\ \A d \in Client \ {c} : request'[d] = request[d]
  BY <1>1, <1>2, <1>4, <1>5, Replaced
<1>7. request[c].thread = None /\ request[c].joins = None
  BY <1>1 DEF Sound
<1>8. \A d \in Client : Same(request[d], request'[d])
  BY <1>3, <1>6 DEF Same
<1>9. QED
  BY <1>3, <1>6, <1>7, <1>8

LEMMA DropKeeps ==
  ASSUME IInv, NEW c, NEW s, Dropped(c, s), ThreadInv',
         session' \in [Slot -> [State : SessionState, Enabled : BOOLEAN,
                                Thread : Generator \cup {None}, Parameters : Nat]],
         generator' \in [Generator -> [session : Slot \cup {None}, stop : BOOLEAN,
                                       done : BOOLEAN]],
         \A t \in Slot \ {s} : session'[t] = session[t],
         \/ session'[s] = session[s] /\ (Holders(s) # {c} \/ InTable(s))
         \/ session'[s] = NewSession /\ Holders(s) = {c} /\ ~InTable(s)
  PROVE  IInv'
<1>1. /\ request' \in [Client -> Request] /\ Control'
      /\ \A d \in Client : Same(request[d], request'[d])
      /\ request'[c].held = request[c].held \ {s}
      /\ \A d \in Client \ {c} : request'[d] = request[d]
  BY DroppedIs
<1>2. /\ TypeOK /\ Control /\ Owned /\ SlotsLeft /\ Balanced /\ NotifyInv /\ AnswerInv
      /\ c \in Client /\ s \in Slot /\ request[c].at = "release" /\ s \in request[c].held
      /\ UNCHANGED <<m_sessions, terminated, m_deviceFiles, last, overlapped, balance, promise>>
  BY DEF IInv, Dropped, fileVars, historyVars
<1>3. TypeOK'
  BY <1>1, <1>2 DEF TypeOK
<1>4. \A t \in Slot : FreeSlot(t) => FreeSlot(t)'
  <2> SUFFICES ASSUME NEW t \in Slot, FreeSlot(t) PROVE FreeSlot(t)'
    OBVIOUS
  <2>1. \A d \in Client : t \notin request'[d].held
    BY <1>1 DEF FreeSlot, Holders
  <2>2. ~InTable(t)'
    BY <1>2 DEF FreeSlot, InTable
  <2>3. QED
    BY <2>1, <2>2 DEF FreeSlot, Holders
<1>5. \A t \in Slot : t # s /\ FreeSlot(t)' => FreeSlot(t)
  <2> SUFFICES ASSUME NEW t \in Slot, t # s, FreeSlot(t)' PROVE FreeSlot(t)
    OBVIOUS
  <2>1. \A d \in Client : t \notin request'[d].held
    BY DEF FreeSlot, Holders
  <2>2. \A d \in Client : t \notin request[d].held
    BY <2>1, <1>1
  <2>3. ~InTable(t)
    BY <1>2 DEF FreeSlot, InTable
  <2>4. QED
    BY <2>2, <2>3 DEF FreeSlot, Holders
<1>6. session'[s] = session[s] => ~FreeSlot(s)' \/ session'[s] = NewSession
  <2>1. CASE InTable(s)
    BY <2>1, <1>2 DEF FreeSlot, InTable
  <2>2. CASE Holders(s) # {c}
    <3>1. c \in Holders(s)
      BY <1>2 DEF Holders
    <3>2. PICK d \in Holders(s) : d # c
      BY <2>2, <3>1
    <3>3. d \in Client /\ s \in request'[d].held
      BY <3>2, <1>1 DEF Holders
    <3>4. QED
      BY <3>3 DEF FreeSlot, Holders
  <2>3. QED
    BY <2>1, <2>2
<1>7. Owned'
  <2>1. \A t \in Slot : FreeSlot(t)' => session'[t] = NewSession
    BY <1>2, <1>5, <1>6 DEF Owned
  <2>2. \A i, j \in SessionId :
          m_sessions'[i] = m_sessions'[j] /\ m_sessions'[i] # None => i = j
    BY <1>2 DEF Owned
  <2>3. \A d \in Client : /\ request'[d].id = request[d].id
                          /\ request'[d].held \subseteq request[d].held
    BY <1>1 DEF Same
  <2>4. \A d \in Client : \A t \in request'[d].held :
          /\ \A i \in SessionId : m_sessions'[i] = t => i = request'[d].id
          /\ \A e \in Client : t \in request'[e].held => request'[e].id = request'[d].id
    BY <2>3, <1>2 DEF Owned
  <2>5. QED
    BY <2>1, <2>2, <2>4 DEF Owned
<1>8. SlotsLeft'
  <2>1. Initializing' \subseteq Initializing
    BY <1>1 DEF Initializing, At, Same
  <2>2. FreeSlots \subseteq FreeSlots'
    BY <1>4 DEF FreeSlots
  <2>3. QED
    BY <1>2, <2>1, <2>2, SlotsLeftKept
<1>9. Balanced'
  <2>1. \A i \in SessionId : Created(i)' = Created(i) /\ Removed(i)' = Removed(i)
    BY <1>1 DEF Created, Removed, At, Same
  <2>2. QED
    BY <1>2, <2>1 DEF Balanced
<1>10. NotifyInv'
  <2>1. \A i \in SessionId : CurrentState(i)' = CurrentState(i)
    <3> SUFFICES ASSUME NEW i \in SessionId PROVE CurrentState(i)' = CurrentState(i)
      OBVIOUS
    <3>1. CASE m_sessions[i] = None
      BY <3>1, <1>2 DEF CurrentState
    <3>2. CASE m_sessions[i] # None
      <4>1. m_sessions[i] \in Slot
        BY <3>2, <1>2 DEF TypeOK
      <4>2. session'[m_sessions[i]].State = session[m_sessions[i]].State
        BY <4>1 DEF InTable
      <4>3. QED
        BY <3>2, <4>2, <1>2 DEF CurrentState
    <3>3. QED
      BY <3>1, <3>2
  <2>2. \A d \in Client, i \in SessionId : Changes(d, i)' = Changes(d, i)
    BY <1>1 DEF Changes, Same
  <2>3. \A f \in m_deviceFiles, i \in SessionId : Told(f, i) => Told(f, i)'
    BY <2>1, <2>2, <1>1, <1>2 DEF Told, At, Same
  <2>4. \A d \in Client : \/ request'[d].held = request[d].held
                          \/ request[d].at = "release"
    BY <1>1, <1>2
  <2>5. QED
    BY <2>1, <2>2, <2>3, <2>4, <1>1, <1>2 DEF NotifyInv, Same
<1>11. ASSUME NEW d \in Client PROVE Answer(d)'
  <2>1. Answer(d) /\ Same(request[d], request'[d])
    BY <1>1, <1>2 DEF AnswerInv
  <2>2. Asking(d)' = Asking(d)
    BY <2>1 DEF Asking, At, Same
  <2>3. ASSUME Asking(d), NEW n, Fits(d, n) PROVE Fits(d, n)'
    <3>1. CASE At(d, "get")
      <4>1. request[d].at = "get" /\ d # c /\ request'[d] = request[d] /\ Works(request[d])
        BY <3>1, <2>3, <1>1, <1>2 DEF At, Asking, Works
      <4>2. Of(d) \in Slot /\ request[d].held = {Of(d)}
        BY <4>1, <1>2, HoldsOne
      <4>3. Of(d)' = Of(d)
        BY <4>1 DEF Of
      <4>4. session'[Of(d)].Parameters = session[Of(d)].Parameters
        <5>1. d \in Holders(Of(d))
          BY <4>2 DEF Holders
        <5>2. QED
          BY <4>1, <4>2, <5>1
      <4>5. QED
        BY <4>1, <4>3, <4>4, <2>3 DEF Fits
    <3>2. CASE request[d].status = "Overflow" \/ request[d].attempt = 1
      BY <3>2, <2>1, <2>3 DEF Fits, Same
    <3>3. QED
      BY <3>1, <3>2, <2>3 DEF Asking
  <2>4. ASSUME NEW t \in Slot, t \in request'[d].held \/ m_sessions[request[d].id] = t, Asking(d)
        PROVE  /\ t \in request[d].held \/ m_sessions[request[d].id] = t
               /\ session'[t].Parameters = session[t].Parameters
    <3>1. t \in request[d].held \/ m_sessions[request[d].id] = t
      BY <2>4, <1>1
    <3>2. CASE t # s
      BY <3>1, <3>2
    <3>3. CASE t = s
      <4>1. request[d].id \in SessionId
        BY <2>4, <1>2 DEF Asking, Control, Sound, OfTheDevice
      <4>2. InTable(s) \/ (d # c /\ d \in Holders(s))
        BY <4>1, <3>3, <2>4, <1>1 DEF InTable, Holders
      <4>3. QED
        BY <3>1, <3>3, <4>2
    <3>4. QED
      BY <3>2, <3>3
  <2>5. QED
    BY <2>1, <2>2, <2>3, <2>4, <1>2 DEF Answer, Same, At
<1>12. QED
  BY <1>1, <1>3, <1>7, <1>8, <1>9, <1>10, <1>11 DEF IInv, AnswerInv

\* Every part but that of the threads, when only a stop is asked for, or seen.
LEMMA GeneratorOnly ==
  ASSUME IInv, ThreadInv',
         UNCHANGED <<request, m_sessions, session, terminated, fileVars, historyVars, promise>>,
         generator' \in [Generator -> [session : Slot \cup {None}, stop : BOOLEAN,
                                       done : BOOLEAN]]
  PROVE  IInv'
<1>1. TypeOK'
  BY DEF IInv, TypeOK, fileVars, historyVars
<1>2. /\ \A s \in Slot : Holders(s)' = Holders(s) /\ InTable(s)' = InTable(s)
      /\ FreeSlots' = FreeSlots /\ Initializing' = Initializing
      /\ \A i : Created(i)' = Created(i) /\ Removed(i)' = Removed(i)
      /\ \A i : CurrentState(i)' = CurrentState(i)
  BY DEF Holders, InTable, FreeSlots, FreeSlot, Initializing, Created, Removed, At,
         CurrentState
<1>3. Control' /\ SlotsLeft'
  BY <1>2 DEF IInv, Control, SlotsLeft
<1>4. Owned'
  BY <1>2 DEF IInv, Owned, FreeSlot
<1>5. Balanced'
  BY <1>2 DEF IInv, Balanced, historyVars
<1>6. NotifyInv'
  BY <1>2 DEF IInv, NotifyInv, Told, Changes, At, fileVars, historyVars
<1>7. AnswerInv'
  BY DEF IInv, AnswerInv, Answer, Asking, Fits, Of, At
<1>8. QED
  BY <1>1, <1>3, <1>4, <1>5, <1>6, <1>7 DEF IInv

LEMMA StopAsked ==
  ASSUME IInv, ~terminated, NEW s \in Slot, NEW g, g = session[s].Thread, g # None,
         generator' = [generator EXCEPT ![g].stop = TRUE],
         UNCHANGED <<request, m_sessions, session, terminated, fileVars, historyVars, promise>>
  PROVE  IInv'
<1>1. g \in Generator /\ generator[g].session = s /\ generator[g].session # None
  BY ThreadOfSession, SimulatorAssumption
<1>2. TypeOK /\ ThreadInv
  BY DEF IInv
<1>3. /\ generator' \in [Generator -> [session : Slot \cup {None}, stop : BOOLEAN,
                                       done : BOOLEAN]]
      /\ \A h \in Generator : /\ generator'[h].session = generator[h].session
                              /\ generator'[h] = NoThread <=> generator[h] = NoThread
  BY <1>1, <1>2, AskedToStop
<1>4. SameThreads
  BY <1>3 DEF SameThreads
<1>5. Starting' \subseteq Starting
  BY DEF Starting
<1>6. ThreadInv'
  BY <1>2, <1>4, <1>5, ThreadsKept
<1>7. QED
  BY <1>3, <1>6, GeneratorOnly

\* The generator sees that it has been asked to stop.
LEMMA MeasuresSteps ==
  ASSUME IInv, NEW g \in Generator, Measures(g), UNCHANGED promise
  PROVE  IInv'
<1>1. /\ generator[g].session # None
      /\ generator' = [generator EXCEPT ![g].done = TRUE]
      /\ UNCHANGED <<request, m_sessions, session, terminated, fileVars, historyVars, promise>>
  BY DEF Measures, RandomRangingMeasurementGenerator, Running
<1>2. TypeOK /\ ThreadInv
  BY DEF IInv
<1>3. generator' \in [Generator -> [session : Slot \cup {None}, stop : BOOLEAN,
                                    done : BOOLEAN]]
  BY <1>1, <1>2 DEF TypeOK
<1>4. /\ \A h \in Generator \ {g} : generator'[h] = generator[h]
      /\ generator'[g].session = generator[g].session
  BY <1>1, <1>2 DEF TypeOK
<1>5. generator[g] # NoThread /\ generator'[g] # NoThread
  BY <1>1, <1>4 DEF NoThread
<1>6. \A h \in Generator : /\ generator'[h].session = generator[h].session
                           /\ generator'[h] = NoThread <=> generator[h] = NoThread
  BY <1>4, <1>5
<1>7. SameThreads
  BY <1>1, <1>6 DEF SameThreads
<1>8. Starting' \subseteq Starting
  BY <1>1 DEF Starting
<1>9. ThreadInv'
  BY <1>1, <1>2, <1>7, <1>8, ThreadsKept
<1>10. QED
  BY <1>1, <1>3, <1>9, GeneratorOnly

\* One of several references is dropped.
LEMMA ReferenceDropped ==
  ASSUME IInv, NEW c, NEW s, Dropped(c, s), UNCHANGED <<session, generator>>,
         Holders(s) # {c} \/ InTable(s)
  PROVE  IInv'
<1>1. /\ \A d \in Client : Same(request[d], request'[d])
      /\ \A d \in Client \ {c} : request'[d] = request[d]
      /\ request[c].thread = None /\ request[c].joins = None
  BY DroppedIs
<1>2. TypeOK /\ ThreadInv
  BY DEF IInv
<1>3. SameThreads
  BY <1>1 DEF SameThreads, Same
<1>4. Starting' \subseteq Starting
  BY <1>1 DEF Starting, Same
<1>5. ThreadInv'
  BY <1>2, <1>3, <1>4, ThreadsKept DEF Dropped
<1>6. /\ session' \in [Slot -> [State : SessionState, Enabled : BOOLEAN,
                                Thread : Generator \cup {None}, Parameters : Nat]]
      /\ generator' \in [Generator -> [session : Slot \cup {None}, stop : BOOLEAN,
                                       done : BOOLEAN]]
  BY <1>2 DEF TypeOK
<1>7. QED
  BY <1>5, <1>6, DropKeeps

\* The last reference is dropped: the thread, if there is one, has ended.
LEMMA SessionDestroyed ==
  ASSUME IInv, ~terminated, NEW c, NEW s, Dropped(c, s), Holders(s) = {c}, ~InTable(s),
         NEW g, g = session[s].Thread,
         session' = [session EXCEPT ![s] = NewSession],
         generator' = [h \in Generator |-> IF h = g THEN NoThread ELSE generator[h]]
  PROVE  IInv'
<1>1. /\ TypeOK /\ OneHandle /\ ThreadsLeft /\ c \in Client /\ s \in Slot
      /\ s \in request[c].held
  BY DEF IInv, ThreadInv, Dropped
<1>2. /\ \A d \in Client : Same(request[d], request'[d])
      /\ \A d \in Client \ {c} : request'[d] = request[d]
      /\ request[c].thread = None /\ request[c].joins = None
  BY DroppedIs
<1>3. NewSession \in [State : SessionState, Enabled : BOOLEAN,
                      Thread : Generator \cup {None}, Parameters : Nat]
  BY DEF NewSession, SessionState
<1>4. /\ session' \in [Slot -> [State : SessionState, Enabled : BOOLEAN,
                                Thread : Generator \cup {None}, Parameters : Nat]]
      /\ session'[s] = NewSession
      /\ \A t \in Slot \ {s} : session'[t] = session[t]
  BY <1>1, <1>3 DEF TypeOK
<1>5. NoThread \in [session : Slot \cup {None}, stop : BOOLEAN, done : BOOLEAN]
  BY DEF NoThread
<1>6. /\ generator' \in [Generator -> [session : Slot \cup {None}, stop : BOOLEAN,
                                       done : BOOLEAN]]
      /\ \A h \in Generator : generator'[h] = IF h = g THEN NoThread ELSE generator[h]
  BY <1>1, <1>5 DEF TypeOK
<1>7. g # None => g \in Generator /\ generator[g].session = s
  BY <1>1, ThreadOfSession
<1>8. session'[s].Thread = None /\ NoThread.session = None
  BY <1>4 DEF NewSession, NoThread
<1>9. OneHandle'
  <2>1. ASSUME NEW t \in Slot, session'[t].Thread # None
        PROVE  generator'[session'[t].Thread].session = t
    <3>1. /\ t # s /\ session'[t].Thread = session[t].Thread
          /\ session[t].Thread \in Generator
          /\ generator[session[t].Thread].session = t
      BY <2>1, <1>1, <1>4, <1>8 DEF OneHandle, TypeOK
    <3>2. session[t].Thread # g
      BY <3>1, <1>7, <2>1
    <3>3. QED
      BY <3>1, <3>2, <1>6
  <2>2. ASSUME NEW d \in Client, NEW h, h = request'[d].thread, h # None
        PROVE  /\ request'[d].held = {generator'[h].session}
               /\ \A t \in Slot : session'[t].Thread # h
               /\ \A e \in Client : request'[e].joins # h
               /\ \A e \in Client \ {d} : request'[e].thread # h
    <3>1. d # c /\ request'[d] = request[d] /\ h \in Generator
      BY <2>2, <1>1, <1>2 DEF Same, TypeOK, Request
    <3>2. /\ request[d].held = {generator[h].session}
          /\ \A t \in Slot : session[t].Thread # h
          /\ \A e \in Client : request[e].joins # h
          /\ \A e \in Client \ {d} : request[e].thread # h
      BY <3>1, <2>2, <1>1, HandleOfRequest
    <3>3. h # g
      BY <3>2, <1>1
    <3>4. \A t \in Slot : session'[t].Thread # h
      BY <3>2, <2>2, <1>4, <1>8
    <3>5. QED
      BY <3>1, <3>2, <3>3, <3>4, <1>2, <1>6 DEF Same
  <2>3. ASSUME NEW d \in Client, NEW h, h = request'[d].joins, h # None
        PROVE  generator'[h].session \in request'[d].held \cup {None}
    <3>1. d # c /\ request'[d] = request[d] /\ h \in Generator
      BY <2>3, <1>1, <1>2 DEF Same, TypeOK, Request
    <3>2. generator[h].session \in request[d].held \cup {None}
      BY <3>1, <2>3, <1>1 DEF OneHandle
    <3>3. QED
      BY <3>1, <3>2, <1>6, <1>8
  <2>4. ASSUME NEW h \in Generator
        PROVE  IF generator'[h].session = None THEN generator'[h] = NoThread
               ELSE \/ session'[generator'[h].session].Thread = h
                    \/ \E d \in Client : request'[d].thread = h
    <3>1. CASE h = g
      BY <3>1, <1>6, <1>8
    <3>2. CASE h # g
      <4>1. generator'[h] = generator[h] /\ generator[h].session \in Slot \cup {None}
        BY <3>2, <1>1, <1>6 DEF TypeOK
      <4>2. IF generator[h].session = None THEN generator[h] = NoThread
            ELSE \/ session[generator[h].session].Thread = h
                 \/ \E d \in Client : request[d].thread = h
        BY <1>1 DEF OneHandle
      <4>3. \A d \in Client : request[d].thread = h => request'[d].thread = h
        BY <1>2 DEF Same
      <4>4. CASE generator[h].session = s
        <5>1. session[s].Thread # h
          BY <3>2
        <5>2. QED
          BY <4>1, <4>2, <4>3, <4>4, <5>1, <1>1, SimulatorAssumption
      <4>5. CASE generator[h].session # s
        BY <4>1, <4>2, <4>3, <4>5, <1>4
      <4>6. QED
        BY <4>4, <4>5
    <3>3. QED
      BY <3>1, <3>2
  <2>5. QED
    BY <2>1, <2>2, <2>3, <2>4 DEF OneHandle
<1>10. ThreadsLeft'
  <2>1. Starting' \subseteq Starting
    BY <1>2 DEF Starting, Same
  <2>2. ASSUME NEW h \in FreeThreads PROVE h \in FreeThreads'
    <3>1. h \in Generator /\ generator[h] = NoThread /\ \A d \in Client : request[d].joins # h
      BY DEF FreeThreads
    <3>2. \A d \in Client : request'[d].joins # h
      BY <3>1, <1>2 DEF Same
    <3>3. generator'[h] = NoThread
      BY <3>1, <1>6
    <3>4. QED
      BY <3>1, <3>2, <3>3 DEF FreeThreads
  <2>3. QED
    BY <2>1, <2>2, <1>1, ThreadsLeftKept
<1>11. ThreadInv'
  BY <1>9, <1>10 DEF ThreadInv
<1>12. QED
  BY <1>4, <1>6, <1>11, DropKeeps

LEMMA ReturnSteps ==
  ASSUME IInv, ~terminated, NEW c \in Client, Returns(c), UNCHANGED promise
  PROVE  IInv'
<1>1. PICK s \in Slot : SessionDestructor(c, s)
  BY DEF Returns
<1>2. /\ s \in request[c].held /\ request[c].at = "release"
      /\ UNCHANGED <<m_sessions, terminated, fileVars, historyVars, promise>>
  BY <1>1 DEF SessionDestructor, Returns, At
<1> DEFINE g == session[s].Thread
<1>3. CASE /\ Holders(s) # {c} \/ InTable(s)
           /\ request' = [request EXCEPT ![c].held = @ \ {s}]
           /\ UNCHANGED <<session, generator>>
  <2>1. Dropped(c, s)
    BY <1>2, <1>3 DEF Dropped
  <2>2. QED
    BY <1>3, <2>1, ReferenceDropped
<1>4. CASE /\ g # None
           /\ generator' = [generator EXCEPT ![g].stop = TRUE]
           /\ UNCHANGED <<request, session>>
  BY <1>2, <1>4, StopAsked
<1>5. CASE /\ Holders(s) = {c} /\ ~InTable(s)
           /\ request' = [request EXCEPT ![c].held = @ \ {s}]
           /\ session' = [session EXCEPT ![s] = NewSession]
           /\ generator' = [h \in Generator |-> IF h = g THEN NoThread ELSE generator[h]]
  <2>1. Dropped(c, s)
    BY <1>2, <1>5 DEF Dropped
  <2>2. QED
    BY <1>5, <2>1, SessionDestroyed
<1>6. QED
  BY <1>1, <1>3, <1>4, <1>5 DEF SessionDestructor

-----------------------------------------------------------------------------
(* The client's own steps.                                                 *)

LEMMA IdleIs ==
  ASSUME IInv, NEW c \in Client, At(c, "idle")
  PROVE  /\ request[c].code = "none" /\ request[c].held = {} /\ request[c].arg # "start"
         /\ request[c].thread = None /\ request[c].joins = None
<1>1. Sound(request[c]) /\ request[c].code \in Codes /\ request[c].at = "idle"
  BY DEF IInv, Control, TypeOK, Request, At
<1>2. request[c].code = "none"
  BY <1>1 DEF Sound, Places, Codes
<1>3. QED
  BY <1>1, <1>2 DEF Sound

\* A set and one more, where there was room.
LEMMA OneMore ==
  ASSUME NEW A, NEW X, NEW a, IsFiniteSet(A), IsFiniteSet(X),
         Cardinality(A) < Cardinality(X)
  PROVE  IsFiniteSet(A \cup {a}) /\ Cardinality(A \cup {a}) <= Cardinality(X)
<1>1. /\ IsFiniteSet(A \cup {a})
      /\ Cardinality(A \cup {a}) = IF a \in A THEN Cardinality(A) ELSE Cardinality(A) + 1
  BY FS_AddElement
<1>2. Cardinality(A) \in Nat /\ Cardinality(X) \in Nat
  BY FS_CardinalityType
<1>3. QED
  BY <1>1, <1>2

Asked(code, i, arg, size) ==
    [Idle EXCEPT !.at = "begin", !.code = code, !.id = i, !.arg = arg, !.size = size]

\* A request that finds what the guards of the calls promise.
LEMMA IoctlSent ==
  ASSUME IInv, NEW c \in Client, At(c, "idle"),
         NEW code \in Codes \ {"none"}, NEW i \in SessionId \cup {None},
         NEW arg \in Events \cup MulticastActions \cup {None}, NEW size \in Nat,
         DeviceIoControl(c, code, i, arg, size),
         code \notin OfTheDevice => i \in SessionId,
         arg = "start" => code = "SIM_TRIGGER_SESSION_EVENT",
         code = "SIM_TRIGGER_SESSION_EVENT" => arg \in Events,
         code = "SESSION_INIT" => Cardinality(Initializing) < Cardinality(FreeSlots),
         code = "SIM_TRIGGER_SESSION_EVENT" =>
            Cardinality({d \in Client : request[d].arg = "start" /\ request[d].thread = None})
                < Cardinality(FreeThreads)
  PROVE  IInv'
<1> DEFINE r == Asked(code, i, arg, size)
<1>1. /\ TypeOK /\ Control /\ Owned /\ SlotsLeft /\ ThreadInv /\ Balanced /\ NotifyInv
      /\ AnswerInv
  BY DEF IInv
<1>2. /\ request' = [request EXCEPT ![c] = r]
      /\ overlapped' = [j \in SessionId |-> overlapped[j] \/ (j = i /\ Overlaps(c, code, i))]
      /\ promise' = [promise EXCEPT ![c] = "none"]
      /\ last' = [f \in Listener |-> [j \in SessionId |->
                        IF overlapped'[j] THEN None ELSE last[f][j]]]
      /\ UNCHANGED <<m_sessions, session, generator, terminated, m_deviceFiles, balance>>
  BY DEF DeviceIoControl, Asked, sessionVars
<1>3. Idle \in Request
  BY DEF Idle, Request, Position, Codes, Status
<1>4. r \in Request
  BY <1>3 DEF Asked, Request, Position
<1>5. /\ r.at = "begin" /\ r.code = code /\ r.id = i /\ r.arg = arg /\ r.size = size
      /\ r.held = {} /\ r.thread = None /\ r.joins = None /\ r.status = "Ok"
      /\ r.attempt = 0
  BY DEF Asked, Idle
<1> HIDE DEF r
<1>6. Sound(r)
  <2>1. "begin" \in Places(code)
    BY DEF Places, Codes
  <2>2. QED
    BY <1>5, <2>1 DEF Sound, Works
<1>7. /\ request' \in [Client -> Request] /\ Control'
      /\ request'[c] = r /\ \A d \in Client \ {c} : request'[d] = request[d]
  BY <1>1, <1>2, <1>4, <1>6, Replaced
<1>8. /\ request[c].code = "none" /\ request[c].held = {} /\ request[c].arg # "start"
      /\ request[c].thread = None /\ request[c].joins = None
  BY IdleIs
<1>9. /\ overlapped' \in [SessionId -> BOOLEAN]
      /\ \A j \in SessionId : ~overlapped'[j] =>
            ~overlapped[j] /\ ~(j = i /\ Overlaps(c, code, i))
  BY <1>2
<1>10. /\ last' \in [Listener -> [SessionId -> SessionState \cup {None}]]
       /\ \A f \in Listener, j \in SessionId : ~overlapped'[j] => last'[f][j] = last[f][j]
  BY <1>1, <1>2 DEF TypeOK
<1>11. promise' \in [Client -> {"none", "kept", "broken"}] /\ promise'[c] = "none"
       /\ \A d \in Client \ {c} : promise'[d] = promise[d]
  BY <1>1, <1>2 DEF TypeOK
<1>12. TypeOK'
  BY <1>1, <1>2, <1>7, <1>9, <1>10, <1>11 DEF TypeOK
<1>13. Owned' /\ FreeSlots' = FreeSlots
  <2>1. SameReferences
    BY <1>2, <1>5, <1>7, <1>8 DEF SameReferences
  <2>2. QED
    BY <1>1, <1>2, <2>1, OwnedKept
<1>14. SlotsLeft'
  <2>1. CASE code = "SESSION_INIT"
    <3>1. Initializing' \subseteq Initializing \cup {c}
      BY <1>7 DEF Initializing, At
    <3>2. /\ IsFiniteSet(Initializing \cup {c})
          /\ Cardinality(Initializing \cup {c}) <= Cardinality(FreeSlots)
      BY <2>1, Finite, OneMore
    <3>3. QED
      BY <3>1, <3>2, <1>13, Finite, StillLeft DEF SlotsLeft
  <2>2. CASE code # "SESSION_INIT"
    <3>1. Initializing' \subseteq Initializing
      BY <2>2, <1>5, <1>7 DEF Initializing, At
    <3>2. QED
      BY <3>1, <1>1, <1>13, SlotsLeftKept
  <2>3. QED
    BY <2>1, <2>2
<1>15. ThreadInv'
  <2>1. SameThreads
    BY <1>2, <1>5, <1>7, <1>8 DEF SameThreads
  <2>2. CASE arg # "start"
    <3>1. Starting' \subseteq Starting
      BY <2>2, <1>5, <1>7 DEF Starting
    <3>2. QED
      BY <2>1, <3>1, <1>1, <1>2, ThreadsKept
  <2>3. CASE arg = "start"
    <3> SUFFICES ASSUME ~terminated' PROVE OneHandle' /\ ThreadsLeft'
      BY DEF ThreadInv
    <3>1. OneHandle /\ ThreadsLeft
      BY <1>1, <1>2 DEF ThreadInv
    <3>2. OneHandle' /\ FreeThreads' = FreeThreads
      BY <2>1, <3>1, <1>1, HandlesKept
    <3> DEFINE S == {d \in Client : request[d].arg = "start" /\ request[d].thread = None}
    <3>3. Starting' \subseteq S \cup {c}
      <4>1. \A d \in Client : request[d].at \in {"begin", "start", "enable"} =>
                request[d].thread = None
        BY <1>1 DEF Control, Sound
      <4>2. QED
        BY <4>1, <1>7 DEF Starting
    <3>4. IsFiniteSet(S)
      BY FS_Subset, SimulatorAssumption, S \subseteq Client
    <3>5. Cardinality(S) < Cardinality(FreeThreads)
      BY <2>3
    <3> HIDE DEF S
    <3>6. IsFiniteSet(S \cup {c}) /\ Cardinality(S \cup {c}) <= Cardinality(FreeThreads)
      BY <3>4, <3>5, Finite, OneMore
    <3>7. ThreadsLeft'
      BY <3>2, <3>3, <3>6, Finite, StillLeft DEF ThreadsLeft
    <3>8. QED
      BY <3>2, <3>7
  <2>4. QED
    BY <2>2, <2>3
<1>16. Balanced'
  <2>1. \A j \in SessionId : Created(j)' = Created(j) /\ Removed(j)' = Removed(j)
    <3>1. \A j \in SessionId : /\ c \notin Created(j) /\ c \notin Created(j)'
                               /\ c \notin Removed(j) /\ c \notin Removed(j)'
      BY <1>5, <1>7, <1>8 DEF Created, Removed, At
    <3>2. QED
      BY <3>1, <1>7 DEF Created, Removed, At
  <2>2. QED
    BY <2>1, <1>1, <1>2 DEF Balanced
<1>17. NotifyInv'
  <2> SUFFICES ASSUME NEW j \in SessionId, ~overlapped'[j]
      PROVE /\ \A d, e \in Client : Changes(d, j)' /\ Changes(e, j)' => d = e
            /\ \A d \in Client : Changes(d, j)' =>
                /\ request'[d].at \in {"update", "raise", "push", "destroy"} =>
                      m_sessions'[j] # None /\ request'[d].held = {m_sessions'[j]}
                /\ request'[d].at \in {"raise", "push"} => request'[d].state = CurrentState(j)'
                /\ request'[d].code = "SESSION_DEINIT"
                      /\ request'[d].at \in {"raise", "push", "destroy"} =>
                          CurrentState(j)' = "Deinitialized"
            /\ \A f \in m_deviceFiles' : Told(f, j)'
    BY DEF NotifyInv
  <2>1. ~overlapped[j] /\ ~(j = i /\ Overlaps(c, code, i))
    BY <1>9
  <2>2. CurrentState(j)' = CurrentState(j)
    BY <1>2 DEF CurrentState
  <2>3. ~Changes(c, j)
    BY <1>8 DEF Changes, ChangesState
  <2>4. \A d \in Client \ {c} : Changes(d, j)' = Changes(d, j)
    BY <1>7 DEF Changes
  <2>5. Changes(c, j)' => \A d \in Client \ {c} : ~Changes(d, j)
    BY <2>1, <1>5, <1>7 DEF Changes, Overlaps
  <2>6. \A d, e \in Client : Changes(d, j)' /\ Changes(e, j)' => d = e
    BY <2>1, <2>3, <2>4, <2>5, <1>1 DEF NotifyInv
  <2>7. ASSUME NEW f \in m_deviceFiles PROVE Told(f, j)'
    <3>1. Told(f, j) /\ last'[f][j] = last[f][j]
      BY <1>1, <1>10, <2>1 DEF NotifyInv, TypeOK
    <3>2. QED
      BY <3>1, <2>2, <2>3, <2>4, <1>7 DEF Told, At
  <2>8. ASSUME NEW d \in Client, Changes(d, j)'
        PROVE  /\ request'[d].at \in {"update", "raise", "push", "destroy"} =>
                      m_sessions'[j] # None /\ request'[d].held = {m_sessions'[j]}
               /\ request'[d].at \in {"raise", "push"} => request'[d].state = CurrentState(j)'
               /\ request'[d].code = "SESSION_DEINIT"
                      /\ request'[d].at \in {"raise", "push", "destroy"} =>
                          CurrentState(j)' = "Deinitialized"
    <3>1. CASE d = c
      BY <3>1, <1>5, <1>7
    <3>2. CASE d # c
      <4>1. Changes(d, j) /\ request'[d] = request[d]
        BY <3>2, <2>4, <2>8, <1>7
      <4>2. QED
        BY <4>1, <2>1, <2>2, <1>1, <1>2 DEF NotifyInv
    <3>3. QED
      BY <3>1, <3>2
  <2>9. QED
    BY <2>6, <2>7, <2>8, <1>2
<1>18. ASSUME NEW d \in Client PROVE Answer(d)'
  <2>1. CASE d = c
    BY <2>1, <1>5, <1>7, <1>11 DEF Answer, Asking, At
  <2>2. CASE d # c
    <3>1. request'[d] = request[d] /\ promise'[d] = promise[d] /\ Answer(d)
      BY <2>2, <1>1, <1>7, <1>11 DEF AnswerInv
    <3>2. /\ Asking(d)' = Asking(d) /\ At(d, "idle")' = At(d, "idle")
          /\ \A n : Fits(d, n)' = Fits(d, n)
      BY <3>1, <1>2 DEF Asking, At, Fits, Of
    <3>3. QED
      BY <3>1, <3>2, <1>2 DEF Answer
  <2>3. QED
    BY <2>1, <2>2
<1>19. QED
  BY <1>7, <1>12, <1>13, <1>14, <1>15, <1>16, <1>17, <1>18 DEF IInv, AnswerInv

\* A call that does not reach the driver.
LEMMA PromiseOnly ==
  ASSUME IInv, NEW c \in Client, At(c, "idle"), NEW outcome \in {"none", "kept", "broken"},
         promise' = [promise EXCEPT ![c] = outcome], UNCHANGED vars
  PROVE  IInv'
<1>1. UNCHANGED <<request, m_sessions, session, generator, terminated, m_deviceFiles, last,
                  overlapped, balance>>
  BY DEF vars, sessionVars, fileVars, historyVars
<1>2. /\ TypeOK /\ AnswerInv
      /\ promise' \in [Client -> {"none", "kept", "broken"}]
      /\ \A d \in Client \ {c} : promise'[d] = promise[d]
  BY DEF IInv, TypeOK
<1>3. TypeOK'
  BY <1>1, <1>2 DEF TypeOK
<1>4. /\ \A s \in Slot : Holders(s)' = Holders(s) /\ InTable(s)' = InTable(s)
      /\ FreeSlots' = FreeSlots /\ Initializing' = Initializing
      /\ \A i : Created(i)' = Created(i) /\ Removed(i)' = Removed(i)
      /\ \A i : CurrentState(i)' = CurrentState(i)
      /\ FreeThreads' = FreeThreads /\ Starting' = Starting
  BY <1>1 DEF Holders, InTable, FreeSlots, FreeSlot, Initializing, Created, Removed, At,
         CurrentState, FreeThreads, Starting
<1>5. Control' /\ SlotsLeft' /\ Owned' /\ Balanced'
  BY <1>1, <1>4 DEF IInv, Control, SlotsLeft, Owned, FreeSlot, Balanced
<1>6. ThreadInv'
  BY <1>1, <1>4 DEF IInv, ThreadInv, OneHandle, ThreadsLeft
<1>7. NotifyInv'
  BY <1>1, <1>4 DEF IInv, NotifyInv, Told, Changes, At
<1>8. ASSUME NEW d \in Client PROVE Answer(d)'
  <2>1. /\ Answer(d) /\ Asking(d)' = Asking(d) /\ At(d, "idle")' = At(d, "idle")
        /\ \A n : Fits(d, n)' = Fits(d, n)
    BY <1>1, <1>2 DEF AnswerInv, Asking, At, Fits, Of
  <2>2. ~At(d, "idle") => promise'[d] = "none"
    BY <2>1, <1>2 DEF Answer
  <2>3. QED
    BY <2>1, <2>2, <1>1 DEF Answer
<1>9. QED
  BY <1>3, <1>5, <1>6, <1>7, <1>8 DEF IInv, AnswerInv

\* Only the initialization of a session and the start of its generator take storage,
\* and each asks whether some is left.
LEMMA CallSteps ==
  ASSUME IInv, NEW c \in Client, Calls(c)
  PROVE  IInv'
<1> DEFINE NotReached == FailsWithException(c) \/ FailsSilently(c)
<1>1. ASSUME At(c, "idle"), NotReached PROVE IInv'
  BY <1>1, PromiseOnly DEF FailsWithException, FailsSilently, Keeps, Breaks
<1>2. None # "start"
  BY IoctlAssumption DEF Events
<1>3. ASSUME At(c, "idle"), NEW code \in OfTheDevice \ {"none"},
             DeviceIoControl(c, code, None, None, 0)
      PROVE  IInv'
  <2>1. /\ code \in Codes \ {"none"} /\ code # "SESSION_INIT"
        /\ code # "SIM_TRIGGER_SESSION_EVENT"
    BY DEF Codes, OfTheDevice
  <2>2. QED
    BY <1>2, <1>3, <2>1, IoctlSent
<1>4. ASSUME At(c, "idle"), NEW i \in SessionId, NEW size \in Nat,
             NEW arg \in MulticastActions \cup {None},
             NEW code \in Codes \ ({"SESSION_INIT", "SIM_TRIGGER_SESSION_EVENT"} \cup OfTheDevice),
             DeviceIoControl(c, code, i, arg, size)
      PROVE  IInv'
  <2>1. /\ code \in Codes \ {"none"} /\ code # "SESSION_INIT"
        /\ code # "SIM_TRIGGER_SESSION_EVENT"
    BY DEF OfTheDevice
  <2>2. arg # "start"
    BY <1>2 DEF MulticastActions
  <2>3. QED
    BY <1>4, <2>1, <2>2, IoctlSent
<1>5. ASSUME Reset(c) \/ GetDeviceInformation(c) \/ GetCapabilities(c)
                \/ GetSessionCount(c) \/ GetSimulatorCapabilites(c)
                \/ SessionGetRangingCount(c)
      PROVE  IInv'
  <2>1. {"DEVICE_RESET", "GET_DEVICE_INFO", "GET_DEVICE_CAPABILITIES", "GET_SESSION_COUNT",
         "SIM_GET_CAPABILITIES"} \subseteq OfTheDevice \ {"none"}
    BY DEF OfTheDevice
  <2>2. /\ At(c, "idle")
        /\ \/ NotReached
           \/ \E code \in OfTheDevice \ {"none"} : DeviceIoControl(c, code, None, None, 0)
    BY <1>5, <2>1 DEF Reset, GetDeviceInformation, GetCapabilities, GetSessionCount,
         GetSimulatorCapabilites, SessionGetRangingCount
  <2>3. QED
    BY <2>2, <1>1, <1>3
<1>6. ASSUME NEW i \in SessionId, ConnectorSessionInitialize(c, i) PROVE IInv'
  <2>1. CASE DeviceIoControl(c, "SESSION_INIT", i, None, 0)
    <3>1. "SESSION_INIT" \in Codes \ {"none"}
      BY DEF Codes
    <3>2. At(c, "idle") /\ Cardinality(Initializing) < Cardinality(FreeSlots)
      BY <1>6 DEF ConnectorSessionInitialize, Initializing
    <3>3. QED
      BY <1>2, <2>1, <3>1, <3>2, IoctlSent
  <2>2. QED
    BY <1>1, <1>6, <2>1 DEF ConnectorSessionInitialize
<1>7. ASSUME NEW i \in SessionId, NEW action \in Events, TriggerSessionEvent(c, i, action)
      PROVE  IInv'
  <2>1. CASE DeviceIoControl(c, "SIM_TRIGGER_SESSION_EVENT", i, action, 0)
    <3>1. "SIM_TRIGGER_SESSION_EVENT" \in Codes \ {"none"}
      BY DEF Codes
    <3>2. /\ At(c, "idle")
          /\ Cardinality({d \in Client : request[d].arg = "start" /\ request[d].thread = None})
                < Cardinality(FreeThreads)
      BY <1>7 DEF TriggerSessionEvent
    <3>3. QED
      BY <2>1, <3>1, <3>2, IoctlSent
  <2>2. QED
    BY <1>1, <1>7, <2>1 DEF TriggerSessionEvent
<1>8. ASSUME NEW i \in SessionId,
             \/ SessionDeinitialize(c, i) \/ SessionGetState(c, i)
             \/ SessionRangingStart(c, i) \/ SessionRangingStop(c, i)
             \/ GetApplicationConfigurationParameters(c, i)
             \/ \E n \in 1 .. MaxParameters : SetApplicationConfigurationParameters(c, i, n)
             \/ \E list \in MulticastActions : UpdateControllerMulticastList(c, i, list)
      PROVE  IInv'
  <2>1. {"SESSION_DEINIT", "GET_SESSION_STATE", "START_RANGING_SESSION",
         "STOP_RANGING_SESSION", "GET_APP_CONFIG_PARAMS", "SET_APP_CONFIG_PARAMS",
         "SESSION_UPDATE_CONTROLLER_MULTICAST_LIST"}
            \subseteq Codes \ ({"SESSION_INIT", "SIM_TRIGGER_SESSION_EVENT"} \cup OfTheDevice)
    BY DEF Codes, OfTheDevice
  <2>2. 1 .. MaxParameters \subseteq Nat
    BY SimulatorAssumption
  <2>3. At(c, "idle")
    BY <1>8 DEF SessionDeinitialize, SessionGetState, SessionRangingStart, SessionRangingStop,
         GetApplicationConfigurationParameters, SetApplicationConfigurationParameters,
         UpdateControllerMulticastList
  <2>4. \/ NotReached
        \/ \E code \in {"SESSION_DEINIT", "GET_SESSION_STATE", "START_RANGING_SESSION",
                        "STOP_RANGING_SESSION", "GET_APP_CONFIG_PARAMS"} :
                DeviceIoControl(c, code, i, None, 0)
        \/ \E n \in 1 .. MaxParameters : DeviceIoControl(c, "SET_APP_CONFIG_PARAMS", i, None, n)
        \/ \E list \in MulticastActions :
                DeviceIoControl(c, "SESSION_UPDATE_CONTROLLER_MULTICAST_LIST", i, list, 0)
    BY <1>8 DEF SessionDeinitialize, SessionGetState, SessionRangingStart, SessionRangingStop,
         GetApplicationConfigurationParameters, SetApplicationConfigurationParameters,
         UpdateControllerMulticastList
  <2>5. CASE NotReached
    BY <1>1, <2>3, <2>5
  <2>6. ASSUME NEW code \in {"SESSION_DEINIT", "GET_SESSION_STATE", "START_RANGING_SESSION",
                             "STOP_RANGING_SESSION", "GET_APP_CONFIG_PARAMS"},
               DeviceIoControl(c, code, i, None, 0)
        PROVE  IInv'
    BY <1>4, <2>1, <2>3, <2>6
  <2>7. ASSUME NEW n \in 1 .. MaxParameters,
               DeviceIoControl(c, "SET_APP_CONFIG_PARAMS", i, None, n)
        PROVE  IInv'
    BY <1>4, <2>1, <2>2, <2>3, <2>7
  <2>8. ASSUME NEW list \in MulticastActions,
               DeviceIoControl(c, "SESSION_UPDATE_CONTROLLER_MULTICAST_LIST", i, list, 0)
        PROVE  IInv'
    BY <1>4, <2>1, <2>3, <2>8
  <2>9. QED
    BY <2>4, <2>5, <2>6, <2>7, <2>8
<1>9. QED
  BY <1>5, <1>6, <1>7, <1>8 DEF Calls

\* What the client learns from an answer: a session created, or one removed.
Learnt(c) == IF request[c].status # "Ok" THEN 0
             ELSE CASE request[c].code = "SESSION_INIT" -> 1
                    [] request[c].code = "SESSION_DEINIT" -> -1
                    [] OTHER -> 0

\* An answer that arrives leaves the sum of what was told and what is on its way.
LEMMA ResolveBalances ==
  ASSUME IInv, NEW c \in Client, Completed(c), Resolves(c)
  PROVE  Balanced' /\ balance' \in [SessionId -> Int]
<1>1. /\ TypeOK /\ Balanced /\ Sound(request[c])
      /\ request[c].at = "release"
  BY DEF IInv, Control, Completed, At
<1>2. /\ request' = [request EXCEPT ![c] = Idle]
      /\ balance' = [i \in SessionId |->
            IF i = request[c].id THEN balance[i] + Learnt(c) ELSE balance[i]]
      /\ m_sessions' = m_sessions
  BY DEF Resolves, Learnt, sessionVars
<1>3. /\ request'[c] = Idle /\ \A d \in Client \ {c} : request'[d] = request[d]
      /\ Idle.code = "none"
  BY <1>1, <1>2 DEF TypeOK, Idle
<1>4. Learnt(c) \in Int
  BY DEF Learnt
<1>5. balance' \in [SessionId -> Int]
  BY <1>1, <1>2, <1>4 DEF TypeOK
<1>6. ASSUME NEW i \in SessionId
      PROVE balance'[i] + Cardinality(Created(i)') - Cardinality(Removed(i)')
              = IF m_sessions'[i] = None THEN 0 ELSE 1
  <2>1. balance[i] + Cardinality(Created(i)) - Cardinality(Removed(i))
          = IF m_sessions[i] = None THEN 0 ELSE 1
    BY <1>1 DEF Balanced
  <2>2. /\ Cardinality(Created(i)) \in Nat /\ Cardinality(Removed(i)) \in Nat
        /\ balance[i] \in Int
    BY Finite, FS_CardinalityType, <1>1 DEF TypeOK
  <2>3. Created(i)' = Created(i) \ {c}
    <3>1. \A d \in Client : d \in Created(i)' <=> d \in Created(i) /\ d # c
      BY <1>3 DEF Created, At
    <3>2. QED
      BY <3>1 DEF Created
  <2>4. Removed(i)' = Removed(i) \ {c}
    <3>1. \A d \in Client : d \in Removed(i)' <=> d \in Removed(i) /\ d # c
      BY <1>3 DEF Removed, At
    <3>2. QED
      BY <3>1 DEF Removed
  <2>5. /\ c \in Created(i) =>
              /\ c \notin Removed(i) /\ balance'[i] = balance[i] + 1
              /\ Cardinality(Created(i)') = Cardinality(Created(i)) - 1
        /\ c \in Removed(i) =>
              /\ c \notin Created(i) /\ balance'[i] = balance[i] - 1
              /\ Cardinality(Removed(i)') = Cardinality(Removed(i)) - 1
    <3>1. c \in Created(i) => request[c].id = i /\ Learnt(c) = 1 /\ c \notin Removed(i)
      BY DEF Created, Removed, Learnt
    <3>2. c \in Removed(i) => request[c].id = i /\ Learnt(c) = -1 /\ c \notin Created(i)
      BY DEF Created, Removed, Learnt
    <3>3. c \in Created(i) => Cardinality(Created(i) \ {c}) = Cardinality(Created(i)) - 1
      BY Finite, FS_RemoveElement
    <3>4. c \in Removed(i) => Cardinality(Removed(i) \ {c}) = Cardinality(Removed(i)) - 1
      BY Finite, FS_RemoveElement
    <3>5. Learnt(c) = -1 => balance[i] + Learnt(c) = balance[i] - 1
      BY <2>2
    <3>6. QED
      BY <1>2, <2>3, <2>4, <3>1, <3>2, <3>3, <3>4, <3>5
  <2>6. c \notin Created(i) /\ c \notin Removed(i) =>
            /\ balance'[i] = balance[i]
            /\ Created(i)' = Created(i) /\ Removed(i)' = Removed(i)
    <3>1. ASSUME c \notin Created(i), c \notin Removed(i), request[c].id = i
          PROVE  Learnt(c) = 0
      <4>1. \/ request[c].status # "Ok"
            \/ request[c].code \notin {"SESSION_INIT", "SESSION_DEINIT"}
        BY <1>1, <3>1 DEF Created, Removed
      <4>2. QED
        BY <4>1 DEF Learnt
    <3>2. QED
      BY <1>2, <2>2, <2>3, <2>4, <3>1
  <2>7. c \notin Created(i) => Created(i)' = Created(i)
    BY <2>3
  <2>8. c \notin Removed(i) => Removed(i)' = Removed(i)
    BY <2>4
  <2>9. CASE c \in Created(i)
    BY <2>1, <2>2, <2>5, <2>8, <2>9, <1>2
  <2>10. CASE c \in Removed(i)
    BY <2>1, <2>2, <2>5, <2>7, <2>10, <1>2
  <2>11. CASE c \notin Created(i) /\ c \notin Removed(i)
    BY <2>1, <2>6, <2>11, <1>2
  <2>12. QED
    BY <2>9, <2>10, <2>11
<1>7. QED
  BY <1>5, <1>6 DEF Balanced

LEMMA ResolveSteps ==
  ASSUME IInv, NEW c \in Client, Completed(c), Resolves(c)
  PROVE  IInv'
<1>1. /\ TypeOK /\ Control /\ Owned /\ SlotsLeft /\ ThreadInv /\ NotifyInv /\ AnswerInv
      /\ Sound(request[c]) /\ request[c].at = "release" /\ request[c].held = {}
  BY DEF IInv, Control, Completed, At
<1>2. /\ request' = [request EXCEPT ![c] = Idle]
      /\ UNCHANGED <<m_sessions, session, generator, terminated, m_deviceFiles, last,
                     overlapped>>
      /\ promise' \in [Client -> {"none", "kept", "broken"}]
      /\ \A d \in Client \ {c} : promise'[d] = promise[d]
  BY <1>1 DEF Resolves, Keeps, Breaks, sessionVars, fileVars, TypeOK
<1>3. Idle \in Request
  BY DEF Idle, Request, Position, Codes, Status
<1>4. /\ Idle.at = "idle" /\ Idle.code = "none" /\ Idle.held = {} /\ Idle.thread = None
      /\ Idle.joins = None /\ Idle.status = "Ok" /\ Idle.attempt = 0 /\ Idle.arg = None
  BY DEF Idle
<1>5. Sound(Idle)
  <2>1. "idle" \in Places("none")
    BY DEF Places
  <2>2. None # "start"
    BY IoctlAssumption DEF Events
  <2>3. "none" \in OfTheDevice
    BY DEF OfTheDevice
  <2>4. QED
    BY <1>4, <2>1, <2>2, <2>3 DEF Sound, Works
<1>6. /\ request' \in [Client -> Request] /\ Control'
      /\ request'[c] = Idle /\ \A d \in Client \ {c} : request'[d] = request[d]
  BY <1>1, <1>2, <1>3, <1>5, Replaced
<1>7. Balanced' /\ balance' \in [SessionId -> Int]
  BY ResolveBalances
<1>8. TypeOK'
  BY <1>1, <1>2, <1>6, <1>7 DEF TypeOK, Resolves
<1>9. Owned' /\ FreeSlots' = FreeSlots
  <2>1. SameReferences
    BY <1>1, <1>2, <1>4, <1>6 DEF SameReferences
  <2>2. QED
    BY <1>1, <1>2, <2>1, OwnedKept
<1>10. SlotsLeft'
  <2>1. Initializing' \subseteq Initializing
    BY <1>4, <1>6 DEF Initializing, At
  <2>2. QED
    BY <2>1, <1>1, <1>9, SlotsLeftKept
<1>11. ThreadInv'
  <2>1. request[c].thread = None /\ request[c].joins = None
    BY <1>1 DEF Sound
  <2>2. SameThreads
    BY <2>1, <1>2, <1>4, <1>6 DEF SameThreads
  <2>3. Starting' \subseteq Starting
    BY <1>4, <1>6 DEF Starting
  <2>4. QED
    BY <2>2, <2>3, <1>1, <1>2, ThreadsKept
<1>12. NotifyInv'
  <2>1. \A j \in SessionId : CurrentState(j)' = CurrentState(j)
    BY <1>2 DEF CurrentState
  <2>2. \A d \in Client, j \in SessionId : Changes(d, j)' => d # c /\ Changes(d, j)
    BY <1>4, <1>6 DEF Changes, ChangesState
  <2>3. \A f \in m_deviceFiles, j \in SessionId : Told(f, j) => Told(f, j)'
    <3> SUFFICES ASSUME NEW f \in m_deviceFiles, NEW j \in SessionId, Told(f, j),
                        last[f][j] # CurrentState(j)
        PROVE  Told(f, j)'
      BY <1>2, <2>1 DEF Told
    <3>1. PICK d \in Client : /\ Changes(d, j)
                              /\ At(d, "raise") \/ (At(d, "push") /\ f \in request[d].targets)
      BY DEF Told
    <3>2. request'[d] = request[d]
      BY <3>1, <1>1, <1>6 DEF At
    <3>3. QED
      BY <3>1, <3>2 DEF Told, Changes, At
  <2>4. QED
    BY <1>1, <1>2, <1>6, <2>1, <2>2, <2>3 DEF NotifyInv
<1>13. ASSUME NEW d \in Client PROVE Answer(d)'
  <2>1. CASE d = c
    BY <2>1, <1>4, <1>6 DEF Answer, Asking, Answering, At
  <2>2. CASE d # c
    <3>1. request'[d] = request[d] /\ promise'[d] = promise[d] /\ Answer(d)
      BY <2>2, <1>1, <1>2, <1>6 DEF AnswerInv
    <3>2. /\ Asking(d)' = Asking(d) /\ At(d, "idle")' = At(d, "idle")
          /\ \A n : Fits(d, n)' = Fits(d, n)
      BY <3>1, <1>2 DEF Asking, At, Fits, Of
    <3>3. QED
      BY <3>1, <3>2, <1>2 DEF Answer
  <2>3. QED
    BY <2>1, <2>2
<1>14. QED
  BY <1>6, <1>7, <1>8, <1>9, <1>10, <1>11, <1>12, <1>13 DEF IInv, AnswerInv

-----------------------------------------------------------------------------
(* Files are opened and closed.                                            *)

\* Requests may differ in the files that they have yet to tell.
ButTargets(q, r) ==
    /\ r.at = q.at /\ r.code = q.code /\ r.id = q.id /\ r.arg = q.arg /\ r.held = q.held
    /\ r.state = q.state /\ r.thread = q.thread /\ r.joins = q.joins /\ r.size = q.size
    /\ r.needed = q.needed /\ r.status = q.status /\ r.attempt = q.attempt
    /\ r.grown = q.grown

LEMMA FilesKeep ==
  ASSUME IInv, UNCHANGED <<sessionVars, historyVars, promise>>,
         request' \in [Client -> Request],
         \A d \in Client : ButTargets(request[d], request'[d]),
         m_deviceFiles' \subseteq Listener,
         last' \in [Listener -> [SessionId -> SessionState \cup {None}]],
         \A f \in m_deviceFiles', i \in SessionId : ~overlapped[i] => Told(f, i)'
  PROVE  IInv'
<1>1. /\ TypeOK /\ Control /\ Owned /\ SlotsLeft /\ ThreadInv /\ Balanced /\ NotifyInv
      /\ AnswerInv
      /\ UNCHANGED <<m_sessions, session, generator, terminated, overlapped, balance>>
  BY DEF IInv, sessionVars, historyVars
<1>2. TypeOK'
  BY <1>1 DEF TypeOK
<1>3. ASSUME NEW d \in Client PROVE Sound(request'[d])
  <2>1. Sound(request[d]) /\ ButTargets(request[d], request'[d])
    BY <1>1 DEF Control
  <2>2. Works(request'[d]) <=> Works(request[d])
    BY <2>1 DEF Works, ButTargets
  <2>3. QED
    BY <2>1, <2>2 DEF Sound, ButTargets
<1>4. Owned' /\ FreeSlots' = FreeSlots
  <2>1. SameReferences
    BY <1>1 DEF SameReferences, ButTargets
  <2>2. QED
    BY <1>1, <2>1, OwnedKept
<1>5. SlotsLeft'
  <2>1. Initializing' \subseteq Initializing
    BY DEF Initializing, At, ButTargets
  <2>2. QED
    BY <2>1, <1>1, <1>4, SlotsLeftKept
<1>6. ThreadInv'
  <2>1. SameThreads
    BY <1>1 DEF SameThreads, ButTargets
  <2>2. Starting' \subseteq Starting
    BY DEF Starting, ButTargets
  <2>3. QED
    BY <2>1, <2>2, <1>1, ThreadsKept
<1>7. Balanced'
  <2>1. \A i \in SessionId : Created(i)' = Created(i) /\ Removed(i)' = Removed(i)
    BY DEF Created, Removed, At, ButTargets
  <2>2. QED
    BY <1>1, <2>1 DEF Balanced
<1>8. NotifyInv'
  <2>1. \A i \in SessionId : CurrentState(i)' = CurrentState(i)
    BY <1>1 DEF CurrentState
  <2>2. \A d \in Client, i \in SessionId : Changes(d, i)' = Changes(d, i)
    BY DEF Changes, ButTargets
  <2>3. QED
    BY <1>1, <2>1, <2>2 DEF NotifyInv, ButTargets
<1>9. ASSUME NEW d \in Client PROVE Answer(d)'
  <2>1. Answer(d) /\ ButTargets(request[d], request'[d])
    BY <1>1 DEF AnswerInv
  <2>2. Asking(d)' = Asking(d) /\ At(d, "idle")' = At(d, "idle")
    BY <2>1 DEF Asking, At, ButTargets
  <2>3. \A n : Fits(d, n) => Fits(d, n)'
    <3>1. Of(d)' = Of(d)
      BY <2>1 DEF Of, ButTargets
    <3>2. QED
      BY <2>1, <3>1, <1>1 DEF Fits, ButTargets
  <2>4. QED
    BY <2>1, <2>2, <2>3, <1>1 DEF Answer, ButTargets
<1>10. QED
  BY <1>2, <1>3, <1>4, <1>5, <1>6, <1>7, <1>8, <1>9 DEF IInv, Control, AnswerInv

\* Who opens a file knows the states.  A change that is on its way has already
\* written the state that the file's reader finds.
LEMMA FileOpened ==
  ASSUME IInv, NEW f \in Listener, OnFileCreate(f), UNCHANGED promise
  PROVE  IInv'
<1>1. /\ TypeOK /\ NotifyInv
      /\ m_deviceFiles' = m_deviceFiles \cup {f}
      /\ last' = [last EXCEPT ![f] = [i \in SessionId |->
                        IF overlapped[i] THEN None ELSE CurrentState(i)]]
      /\ request' = request
      /\ UNCHANGED <<sessionVars, historyVars, promise, m_sessions, session>>
  BY DEF IInv, OnFileCreate, sessionVars
<1>2. /\ request' \in [Client -> Request] /\ m_deviceFiles' \subseteq Listener
      /\ \A d \in Client : ButTargets(request[d], request'[d])
  BY <1>1 DEF TypeOK, ButTargets
<1>3. \A i \in SessionId : CurrentState(i) \in SessionState
  BY <1>1 DEF CurrentState, TypeOK, SessionState
<1>4. last' \in [Listener -> [SessionId -> SessionState \cup {None}]]
  BY <1>1, <1>3 DEF TypeOK
<1>5. ASSUME NEW g \in m_deviceFiles', NEW i \in SessionId, ~overlapped[i]
      PROVE  Told(g, i)'
  <2>1. CurrentState(i)' = CurrentState(i)
    BY <1>1 DEF CurrentState
  <2>2. CASE g = f
    <3>1. last'[f][i] = CurrentState(i)
      BY <1>1, <1>5 DEF TypeOK
    <3>2. QED
      BY <2>1, <2>2, <3>1 DEF Told
  <2>3. CASE g # f
    <3>1. Told(g, i) /\ last'[g][i] = last[g][i]
      BY <2>3, <1>1, <1>5 DEF NotifyInv, TypeOK
    <3>2. QED
      BY <2>1, <3>1, <1>1 DEF Told, Changes, At
  <2>4. QED
    BY <2>2, <2>3
<1>6. QED
  BY <1>1, <1>2, <1>4, <1>5, FilesKeep

LEMMA FileClosed ==
  ASSUME IInv, NEW f \in Listener, OnFileClose(f), UNCHANGED promise
  PROVE  IInv'
<1>1. /\ TypeOK /\ NotifyInv
      /\ m_deviceFiles' = m_deviceFiles \ {f}
      /\ last' = [last EXCEPT ![f] = [i \in SessionId |-> None]]
      /\ request' = [c \in Client |-> [request[c] EXCEPT !.targets = request[c].targets \ {f}]]
      /\ UNCHANGED <<sessionVars, historyVars, promise, m_sessions, session>>
  BY DEF IInv, OnFileClose, sessionVars
<1>2. ASSUME NEW d \in Client
      PROVE  /\ request'[d] \in Request /\ ButTargets(request[d], request'[d])
             /\ request'[d].targets = request[d].targets \ {f}
  <2>1. request[d] \in Request /\ request[d].targets \ {f} \in SUBSET Listener
    BY <1>1 DEF TypeOK, Request
  <2>2. request'[d] = [request[d] EXCEPT !.targets = request[d].targets \ {f}]
    BY <1>1
  <2>3. QED
    BY <2>1, <2>2 DEF Request, ButTargets
<1>3. request' \in [Client -> Request] /\ m_deviceFiles' \subseteq Listener
  BY <1>1, <1>2 DEF TypeOK
<1>4. last' \in [Listener -> [SessionId -> SessionState \cup {None}]]
  BY <1>1 DEF TypeOK
<1>5. ASSUME NEW g \in m_deviceFiles', NEW i \in SessionId, ~overlapped[i]
      PROVE  Told(g, i)'
  <2>1. CurrentState(i)' = CurrentState(i)
    BY <1>1 DEF CurrentState
  <2>2. g # f /\ g \in m_deviceFiles
    BY <1>1, <1>5
  <2>3. Told(g, i) /\ last'[g][i] = last[g][i]
    BY <2>2, <1>1, <1>5 DEF NotifyInv, TypeOK
  <2>4. \A d \in Client : Changes(d, i)' = Changes(d, i) /\ request'[d].at = request[d].at
    BY <1>2 DEF Changes, ButTargets
  <2>5. \A d \in Client : g \in request[d].targets => g \in request'[d].targets
    BY <2>2, <1>2
  <2>6. QED
    BY <2>1, <2>3, <2>4, <2>5 DEF Told, At
<1>6. QED
  BY <1>1, <1>2, <1>3, <1>4, <1>5, FilesKeep

-----------------------------------------------------------------------------
(* The invariant.                                                          *)

LEMMA InitIInv == IoctlInit => IInv
<1> SUFFICES ASSUME IoctlInit PROVE IInv
  OBVIOUS
<1>1. /\ request = [c \in Client |-> Idle]
      /\ m_sessions = [i \in SessionId |-> None]
      /\ session = [s \in Slot |-> NewSession]
      /\ generator = [g \in Generator |-> NoThread]
      /\ terminated = FALSE /\ m_deviceFiles = {}
      /\ last = [f \in Listener |-> [i \in SessionId |-> None]]
      /\ overlapped = [i \in SessionId |-> FALSE]
      /\ balance = [i \in SessionId |-> 0]
      /\ promise = [c \in Client |-> "none"]
  BY DEF IoctlInit, Init
<1>2. /\ Idle.at = "idle" /\ Idle.code = "none" /\ Idle.held = {} /\ Idle.thread = None
      /\ Idle.joins = None /\ Idle.status = "Ok" /\ Idle.attempt = 0 /\ Idle.arg = None
      /\ NewSession.Thread = None /\ NoThread.session = None
  BY DEF Idle, NewSession, NoThread
<1>3. Idle \in Request
  BY DEF Idle, Request, Position, Codes, Status
<1>4. TypeOK
  <2>1. NewSession \in [State : SessionState, Enabled : BOOLEAN,
                        Thread : Generator \cup {None}, Parameters : Nat]
    BY DEF NewSession, SessionState
  <2>2. NoThread \in [session : Slot \cup {None}, stop : BOOLEAN, done : BOOLEAN]
    BY DEF NoThread
  <2>3. /\ request \in [Client -> Request]
        /\ m_sessions \in [SessionId -> Slot \cup {None}]
    BY <1>1, <1>3
  <2>4. /\ session \in [Slot -> [State : SessionState, Enabled : BOOLEAN,
                                 Thread : Generator \cup {None}, Parameters : Nat]]
        /\ generator \in [Generator -> [session : Slot \cup {None}, stop : BOOLEAN,
                                        done : BOOLEAN]]
    BY <1>1, <2>1, <2>2
  <2>5. last \in [Listener -> [SessionId -> SessionState \cup {None}]]
    BY <1>1
  <2>6. /\ overlapped \in [SessionId -> BOOLEAN] /\ balance \in [SessionId -> Int]
        /\ promise \in [Client -> {"none", "kept", "broken"}]
    BY <1>1
  <2>7. terminated \in BOOLEAN /\ m_deviceFiles \subseteq Listener
    BY <1>1
  <2>8. QED
    BY <2>3, <2>4, <2>5, <2>6, <2>7 DEF TypeOK
<1>5. Control
  <2>1. "idle" \in Places("none") /\ "none" \in OfTheDevice
    BY DEF Places, OfTheDevice
  <2>2. None # "start"
    BY IoctlAssumption DEF Events
  <2>3. Sound(Idle)
    BY <1>2, <2>1, <2>2 DEF Sound, Works
  <2>4. QED
    BY <1>1, <2>3 DEF Control
<1>6. Owned
  BY <1>1, <1>2 DEF Owned
<1>7. SlotsLeft
  <2>1. Initializing = {}
    BY <1>1, <1>2 DEF Initializing
  <2>2. QED
    BY <2>1, Finite, FS_EmptySet, FS_CardinalityType DEF SlotsLeft
<1>8. ThreadInv
  <2>1. OneHandle
    BY <1>1, <1>2 DEF OneHandle
  <2>2. Starting = {}
    BY <1>1, <1>2 DEF Starting
  <2>3. ThreadsLeft
    BY <2>2, Finite, FS_EmptySet, FS_CardinalityType DEF ThreadsLeft
  <2>4. QED
    BY <2>1, <2>3 DEF ThreadInv
<1>9. Balanced
  <2>1. \A i \in SessionId : Created(i) = {} /\ Removed(i) = {}
    BY <1>1, <1>2 DEF Created, Removed
  <2>2. Cardinality({}) = 0
    BY FS_EmptySet
  <2>3. ASSUME NEW i \in SessionId
        PROVE  balance[i] + Cardinality(Created(i)) - Cardinality(Removed(i))
                  = IF m_sessions[i] = None THEN 0 ELSE 1
    <3>1. balance[i] = 0 /\ m_sessions[i] = None
      BY <1>1
    <3>2. QED
      BY <2>1, <2>2, <3>1
  <2>4. QED
    BY <2>3 DEF Balanced
<1>10. NotifyInv
  BY <1>1, <1>2 DEF NotifyInv, Changes, ChangesState
<1>11. AnswerInv
  BY <1>1, <1>2 DEF AnswerInv, Answer, At, Asking, Answering
<1>12. QED
  BY <1>4, <1>5, <1>6, <1>7, <1>8, <1>9, <1>10, <1>11 DEF IInv

LEMMA Stutters ==
  ASSUME IInv, UNCHANGED allVars
  PROVE  IInv'
<1>1. /\ UNCHANGED <<sessionVars, historyVars, promise, request, m_deviceFiles, last, m_sessions,
                     session>>
      /\ TypeOK /\ NotifyInv
  BY DEF IInv, allVars, vars, fileVars, sessionVars
<1>2. \A f \in m_deviceFiles, i \in SessionId : ~overlapped[i] => Told(f, i)'
  BY <1>1 DEF NotifyInv, Told, Changes, At, CurrentState
<1>3. QED
  BY <1>1, <1>2, FilesKeep DEF TypeOK, ButTargets

\* A step of a client's request: of its handler, or of the call that waits for it.
LEMMA RunSteps ==
  ASSUME IInv, NEW c \in Client, Runs(c)
  PROVE  IInv'
<1>1. CASE Completes(c)
  BY <1>1, RetrySteps, ResolveSteps DEF Completes
<1>2. CASE Dispatch(c) /\ UNCHANGED promise
  <2>1. ~terminated
    BY DEF Runs
  <2>2. CASE \/ OnUwbDeviceReset(c) \/ OnUwbGetSessionCount(c)
             \/ OnUwbSimulatorCapabilities(c) \/ OnUwbGetSessionState(c)
             \/ OnUwbSessionStartRanging(c) \/ OnUwbSessionUpdateControllerMulticastList(c)
    BY <1>2, <2>2, CalmSteps
  <2>3. CASE OnUwbGetDeviceInformation(c) \/ OnUwbGetDeviceCapabilities(c)
    BY <1>2, <2>3, DeviceAnswers
  <2>4. CASE \/ OnUwbSessionInitialize(c) \/ OnUwbSessionDeinitialize(c)
             \/ OnUwbSessionStopRanging(c)
    BY <1>2, <2>4, ChangerSteps
  <2>5. CASE OnUwbSetApplicationConfigurationParameters(c)
    BY <1>2, <2>5, SetSteps
  <2>6. CASE OnUwbGetApplicationConfigurationParameters(c)
    BY <1>2, <2>6, GetSteps
  <2>7. CASE OnUwbSimulatorTriggerSessionEvent(c)
    BY <1>2, <2>1, <2>7, TriggerSteps
  <2>8. CASE Returns(c)
    BY <1>2, <2>1, <2>8, ReturnSteps
  <2>9. QED
    BY <1>2, <2>2, <2>3, <2>4, <2>5, <2>6, <2>7, <2>8 DEF Dispatch
<1>3. QED
  BY <1>1, <1>2 DEF Runs

LEMMA NextIInv == IInv /\ [Next]_allVars => IInv'
<1> SUFFICES ASSUME IInv, [Next]_allVars PROVE IInv'
  OBVIOUS
<1>1. ASSUME NEW c \in Client, Calls(c) PROVE IInv'
  BY <1>1, CallSteps
<1>2. ASSUME NEW c \in Client, Runs(c) PROVE IInv'
  BY <1>2, RunSteps
<1>3. ASSUME NEW g \in Generator, Measures(g), UNCHANGED promise PROVE IInv'
  BY <1>3, MeasuresSteps
<1>4. ASSUME NEW f \in Listener, OnFileCreate(f) \/ OnFileClose(f), UNCHANGED promise
      PROVE  IInv'
  BY <1>4, FileOpened, FileClosed
<1>5. ASSUME Terminated \/ UNCHANGED allVars PROVE IInv'
  BY <1>5, Stutters DEF Terminated
<1>6. QED
  BY <1>1, <1>2, <1>3, <1>4, <1>5 DEF Next

-----------------------------------------------------------------------------
(* The theorems.                                                           *)

\* The invariant holds in every reachable state.
THEOREM Invariance == Spec => []IInv
  BY InitIInv, NextIInv, PTL DEF Spec

\* Whoever opens a file of notifications and asks for the states, however the
\* changes of them race with the opening, knows each of them once the changes have
\* come to rest: SessionUpdateState writes before it copies the list of the files.
THEOREM LastNotificationIsStateHolds == Spec => []LastNotificationIsState
<1>1. IInv => LastNotificationIsState
  <2> SUFFICES ASSUME IInv, NEW i \in SessionId, ~Changing(i), ~overlapped[i],
                      NEW f \in m_deviceFiles
      PROVE  last[f][i] = CurrentState(i)
    BY DEF LastNotificationIsState
  <2>1. Told(f, i)
    BY DEF IInv, NotifyInv
  <2>2. QED
    BY <2>1 DEF Told, Changes, Changing
<1>2. QED
  BY <1>1, Invariance, PTL

\* The Ok answers to initializations and removals of an id, however the requests
\* race, add up to whether the table has it: try_emplace and extract decide.
THEOREM OkMatchesTableHolds == Spec => []OkMatchesTable
<1>1. IInv => OkMatchesTable
  <2> SUFFICES ASSUME IInv, NEW i \in SessionId, ~Changing(i)
      PROVE  balance[i] = IF m_sessions[i] = None THEN 0 ELSE 1
    BY DEF OkMatchesTable
  <2>1. Created(i) = {} /\ Removed(i) = {}
    BY DEF Created, Removed, Changing, ChangesState
  <2>2. /\ balance[i] \in Int
        /\ balance[i] + Cardinality(Created(i)) - Cardinality(Removed(i))
              = IF m_sessions[i] = None THEN 0 ELSE 1
    BY DEF IInv, TypeOK, Balanced
  <2>3. QED
    BY <2>1, <2>2, FS_EmptySet
<1>2. QED
  BY <1>1, Invariance, PTL

\* As long as no assignment finds the handle taken, which ends the process, the
\* thread that generates measurements has the session that it refers to, and is the
\* one that the session's handle refers to, or that of a start on its way.
THEOREM OneGeneratorHolds == Spec => []OneGenerator
<1>1. IInv => OneGenerator
  <2> SUFFICES ASSUME IInv, ~terminated PROVE
        /\ \A g \in Generator : Running(g) => ~FreeSlot(generator[g].session)
        /\ \A s \in Slot :
              (\A c \in Client : s \in request[c].held => request[c].arg # "start")
                => Cardinality({g \in Generator : generator[g] =
                        [session |-> s, stop |-> FALSE, done |-> FALSE]}) <= 1
    BY DEF OneGenerator
  <2>1. TypeOK /\ Control /\ Owned /\ OneHandle
    BY DEF IInv, ThreadInv
  <2>2. ASSUME NEW g \in Generator, generator[g].session # None
        PROVE  /\ generator[g].session \in Slot
               /\ \/ session[generator[g].session].Thread = g
                  \/ \E c \in Client : /\ request[c].held = {generator[g].session}
                                       /\ request[c].arg = "start"
    <3>1. generator[g].session \in Slot /\ g # None
      BY <2>1, <2>2, SimulatorAssumption DEF TypeOK
    <3>2. \/ session[generator[g].session].Thread = g
          \/ \E c \in Client : request[c].thread = g
      BY <2>1, <2>2 DEF OneHandle
    <3>3. \A c \in Client : request[c].thread = g => request[c].held = {generator[g].session}
      BY <2>1, <3>1 DEF OneHandle
    <3>4. \A c \in Client : request[c].thread = g => request[c].arg = "start"
      BY <2>1, <3>1 DEF Control, Sound
    <3>5. QED
      BY <3>1, <3>2, <3>3, <3>4
  <2>3. ASSUME NEW g \in Generator, Running(g) PROVE ~FreeSlot(generator[g].session)
    <3>1. generator[g].session # None /\ g # None
      BY <2>3, SimulatorAssumption DEF Running
    <3>2. CASE session[generator[g].session].Thread = g
      BY <2>1, <2>2, <3>1, <3>2 DEF Owned, NewSession
    <3>3. CASE \E c \in Client : request[c].held = {generator[g].session}
      BY <3>3 DEF FreeSlot, Holders
    <3>4. QED
      BY <2>2, <3>1, <3>2, <3>3
  <2>4. ASSUME NEW s \in Slot,
               \A c \in Client : s \in request[c].held => request[c].arg # "start"
        PROVE  Cardinality({g \in Generator : generator[g] =
                    [session |-> s, stop |-> FALSE, done |-> FALSE]}) <= 1
    <3> DEFINE G == {g \in Generator : generator[g] =
                        [session |-> s, stop |-> FALSE, done |-> FALSE]}
    <3>1. ASSUME NEW g \in G PROVE g = session[s].Thread
      <4>1. g \in Generator /\ generator[g].session = s /\ s # None
        BY SimulatorAssumption
      <4>2. QED
        BY <2>2, <2>4, <4>1
    <3> HIDE DEF G
    <3>2. G \subseteq {session[s].Thread}
      BY <3>1
    <3>3. /\ IsFiniteSet({session[s].Thread}) /\ Cardinality({session[s].Thread}) = 1
      BY FS_Singleton
    <3>4. Cardinality(G) <= 1
      BY <3>2, <3>3, FS_Subset
    <3>5. QED
      BY <3>4 DEF G
  <2>5. QED
    BY <2>3, <2>4
<1>2. QED
  BY <1>1, Invariance, PTL

\* A call that reached the driver has its promise kept, but for one that asks for
\* parameters of a session to which others add between its two attempts.
THEOREM AnsweredUnlessGrownHolds == Spec => AnsweredUnlessGrown
<1>1. ASSUME IInv, NEW c \in Client, Completes(c), promise'[c] = "broken"
      PROVE  request[c].code = "GET_APP_CONFIG_PARAMS" /\ request[c].grown
  <2>1. TypeOK /\ Answer(c) /\ request[c].at = "release"
    BY <1>1 DEF IInv, AnswerInv, Completes, Completed, At
  <2>2. CASE Retries(c)
    BY <2>1, <2>2, <1>1 DEF Retries, Answer, At
  <2>3. CASE Resolves(c)
    <3>1. request[c].status = "Overflow" /\ request[c].attempt = 1
      BY <2>1, <2>3, <1>1 DEF Resolves, Keeps, TypeOK
    <3>2. QED
      BY <2>1, <3>1 DEF Answer
  <2>4. QED
    BY <2>2, <2>3, <1>1 DEF Completes
<1>2. IInv => [\A c \in Client : Completes(c) /\ promise'[c] = "broken" =>
                    /\ request[c].code = "GET_APP_CONFIG_PARAMS"
                    /\ request[c].grown]_allVars
  BY <1>1
<1>3. QED
  BY <1>2, Invariance, PTL DEF AnsweredUnlessGrown

=============================================================================
