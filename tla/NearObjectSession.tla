------------------------- MODULE NearObjectSession -------------------------
(***************************************************************************)
(* nearobject::NearObjectSession (lib/nearobject/NearObjectSession.cxx): a *)
(* session's members and ranging state, and the events it delivers to its  *)
(* client through a task queue of its own.                                 *)
(*                                                                         *)
(* The queue is the SerialExecutor that TaskQueue implements; its tasks    *)
(* are the session's events.  Members are changed, and the event posted,   *)
(* under m_nearObjectsGate; the ranging flag likewise under                *)
(* m_rangingStateGate: each such critical section is one step.  EndSession *)
(* takes two, since it posts OnSessionEnded outside the gate.              *)
(***************************************************************************)
EXTENDS Naturals, Sequences, SequencesExt

CONSTANTS
    Client,             \* threads that call the session's methods
    Worker,             \* the queue's worker, which runs the client's callbacks
    NearObject,         \* the objects, that is, the pointers to them
    Initial,            \* the lists passed to the constructor ...
    Batch,              \* ... and to AddNearObjects/RemoveNearObjects
    SupportsRanging,    \* m_capabilities.SupportsRanging
    MaxEvents           \* bound on the events, for model checking

ASSUME BatchAssumption == Initial \cup Batch \subseteq Seq(NearObject)

Thread == Client \cup {Worker}

VARIABLES
    m_isRangingActive,
    m_nearObjects,
    nearObjects,        \* the members that the constructor was given, which
                        \* no event reports
    listening,          \* does m_eventCallbacks still resolve?
    inCallback,         \* is the worker inside a callback of the client?
    ending,             \* the threads in EndSession that have yet to post
    life,               \* "live"; then, in the destructor, "ending" (has
                        \* stopped ranging), "closing", "draining", "dead"
    pending, started, phase, closed, cancelled  \* m_taskQueue, see SerialExecutor

executorVars == <<pending, started, phase, closed, cancelled>>
sessionVars == <<m_isRangingActive, m_nearObjects, nearObjects>>
vars == <<sessionVars, listening, inCallback, ending, life, executorVars>>

RangingStarted == [kind |-> "started"]
RangingStopped == [kind |-> "stopped"]
SessionEnded == [kind |-> "ended"]
PropertiesChanged(o) == [kind |-> "properties", object |-> o]
MembershipChanged(added, removed) ==
    [kind |-> "members", added |-> added, removed |-> removed]

Event ==
    {RangingStarted, RangingStopped, SessionEnded}
        \cup {PropertiesChanged(o) : o \in NearObject}
        \cup {MembershipChanged(a, r) : a, r \in Seq(NearObject)}

Queue == INSTANCE SerialExecutor WITH Task <- Event

\* Two objects are equal when their spatial properties are.  Nothing in the
\* library assigns m_spatialProperties, so every object has the default ones.
m_spatialProperties == [o \in NearObject |-> "unset"]
Equal(a, b) == m_spatialProperties[a] = m_spatialProperties[b]

\* The elements of a list that are in a set, in the order of the list.
Only(s, S) ==
    LET kept[i \in 0 .. Len(s)] ==
            IF i = 0 THEN <<>>
            ELSE IF s[i] \in S THEN Append(kept[i - 1], s[i]) ELSE kept[i - 1]
    IN  kept[Len(s)]

\* What is equal to no member.
New == {x \in NearObject : ~\E o \in ToSet(m_nearObjects) : Equal(o, x)}

Init ==
    /\ m_isRangingActive = FALSE
    /\ nearObjects \in Initial
    /\ m_nearObjects = nearObjects
    /\ listening = TRUE
    /\ inCallback = FALSE
    /\ ending = {}
    /\ life = "live"
    /\ Queue!Init

-----------------------------------------------------------------------------

\* InvokeEventCallback: posting to a stopped queue throws, after the caller has
\* changed its state.
InvokeEventCallback(e) == IF closed THEN UNCHANGED executorVars ELSE Queue!Accept(e)

\* The session's methods are called while it lives.  A callback may also call
\* the public ones on the session it is given, until the queue has drained.
CanCall(t) ==
    /\ Len(started) + Len(pending) < MaxEvents
    /\ t \in Client /\ life = "live" /\ t \notin ending
CanCallPublic(t) ==
    \/ CanCall(t)
    \/ t = Worker /\ inCallback /\ Len(started) + Len(pending) < MaxEvents

\* Faulty variants, for checking that the properties would notice them.
\* The membership event names the objects asked for, not the ones added.
AddReportsRequest(t, xs) ==
    /\ CanCall(t)
    /\ m_nearObjects' = m_nearObjects \o Only(xs, New)
    /\ InvokeEventCallback(MembershipChanged(xs, <<>>))
    /\ UNCHANGED <<m_isRangingActive, nearObjects, listening, inCallback, ending, life>>
\* Ranging that is not active is reported stopped again.
StopAlways ==
    /\ m_isRangingActive' = FALSE
    /\ InvokeEventCallback(RangingStopped)
\* The members are destroyed without waiting for the queue.
DestroyEarly ==
    /\ life = "draining"
    /\ life' = "dead"
    /\ UNCHANGED <<sessionVars, listening, inCallback, ending, executorVars>>
\* The destructor stops the queue before it posts the last event.
CloseThenPost ==
    /\ life = "ending"
    /\ life' = "draining"
    /\ Queue!Close
    /\ UNCHANGED <<sessionVars, listening, inCallback, ending>>
\* The destructor waits for a queue that it has not stopped.
ForgetClose ==
    /\ life = "closing"
    /\ life' = "draining"
    /\ UNCHANGED <<sessionVars, listening, inCallback, ending, executorVars>>

-----------------------------------------------------------------------------
(* The session's methods.                                                  *)

\* Objects equal to a member are dropped from the list, the rest join in order.
AddNearObjects(t, xs) ==
    /\ CanCall(t)
    /\ m_nearObjects' = m_nearObjects \o Only(xs, New)
    /\ InvokeEventCallback(MembershipChanged(Only(xs, New), <<>>))
    /\ UNCHANGED <<m_isRangingActive, nearObjects, listening, inCallback, ending, life>>

\* Removal goes by pointer and keeps the order of both parts.
RemoveNearObjects(t, xs) ==
    /\ CanCall(t)
    /\ m_nearObjects' = Only(m_nearObjects, NearObject \ ToSet(xs))
    /\ InvokeEventCallback(MembershipChanged(<<>>, Only(m_nearObjects, ToSet(xs))))
    /\ UNCHANGED <<m_isRangingActive, nearObjects, listening, inCallback, ending, life>>

NearObjectPropertiesChanged(t, o) ==
    /\ CanCall(t)
    /\ InvokeEventCallback(PropertiesChanged(o))
    /\ UNCHANGED <<sessionVars, listening, inCallback, ending, life>>

\* An active session or a missing capability is an error return that changes
\* nothing.
StartRanging(t) ==
    /\ CanCallPublic(t)
    /\ ~m_isRangingActive
    /\ SupportsRanging
    /\ m_isRangingActive' = TRUE
    /\ InvokeEventCallback(RangingStarted)
    /\ UNCHANGED <<m_nearObjects, nearObjects, listening, inCallback, ending, life>>

\* The body of StopRanging: nothing happens if ranging is not active.
Stop ==
    \/ /\ m_isRangingActive
       /\ m_isRangingActive' = FALSE
       /\ InvokeEventCallback(RangingStopped)
    \/ ~m_isRangingActive /\ UNCHANGED <<m_isRangingActive, executorVars>>

StopRanging(t) ==
    /\ CanCallPublic(t)
    /\ Stop
    /\ UNCHANGED <<m_nearObjects, nearObjects, listening, inCallback, ending, life>>

\* EndSession, first StopRanging ...
EndSession(t) ==
    /\ CanCall(t)
    /\ Stop
    /\ ending' = ending \cup {t}
    /\ UNCHANGED <<m_nearObjects, nearObjects, listening, inCallback, life>>

\* ... then the event.  Another thread may have started ranging in between.
EndSessionNotify(t) ==
    /\ t \in ending
    /\ InvokeEventCallback(SessionEnded)
    /\ ending' = ending \ {t}
    /\ UNCHANGED <<sessionVars, listening, inCallback, life>>

-----------------------------------------------------------------------------
(* The destructor: EndSession, then the members, the task queue first.     *)

Destruct ==
    /\ life = "live"
    /\ ending = {}
    /\ Stop
    /\ life' = "ending"
    /\ UNCHANGED <<m_nearObjects, nearObjects, listening, inCallback, ending>>

DestructNotify ==
    /\ life = "ending"
    /\ InvokeEventCallback(SessionEnded)
    /\ life' = "closing"
    /\ UNCHANGED <<sessionVars, listening, inCallback, ending>>

\* ~task_queue: stop the queue ...
CloseQueue ==
    /\ life = "closing"
    /\ Queue!Close
    /\ life' = "draining"
    /\ UNCHANGED <<sessionVars, listening, inCallback, ending>>

\* ... and join its worker.  The session's memory is released after that.
Drained ==
    /\ life = "draining"
    /\ phase = "halted"
    /\ life' = "dead"
    /\ UNCHANGED <<sessionVars, listening, inCallback, ending, executorVars>>

-----------------------------------------------------------------------------
(* The worker and the client.                                              *)

\* The oldest event's task runs; it calls back if the callbacks still resolve.
Dispatch ==
    /\ Queue!Start
    /\ inCallback' = listening
    /\ UNCHANGED <<sessionVars, listening, ending, life>>

Return ==
    /\ Queue!Finish
    /\ inCallback' = FALSE
    /\ UNCHANGED <<sessionVars, listening, ending, life>>

WorkerExit ==
    /\ Queue!Halt
    /\ UNCHANGED <<sessionVars, listening, inCallback, ending, life>>

\* The client releases its callbacks: the weak pointer expires for good.
ReleaseCallbacks ==
    /\ listening
    /\ listening' = FALSE
    /\ UNCHANGED <<sessionVars, inCallback, ending, life, executorVars>>

Gone == life = "dead" /\ UNCHANGED vars

Next ==
    \/ \E t \in Client, xs \in Batch : AddNearObjects(t, xs) \/ RemoveNearObjects(t, xs)
    \/ \E t \in Client, o \in NearObject : NearObjectPropertiesChanged(t, o)
    \/ \E t \in Thread : StartRanging(t) \/ StopRanging(t)
    \/ \E t \in Client : EndSession(t) \/ EndSessionNotify(t)
    \/ Destruct \/ DestructNotify \/ CloseQueue \/ Drained
    \/ Dispatch \/ Return \/ WorkerExit
    \/ ReleaseCallbacks
    \/ Gone

\* The worker runs, callbacks return, and a destructor that has begun goes on.
Fairness ==
    /\ WF_vars(Dispatch \/ Return \/ WorkerExit)
    /\ WF_vars(DestructNotify \/ CloseQueue \/ Drained)

Spec == Init /\ [][Next]_vars /\ Fairness

-----------------------------------------------------------------------------

\* Every event so far, in the order the client sees them.
Stream == started \o pending

\* A client that knows the members the session was made with, and applies the
\* membership events in the order it receives them, arrives at the session's own
\* list, order and duplicates included, whatever calls were made by whatever
\* threads: "ensure the client receives them in order".
Replay(members, e) ==
    IF e.kind = "members"
    THEN Only(members, NearObject \ ToSet(e.removed)) \o e.added
    ELSE members

Followed(first, events) ==
    LET members[i \in 0 .. Len(events)] ==
            IF i = 0 THEN first ELSE Replay(members[i - 1], events[i])
    IN  members[Len(events)]

MembershipStream == Followed(nearObjects, Stream) = m_nearObjects

\* OnRangingStarted and OnRangingStopped alternate, and until the queue is
\* stopped the last of them tells whether ranging is active.
RangingStream ==
    LET ranging == Only(Stream, {RangingStarted, RangingStopped})
    IN  /\ \A i \in DOMAIN ranging :
              ranging[i] = IF i % 2 = 1 THEN RangingStarted ELSE RangingStopped
        /\ ~closed => (m_isRangingActive <=> Len(ranging) % 2 = 1)

\* The tasks capture the session: once it is destroyed none is running or left
\* to run.
NoCallbackAfterDestruction ==
    life = "dead" => pending = <<>> /\ phase # "busy" /\ ~inCallback

\* "The task queue can execute the task before *this is destructed": the
\* OnSessionEnded that the destructor posts is dispatched before it returns.
EndedBeforeDestruction == life = "dead" => SessionEnded \in ToSet(started)

\* The destructor returns although callbacks keep calling the session.
DestructionCompletes == life = "ending" ~> life = "dead"

=============================================================================
