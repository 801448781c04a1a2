--------------------------- MODULE ServiceRuntime ---------------------------
(***************************************************************************)
(* nearobject::service::ServiceRuntime (lib/nearobject/service/            *)
(* ServiceRuntime.cxx): the thread that runs the service's event loop and  *)
(* the thread of the daemon that starts it, stops it and destroys it.      *)
(*                                                                         *)
(* Run() tests m_running before it takes m_runEventGate, and Stop() clears *)
(* it and notifies without the gate, so the test and the wait are separate *)
(* steps here.  Names that other modules have too begin with Runtime, so   *)
(* that a module can extend this one together with TaskQueue.              *)
(***************************************************************************)
EXTENDS Naturals

CONSTANTS
    MaxStart,       \* bound on the successful calls of Start()
    SpuriousCAS     \* may compare_exchange_weak fail spuriously, as it may on
                    \* the processors that build it from LL/SC?

ASSUME RuntimeAssumption == MaxStart \in Nat \ {0} /\ SpuriousCAS \in BOOLEAN

Runner == 1..MaxStart       \* the threads that execute Run(), oldest first

VARIABLES
    m_running,
    m_threadMain,   \* the runner that the jthread owns, 0 if none
    runner,         \* runner[r]: "none" (not created), "test" (before the
                    \* loop condition), "gate" (before the wait), "wait",
                    \* "woken" (before the test after the wait), "exited"
    starts,         \* the runners created
    control         \* the daemon's thread: "idle"; in Start "spawn", "assign";
                    \* in Stop "notify"; in the destructor "dtorNotify",
                    \* "dtorJoin"; "dead"

runtimeVars == <<m_running, m_threadMain, runner, starts, control>>

RuntimeInit ==
    /\ m_running = FALSE
    /\ m_threadMain = 0
    /\ runner = [r \in Runner |-> "none"]
    /\ starts = 0
    /\ control = "idle"

Move(r, from, to) ==
    /\ runner[r] = from
    /\ runner' = [runner EXCEPT ![r] = to]

\* notify_one: some waiting runner is woken, if there is one.
NotifyOne ==
    \/ \E r \in Runner : Move(r, "wait", "woken")
    \/ (\A r \in Runner : runner[r] # "wait") /\ UNCHANGED runner

-----------------------------------------------------------------------------
(* Faulty variants, for checking that the properties would notice them.    *)

\* The new thread is assigned first, and then joined in place of the old one.
AssignThenJoin ==
    /\ control = "assign"
    /\ runner[starts] = "exited"
    /\ m_threadMain' = starts
    /\ control' = "idle"
    /\ UNCHANGED <<m_running, runner, starts>>

\* Stop wakes nobody.
StopWithoutNotify ==
    /\ control = "notify"
    /\ control' = "idle"
    /\ UNCHANGED <<m_running, m_threadMain, runner, starts>>

\* The destructor returns without the join of the jthread.
DetachInDestructor ==
    /\ control = "dtorJoin"
    /\ control' = "dead"
    /\ UNCHANGED <<m_running, m_threadMain, runner, starts>>

-----------------------------------------------------------------------------
(* The daemon's thread.                                                    *)

\* Start: a runtime that is running (or whose exchange fails) is left alone.
Start ==
    /\ control = "idle"
    /\ ~m_running
    /\ starts < MaxStart
    /\ m_running' = TRUE
    /\ control' = "spawn"
    /\ UNCHANGED <<m_threadMain, runner, starts>>

Spawn ==
    /\ control = "spawn"
    /\ starts' = starts + 1
    /\ runner' = [runner EXCEPT ![starts + 1] = "test"]
    /\ control' = "assign"
    /\ UNCHANGED <<m_running, m_threadMain>>

\* Assigning to a jthread that owns a thread joins that thread first.
Assign ==
    /\ control = "assign"
    /\ m_threadMain # 0 => runner[m_threadMain] = "exited"
    /\ m_threadMain' = starts
    /\ control' = "idle"
    /\ UNCHANGED <<m_running, runner, starts>>

\* Stop: a runtime that is not running (or whose exchange fails) is left alone.
Stop ==
    /\ control = "idle"
    /\ m_running
    /\ m_running' = FALSE
    /\ control' = "notify"
    /\ UNCHANGED <<m_threadMain, runner, starts>>

StopNotify ==
    /\ control = "notify"
    /\ NotifyOne
    /\ control' = "idle"
    /\ UNCHANGED <<m_running, m_threadMain, starts>>

\* The destructor calls Stop, whose exchange may fail, and its members join
\* the thread.
DestructStop ==
    /\ control = "idle"
    /\ \/ m_running /\ m_running' = FALSE /\ control' = "dtorNotify"
       \/ ~m_running /\ control' = "dtorJoin" /\ UNCHANGED m_running
       \/ SpuriousCAS /\ m_running /\ control' = "dtorJoin" /\ UNCHANGED m_running
    /\ UNCHANGED <<m_threadMain, runner, starts>>

DestructNotify ==
    /\ control = "dtorNotify"
    /\ NotifyOne
    /\ control' = "dtorJoin"
    /\ UNCHANGED <<m_running, m_threadMain, starts>>

DestructJoin ==
    /\ control = "dtorJoin"
    /\ m_threadMain # 0 => runner[m_threadMain] = "exited"
    /\ control' = "dead"
    /\ UNCHANGED <<m_running, m_threadMain, runner, starts>>

-----------------------------------------------------------------------------
(* Run(), in the runner's thread.                                          *)

Test(r) ==
    /\ Move(r, "test", IF m_running THEN "gate" ELSE "exited")
    /\ UNCHANGED <<m_running, m_threadMain, starts, control>>

\* Take the gate and wait, without looking at m_running again.
WaitForEvent(r) ==
    /\ Move(r, "gate", "wait")
    /\ UNCHANGED <<m_running, m_threadMain, starts, control>>

\* After the wait: leave, or handle the event (nothing yet) and loop.
Wake(r) ==
    /\ Move(r, "woken", IF m_running THEN "test" ELSE "exited")
    /\ UNCHANGED <<m_running, m_threadMain, starts, control>>

WakeSpuriously(r) ==
    /\ Move(r, "wait", "woken")
    /\ UNCHANGED <<m_running, m_threadMain, starts, control>>

\* The destroyed runtime, and a control thread blocked in a join or done with
\* its calls, take no further step.
Blocked ==
    /\ control \in {"idle", "assign", "dtorJoin", "dead"}
    /\ UNCHANGED runtimeVars

RuntimeNext ==
    \/ Start \/ Spawn \/ Assign
    \/ Stop \/ StopNotify
    \/ DestructStop \/ DestructNotify \/ DestructJoin
    \/ \E r \in Runner : Test(r) \/ WaitForEvent(r) \/ Wake(r) \/ WakeSpuriously(r)
    \/ Blocked

\* Threads run when they can; nobody has to call, and nothing but a
\* notification has to end a wait.
RuntimeFairness ==
    /\ WF_runtimeVars(Spawn) /\ WF_runtimeVars(Assign) /\ WF_runtimeVars(StopNotify)
    /\ WF_runtimeVars(DestructNotify) /\ WF_runtimeVars(DestructJoin)
    /\ \A r \in Runner : WF_runtimeVars(Test(r) \/ WaitForEvent(r) \/ Wake(r))

RuntimeSpec == RuntimeInit /\ [][RuntimeNext]_runtimeVars /\ RuntimeFairness

-----------------------------------------------------------------------------

Alive(r) == runner[r] \notin {"none", "exited"}

\* The loop of the thread that the runtime owns has not ended.
OldAlive == m_threadMain # 0 /\ Alive(m_threadMain)

RuntimeTypeOK ==
    /\ m_running \in BOOLEAN
    /\ m_threadMain \in 0..MaxStart
    /\ runner \in [Runner -> {"none", "test", "gate", "wait", "woken", "exited"}]
    /\ starts \in 0..MaxStart
    /\ \A r \in Runner : runner[r] = "none" <=> r > starts
    /\ control \in {"idle", "spawn", "assign", "notify",
                    "dtorNotify", "dtorJoin", "dead"}

\* Whether Start returns is decided when it sets m_running.  If the loop of the
\* last start is over by then, it does.  If it is not, that loop never sees that
\* it was stopped: Start waits for it for ever, in the assignment to the
\* jthread, while the new loop runs beside it.
StartReturns ==
    /\ (control = "spawn" /\ ~OldAlive) ~> control = "idle"
    /\ (control = "spawn" /\ OldAlive) ~> [](control = "assign" /\ OldAlive)

\* The loop captures the runtime: it is over when the runtime is destroyed.
NoLoopAfterDestruction == control = "dead" => \A r \in Runner : ~Alive(r)

\* A loop that is waiting when Stop notifies does exit, unless Start is called
\* again before it has looked.
StopWakesWaiter ==
    \A r \in Runner :
        control = "notify" /\ runner[r] = "wait" ~> runner[r] = "exited" \/ m_running

=============================================================================
