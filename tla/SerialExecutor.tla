--------------------------- MODULE SerialExecutor ---------------------------
(***************************************************************************)
(* What notstd::task_queue promises to its clients, without threads, locks *)
(* or condition variables: tasks are accepted until the executor is        *)
(* closed, they start one by one in the order they were accepted, and only *)
(* a cancellation may discard the ones that have not started.              *)
(*                                                                         *)
(* TaskQueue implements this specification (TaskQueue!SE), so the modules  *)
(* of components that own a task queue compose this one instead.           *)
(***************************************************************************)
EXTENDS Sequences

CONSTANT Task       \* the runnables that may be posted

VARIABLES
    pending,        \* the accepted tasks that have not started, oldest first
    started,        \* the tasks that have started, in that order
    phase,          \* the worker: "idle", "busy" inside a task, or "halted"
    closed,         \* has the executor been asked to stop?
    cancelled       \* has a stop with pending_task_action::cancel been asked?

vars == <<pending, started, phase, closed, cancelled>>

Init ==
    /\ pending = <<>>
    /\ started = <<>>
    /\ phase = "idle"
    /\ closed = FALSE
    /\ cancelled = FALSE

\* A post that returns a future.
Accept(k) ==
    /\ ~closed
    /\ pending' = Append(pending, k)
    /\ UNCHANGED <<started, phase, closed, cancelled>>

\* The oldest accepted task starts, the one before it being over.
Start ==
    /\ phase = "idle"
    /\ pending # <<>>
    /\ pending' = Tail(pending)
    /\ started' = Append(started, Head(pending))
    /\ phase' = "busy"
    /\ UNCHANGED <<closed, cancelled>>

Finish ==
    /\ phase = "busy"
    /\ phase' = "idle"
    /\ UNCHANGED <<pending, started, closed, cancelled>>

\* stop(run), which may be asked again.
Close ==
    /\ closed' = TRUE
    /\ UNCHANGED <<pending, started, phase, cancelled>>

\* stop(cancel).
Cancel ==
    /\ closed' = TRUE
    /\ cancelled' = TRUE
    /\ UNCHANGED <<pending, started, phase>>

\* The worker is done for good, and a join returns.  It leaves nothing behind
\* unless it was told to cancel.
Halt ==
    /\ phase = "idle"
    /\ closed
    /\ pending = <<>> \/ cancelled
    /\ phase' = "halted"
    /\ UNCHANGED <<pending, started, closed, cancelled>>

\* The tasks left behind are destroyed without a run.
Discard ==
    /\ phase = "halted"
    /\ pending' = <<>>
    /\ UNCHANGED <<started, phase, closed, cancelled>>

WorkerStep == Start \/ Finish \/ Halt

Next ==
    \/ \E k \in Task : Accept(k)
    \/ WorkerStep
    \/ Close \/ Cancel
    \/ Discard

SafetySpec == Init /\ [][Next]_vars

\* The executor does not sit on accepted tasks, nor on a request to stop.
Spec == SafetySpec /\ WF_vars(WorkerStep)

=============================================================================
