----------------------------- MODULE TaskQueue -----------------------------
(***************************************************************************)
(* notstd::task_queue (lib/shared/notstd/task_queue.cxx): a queue of       *)
(* runnables, the worker thread that runs them, the threads that post and  *)
(* stop, and the owner that constructs, joins and destroys the queue.      *)
(*                                                                         *)
(* A critical section of m_runnables_changed_gate is one step, since no    *)
(* thread can see its middle.  What a thread does after it releases the    *)
(* gate (notify_all, running a task, join) is a step of its own, and so is *)
(* every evaluation of the wait predicate.                                 *)
(***************************************************************************)
EXTENDS Naturals, Sequences, Functions

CONSTANTS
    Client,     \* the threads that hold a dispatcher or the queue
    Worker,     \* m_thread: the tasks it runs may post and stop too
    Task,       \* the runnables; each is posted once
    MaxStop     \* bound on the calls of stop(), for model checking

ASSUME ThreadAssumption == Worker \notin Client

ASSUME MaxStopAssumption == MaxStop \in Nat

Thread == Client \cup {Worker}

QueueState == {"running", "stopping", "canceling", "stopped"}

VARIABLES
    runnables,  \* m_runnables
    state,      \* m_state
    batch,      \* the local 'tasks' of process_queue
    pc,         \* where the worker is: "lock", "wait", "run", "task", "exited"
    call,       \* call[t] = "notify": t has left the gate and will notify_all
    life,       \* where the owner is: "ctor", "live", "notify", "join",
                \* "joined", "dead"
    stops,      \* the number of calls of stop() made by threads (see MaxStop)
    accepted,   \* history: the tasks whose post returned, in that order
    ran,        \* history: the tasks the worker has started, in that order
    doomed,     \* history: the tasks still in m_runnables at a stop(cancel)
    cancelled   \* history: has stop(cancel) ever been called?

queueVars == <<runnables, state, batch, pc, call, life, stops>>
history == <<accepted, ran, doomed, cancelled>>
vars == <<queueVars, history>>

-----------------------------------------------------------------------------

\* Fault: a stopping queue exits although tasks are still queued.
ExitsUndrained == state \in {"stopping", "canceling"}

is_stop_pending == state \in {"stopping", "canceling"}

should_queue_exit ==
    \/ state = "canceling"
    \/ state = "stopping" /\ runnables = <<>>

\* notify_all on m_runnables_changed: only the worker ever waits on it.
NotifyAll == pc' = IF pc = "wait" THEN "lock" ELSE pc

\* A thread may call while the queue exists; the worker, from inside a task.
CanCall(t) ==
    /\ life \notin {"ctor", "dead"}
    /\ call[t] = "none"
    /\ t = Worker => pc = "task"

Init ==
    /\ runnables = <<>>
    /\ state = "stopped"
    /\ batch = <<>>
    /\ pc = "lock"
    /\ call = [t \in Thread |-> "none"]
    /\ life = "ctor"
    /\ stops = 0
    /\ accepted = <<>>
    /\ ran = <<>>
    /\ doomed = {}
    /\ cancelled = FALSE

-----------------------------------------------------------------------------
(* Faulty variants of actions below, for checking that the properties would *)
(* notice them; none is part of Next.                                       *)

\* was_empty computed after the push: nobody is ever notified.
PostWithoutNotify(t, k) ==
    /\ CanCall(t)
    /\ k \notin Range(accepted)
    /\ ~is_stop_pending
    /\ runnables' = Append(runnables, k)
    /\ accepted' = Append(accepted, k)
    /\ UNCHANGED <<state, batch, pc, call, life, stops, ran, doomed, cancelled>>

\* The batch is run newest first.
StartNewest ==
    /\ pc = "run"
    /\ batch # <<>>
    /\ ran' = Append(ran, batch[Len(batch)])
    /\ batch' = SubSeq(batch, 1, Len(batch) - 1)
    /\ pc' = "task"
    /\ UNCHANGED <<runnables, state, call, life, stops, accepted, doomed, cancelled>>

\* The owner's stop notifies nobody.
OwnerDoesNotNotify ==
    /\ life = "notify"
    /\ life' = "join"
    /\ UNCHANGED <<runnables, state, batch, pc, call, stops, history>>

-----------------------------------------------------------------------------
(* The threads that use the queue.                                         *)

\* The constructor marks the queue running after it has started the worker,
\* and without the gate: the worker may already wait.
Construct ==
    /\ life = "ctor"
    /\ life' = "live"
    /\ state' = "running"
    /\ UNCHANGED <<runnables, batch, pc, call, stops, history>>

\* post: a pending stop makes it throw, which leaves the queue as it was.
\* Only a push onto an empty queue is followed by a notification.
Post(t, k) ==
    /\ CanCall(t)
    /\ k \notin Range(accepted)
    /\ ~is_stop_pending
    /\ runnables' = Append(runnables, k)
    /\ accepted' = Append(accepted, k)
    /\ call' = [call EXCEPT ![t] = IF runnables = <<>> THEN "notify" ELSE "none"]
    /\ UNCHANGED <<state, batch, pc, life, stops, ran, doomed, cancelled>>

\* stop(run): the state is assigned whatever it was before.
StopRun(t) ==
    /\ CanCall(t)
    /\ stops < MaxStop
    /\ stops' = stops + 1
    /\ state' = "stopping"
    /\ call' = [call EXCEPT ![t] = "notify"]
    /\ UNCHANGED <<runnables, batch, pc, life, history>>

\* stop(cancel).
StopCancel(t) ==
    /\ CanCall(t)
    /\ stops < MaxStop
    /\ stops' = stops + 1
    /\ state' = "canceling"
    /\ cancelled' = TRUE
    /\ doomed' = doomed \cup Range(runnables)
    /\ call' = [call EXCEPT ![t] = "notify"]
    /\ UNCHANGED <<runnables, batch, pc, life, accepted, ran>>

\* The notify_all that ends post and stop, after the gate is released.
Notify(t) ==
    /\ call[t] = "notify"
    /\ call' = [call EXCEPT ![t] = "none"]
    /\ NotifyAll
    /\ UNCHANGED <<runnables, state, batch, life, stops, history>>

-----------------------------------------------------------------------------
(* The worker: process_queue.                                              *)

\* The wait predicate is false: release the gate and block.
Wait ==
    /\ pc = "lock"
    /\ runnables = <<>>
    /\ ~should_queue_exit
    /\ pc' = "wait"
    /\ UNCHANGED <<runnables, state, batch, call, life, stops, history>>

\* condition_variable::wait may return without a notification.
SpuriousWakeup ==
    /\ pc = "wait"
    /\ pc' = "lock"
    /\ UNCHANGED <<runnables, state, batch, call, life, stops, history>>

Exit ==
    /\ pc = "lock"
    /\ should_queue_exit
    /\ pc' = "exited"
    /\ UNCHANGED <<runnables, state, batch, call, life, stops, history>>

\* Move the whole queue out and release the gate.  The notify_all that
\* follows finds nobody: the worker is the only thread that ever waits.
TakeAll ==
    /\ pc = "lock"
    /\ ~should_queue_exit
    /\ runnables # <<>>
    /\ batch' = runnables
    /\ runnables' = <<>>
    /\ pc' = "run"
    /\ UNCHANGED <<state, call, life, stops, history>>

StartTask ==
    /\ pc = "run"
    /\ batch # <<>>
    /\ ran' = Append(ran, Head(batch))
    /\ batch' = Tail(batch)
    /\ pc' = "task"
    /\ UNCHANGED <<runnables, state, call, life, stops, accepted, doomed, cancelled>>

\* The task returns (or throws into its future), its own calls being over.
FinishTask ==
    /\ pc = "task"
    /\ call[Worker] = "none"
    /\ pc' = "run"
    /\ UNCHANGED <<runnables, state, batch, call, life, stops, history>>

BatchDone ==
    /\ pc = "run"
    /\ batch = <<>>
    /\ pc' = "lock"
    /\ UNCHANGED <<runnables, state, batch, call, life, stops, history>>

WorkerStep == Wait \/ Exit \/ TakeAll \/ StartTask \/ FinishTask \/ BatchDone

-----------------------------------------------------------------------------
(* The owner: stop_and_wait_for_task_completion, then the destructor.      *)

\* stop() with its default argument, in the owner's thread.  It may be called
\* before the destructor calls it again.
StopAndWait ==
    /\ life \in {"live", "joined"}
    /\ life' = "notify"
    /\ state' = "stopping"
    /\ UNCHANGED <<runnables, batch, pc, call, stops, history>>

OwnerNotify ==
    /\ life = "notify"
    /\ life' = "join"
    /\ NotifyAll
    /\ UNCHANGED <<runnables, state, batch, call, stops, history>>

\* m_thread.join() returns when process_queue has; a second call finds the
\* thread not joinable and returns too.
Join ==
    /\ life = "join"
    /\ pc = "exited"
    /\ life' = "joined"
    /\ UNCHANGED <<runnables, state, batch, pc, call, stops, history>>

\* The members are destroyed when nobody is inside a call, and with them the
\* tasks that never ran: their futures are broken.
Destroy ==
    /\ life = "joined"
    /\ \A t \in Thread : call[t] = "none"
    /\ life' = "dead"
    /\ runnables' = <<>>
    /\ UNCHANGED <<state, batch, pc, call, stops, history>>

\* Nothing is left to do with a destroyed queue.
Gone == life = "dead" /\ UNCHANGED vars

OwnerStep == StopAndWait \/ OwnerNotify \/ Join \/ Destroy

Next ==
    \/ Construct
    \/ \E t \in Thread, k \in Task : Post(t, k)
    \/ \E t \in Thread : StopRun(t) \/ StopCancel(t) \/ Notify(t)
    \/ WorkerStep
    \/ SpuriousWakeup
    \/ OwnerStep
    \/ Gone

\* The scheduler runs every thread that can take a step inside the queue, and
\* tasks return.  Nobody has to post, stop or destroy.
Fairness ==
    /\ WF_vars(WorkerStep)
    /\ \A t \in Thread : WF_vars(Notify(t))
    /\ WF_vars(OwnerNotify)
    /\ WF_vars(Join)

Spec == Init /\ [][Next]_vars /\ Fairness

-----------------------------------------------------------------------------

TypeOK ==
    /\ runnables \in Seq(Task)
    /\ state \in QueueState
    /\ batch \in Seq(Task)
    /\ pc \in {"lock", "wait", "run", "task", "exited"}
    /\ call \in [Thread -> {"none", "notify"}]
    /\ life \in {"ctor", "live", "notify", "join", "joined", "dead"}
    /\ stops \in 0..MaxStop
    /\ accepted \in Seq(Task)
    /\ ran \in Seq(Task)
    /\ doomed \subseteq Task
    /\ cancelled \in BOOLEAN

\* Until the queue is destroyed, every accepted task is in exactly one place,
\* and the places in order (started, the worker's batch, the queue) spell out
\* the order in which post() accepted them: no interleaving of posting
\* threads, recursive posts and batch moves loses, repeats or reorders a task.
Conservation == life # "dead" => accepted = ran \o batch \o runnables

\* When stop_and_wait_for_task_completion() has joined the worker, the only
\* accepted tasks that have not run are those a stop(cancel) found waiting:
\* "waits for completion of all pending queue tasks" holds however post, stop
\* and the worker's exit test are interleaved.
DrainedAtJoin ==
    life \in {"joined", "dead"} => Range(accepted) \subseteq Range(ran) \cup doomed

\* The worker never blocks on work: if it waits while tasks are queued or the
\* queue should exit, some thread still owes it the notification.
NoLostWakeup ==
    pc = "wait" /\ (runnables # <<>> \/ should_queue_exit) =>
        life = "notify" \/ \E t \in Thread : call[t] = "notify"

\* The owner that waits for the worker is not left waiting, so the destructor
\* returns.
JoinReturns == life = "notify" ~> life = "joined"

-----------------------------------------------------------------------------
(* The queue implements the serial executor.                               *)

SE == INSTANCE SerialExecutor WITH
        pending <- batch \o runnables,
        started <- ran,
        phase <- CASE pc = "task" -> "busy"
                   [] pc = "exited" -> "halted"
                   [] OTHER -> "idle",
        closed <- is_stop_pending

\* To its clients the queue is a FIFO executor that runs one task at a time,
\* accepts nothing once it is closed, halts only when it has drained, and drops
\* accepted work only if it was cancelled.
ImplementsSerialExecutor == SE!Spec

=============================================================================
