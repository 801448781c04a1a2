----------------------- MODULE UwbNotificationChannel -----------------------
(***************************************************************************)
(* How a UWB notification travels from the simulator driver to the event   *)
(* callbacks: the driver's per-file queue and its processing thread        *)
(* (UwbSimulatorIoEventQueue.cxx), the overlapped IOCTL_UWB_NOTIFICATION   *)
(* request the connector keeps pending (UwbConnector::HandleNotifications) *)
(* and the asynchronous task that dispatches each notification it gets.    *)
(*                                                                         *)
(* The file has one client, the connector's listener, so at most one       *)
(* request.  The driver's two condition variables are explicit: a wait is  *)
(* a state that only a notification, or a spurious wakeup, leaves.         *)
(***************************************************************************)
EXTENDS Naturals, Sequences, SequencesExt, FiniteSets

CONSTANTS
    Notification,       \* the notifications, each pushed once at most
    Size,               \* Size[n]: the bytes n takes in the DDI's format
    minimumNotificationSize,
    NoRequest           \* no IOCTL request is in the driver's queue

maxIoctlAttempts == 2

\* From(UwbNotificationData) adds the size of the payload to that of the whole
\* UWB_NOTIFICATION_DATA, so every notification exceeds the minimum buffer.
ASSUME ChannelAssumption ==
    /\ minimumNotificationSize \in Nat \ {0}
    /\ Size \in [Notification -> Nat]
    /\ \A n \in Notification : Size[n] > minimumNotificationSize
    /\ NoRequest \notin Nat

VARIABLES
    \* the driver
    m_notificationQueue,
    notifying,      \* pushes that have yet to notify m_notificationDataAvailable
    m_wdfQueue,     \* buffer size of the pending request, or NoRequest
    processing,     \* the processing thread: "request" (tests for a request),
                    \* "noRequest" (asleep), "data" (has one, tests for data),
                    \* "noData" (asleep), "respond" (holds a notification)
    retrieved,      \* what it holds: <<>>, or <<[size, data]>>
    \* between the two
    response,       \* the completed request: <<>>, or <<[status, data]>>
    \* the connector
    listener,       \* "check" (the loop condition), "issue" (a request),
                    \* "pended" (waits for the response), "done"
    attempt, bytesRequired, handleValid,
    stopping,       \* NotificationListenerStop: "no", "canceled", "requested"
    tasks,          \* the notifications whose dispatch task has not run
    \* history
    pushed, received, dispatched, dropped

driverVars == <<m_notificationQueue, notifying, m_wdfQueue, processing, retrieved>>
listenerVars == <<listener, attempt, bytesRequired, handleValid, tasks>>
historyVars == <<pushed, received, dispatched, dropped>>
vars == <<driverVars, response, listenerVars, stopping, historyVars>>

Init ==
    /\ m_notificationQueue = <<>>
    /\ notifying = 0
    /\ m_wdfQueue = NoRequest
    /\ processing = "request"
    /\ retrieved = <<>>
    /\ response = <<>>
    /\ listener = "check"
    /\ attempt = 1
    /\ bytesRequired = minimumNotificationSize
    /\ handleValid = TRUE
    /\ stopping = "no"
    /\ tasks = {}
    /\ pushed = <<>> /\ received = <<>> /\ dispatched = <<>> /\ dropped = {}

Larger(m, n) == IF m >= n THEN m ELSE n

-----------------------------------------------------------------------------
(* Faulty variants, for checking that the properties would notice them.    *)

\* The push forgets to notify the processing thread.
PushSilently(n) ==
    /\ n \notin ToSet(pushed)
    /\ m_notificationQueue' = Append(m_notificationQueue, n)
    /\ pushed' = Append(pushed, n)
    /\ UNCHANGED <<notifying, m_wdfQueue, processing, retrieved, response,
                   listenerVars, stopping, received, dispatched, dropped>>

\* The notification stays in the queue after it was copied out.
RetrieveWithoutPop ==
    /\ processing \in {"request", "data"}
    /\ m_wdfQueue # NoRequest
    /\ m_notificationQueue # <<>>
    /\ retrieved' = <<[size |-> m_wdfQueue, data |-> Head(m_notificationQueue)]>>
    /\ m_wdfQueue' = NoRequest
    /\ processing' = "respond"
    /\ UNCHANGED <<m_notificationQueue, notifying, response, listenerVars, stopping, historyVars>>

\* A cancelled request is tried again like one whose buffer was too small.
RetryCanceled ==
    /\ listener = "pended"
    /\ response # <<>> /\ response[1].status = "canceled"
    /\ listener' = IF attempt < maxIoctlAttempts THEN "issue" ELSE "check"
    /\ attempt' = IF attempt < maxIoctlAttempts THEN attempt + 1 ELSE attempt
    /\ response' = <<>>
    /\ UNCHANGED <<driverVars, bytesRequired, handleValid, tasks, stopping, historyVars>>

-----------------------------------------------------------------------------
(* The driver.                                                             *)

\* PushNotification appends under the gate, without regard to the
\* m_maximumQueueSize that the constructor was given ...
PushNotification(n) ==
    /\ n \notin ToSet(pushed)
    /\ m_notificationQueue' = Append(m_notificationQueue, n)
    /\ notifying' = notifying + 1
    /\ pushed' = Append(pushed, n)
    /\ UNCHANGED <<m_wdfQueue, processing, retrieved, response, listenerVars,
                   stopping, received, dispatched, dropped>>

\* ... and notifies after releasing it.
NotifyDataAvailable ==
    /\ notifying > 0
    /\ notifying' = notifying - 1
    /\ processing' = IF processing = "noData" THEN "data" ELSE processing
    /\ UNCHANGED <<m_notificationQueue, m_wdfQueue, retrieved, response,
                   listenerVars, stopping, historyVars>>

\* ProcessNotificationQueue: sleep until there is a request, then until there
\* is data.  The first test is not repeated after the second sleep.
WaitRequest ==
    /\ processing = "request"
    /\ m_wdfQueue = NoRequest
    /\ processing' = "noRequest"
    /\ UNCHANGED <<m_notificationQueue, notifying, m_wdfQueue, retrieved, response,
                   listenerVars, stopping, historyVars>>

WaitData ==
    /\ \/ processing = "request" /\ m_wdfQueue # NoRequest
       \/ processing = "data"
    /\ m_notificationQueue = <<>>
    /\ processing' = "noData"
    /\ UNCHANGED <<m_notificationQueue, notifying, m_wdfQueue, retrieved, response,
                   listenerVars, stopping, historyVars>>

\* The request is gone, cancelled during the second sleep: start over.
RetrieveFails ==
    /\ processing = "data"
    /\ m_wdfQueue = NoRequest
    /\ m_notificationQueue # <<>>
    /\ processing' = "request"
    /\ UNCHANGED <<m_notificationQueue, notifying, m_wdfQueue, retrieved, response,
                   listenerVars, stopping, historyVars>>

Retrieve ==
    /\ processing \in {"request", "data"}
    /\ m_wdfQueue # NoRequest
    /\ m_notificationQueue # <<>>
    /\ retrieved' = <<[size |-> m_wdfQueue, data |-> Head(m_notificationQueue)]>>
    /\ m_wdfQueue' = NoRequest
    /\ m_notificationQueue' = Tail(m_notificationQueue)
    /\ processing' = "respond"
    /\ UNCHANGED <<notifying, response, listenerVars, stopping, historyVars>>

\* The request is completed, with what fits.  The notification is gone from the
\* queue either way.
Respond ==
    /\ processing = "respond"
    /\ LET r == retrieved[1]
       IN  response' = <<[status |-> IF r.size < Size[r.data] THEN "overflow" ELSE "success",
                          data |-> r.data]>>
    /\ retrieved' = <<>>
    /\ processing' = "request"
    /\ UNCHANGED <<m_notificationQueue, notifying, m_wdfQueue, listenerVars, stopping, historyVars>>

SpuriousWakeup ==
    /\ processing \in {"noRequest", "noData"}
    /\ processing' = IF processing = "noRequest" THEN "request" ELSE "data"
    /\ UNCHANGED <<m_notificationQueue, notifying, m_wdfQueue, retrieved, response,
                   listenerVars, stopping, historyVars>>

-----------------------------------------------------------------------------
(* The connector's listener thread, HandleNotifications.                   *)

Check ==
    /\ listener = "check"
    /\ IF stopping # "requested" /\ handleValid
       THEN /\ listener' = "issue"
            /\ attempt' = 1
            /\ bytesRequired' = minimumNotificationSize
       ELSE listener' = "done" /\ UNCHANGED <<attempt, bytesRequired>>
    /\ UNCHANGED <<driverVars, response, handleValid, tasks, stopping, historyVars>>

\* The driver's EnqueueRequest pends the request and notifies its thread.  The
\* stop token is not looked at between attempts.
Issue ==
    /\ listener = "issue"
    /\ m_wdfQueue' = Larger(bytesRequired, minimumNotificationSize)
    /\ processing' = IF processing = "noRequest" THEN "request" ELSE processing
    /\ listener' = "pended"
    /\ UNCHANGED <<m_notificationQueue, notifying, retrieved, response,
                   attempt, bytesRequired, handleValid, tasks, stopping, historyVars>>

\* The for loop goes on whether the attempt succeeded or not.
NextAttempt ==
    IF attempt < maxIoctlAttempts
    THEN listener' = "issue" /\ attempt' = attempt + 1
    ELSE listener' = "check" /\ UNCHANGED attempt

Answered(status) ==
    /\ listener = "pended"
    /\ response # <<>> /\ response[1].status = status
    /\ response' = <<>>

\* A notification: its dispatch is handed to a task of its own.
Succeed ==
    /\ Answered("success")
    /\ tasks' = tasks \cup {response[1].data}
    /\ bytesRequired' = Size[response[1].data]
    /\ received' = Append(received, response[1].data)
    /\ NextAttempt
    /\ UNCHANGED <<driverVars, handleValid, stopping, pushed, dispatched, dropped>>

\* ERROR_MORE_DATA: the part that fits is only used to size the next attempt.
Overflow ==
    /\ Answered("overflow")
    /\ bytesRequired' = Larger(Size[response[1].data], minimumNotificationSize)
    /\ received' = Append(received, response[1].data)
    /\ dropped' = dropped \cup {response[1].data}
    /\ NextAttempt
    /\ UNCHANGED <<driverVars, handleValid, tasks, stopping, pushed, dispatched>>

\* Any other failure gives up the handle.
Fail ==
    /\ Answered("canceled")
    /\ handleValid' = FALSE
    /\ listener' = "check"
    /\ UNCHANGED <<driverVars, attempt, bytesRequired, tasks, stopping, historyVars>>

\* DispatchCallbacks takes the callbacks' gate; the tasks come in any order.
Dispatch(n) ==
    /\ n \in tasks
    /\ tasks' = tasks \ {n}
    /\ dispatched' = Append(dispatched, n)
    /\ UNCHANGED <<driverVars, response, listener, attempt, bytesRequired, handleValid,
                   stopping, pushed, received, dropped>>

-----------------------------------------------------------------------------
(* NotificationListenerStop, in a thread of the connector's client.        *)

\* CancelIoEx: completes the request if one is pending in the driver's queue.
CancelIo ==
    /\ stopping = "no"
    /\ stopping' = "canceled"
    /\ m_wdfQueue' = NoRequest
    /\ response' = IF m_wdfQueue = NoRequest THEN response
                   ELSE <<[status |-> "canceled"]>>
    /\ UNCHANGED <<m_notificationQueue, notifying, processing, retrieved, listenerVars, historyVars>>

RequestStop ==
    /\ stopping = "canceled"
    /\ stopping' = "requested"
    /\ UNCHANGED <<driverVars, response, listenerVars, historyVars>>

\* Everyone waits: for more notifications, or for nothing.
Quiet == listener \in {"pended", "done"} /\ UNCHANGED vars

Process == WaitRequest \/ WaitData \/ RetrieveFails \/ Retrieve \/ Respond
Listen == Check \/ Issue \/ Succeed \/ Overflow \/ Fail

Next ==
    \/ \E n \in Notification : PushNotification(n) \/ Dispatch(n)
    \/ NotifyDataAvailable
    \/ Process \/ SpuriousWakeup
    \/ Listen
    \/ CancelIo \/ RequestStop
    \/ Quiet

\* The threads run, and a call of push or stop that has begun is completed.
\* Nobody has to push or to stop, and no wait ends by itself.
Fairness ==
    /\ WF_vars(NotifyDataAvailable)
    /\ WF_vars(Process)
    /\ WF_vars(Listen)
    /\ WF_vars(RequestStop)
    /\ \A n \in Notification : WF_vars(Dispatch(n))

Spec == Init /\ [][Next]_vars /\ Fairness

-----------------------------------------------------------------------------

\* The notifications on their way through the queue, the processing thread and
\* the completed request, oldest first.
InTransit ==
    (IF response = <<>> \/ response[1].status = "canceled" THEN <<>> ELSE <<response[1].data>>)
        \o (IF retrieved = <<>> THEN <<>> ELSE <<retrieved[1].data>>)
        \o m_notificationQueue

\* The listener gets every notification once and in the order of the pushes,
\* whatever cancellations and retries happen, and each one it got is
\* dispatched once, waiting to be, or dropped.
Conservation ==
    /\ received \o InTransit = pushed
    /\ IsInjective(dispatched)
    /\ ToSet(received) = ToSet(dispatched) \cup tasks \cup dropped
    /\ ToSet(dispatched) \cap tasks = {}
    /\ (ToSet(dispatched) \cup tasks) \cap dropped = {}

\* Unless the listener is being stopped, what is pushed is received.
PushedIsReceived ==
    \A n \in Notification :
        n \in ToSet(pushed) ~> n \in ToSet(received) \/ stopping # "no"

\* Cancelling a wait ends the listener.
CanceledWaitEnds ==
    response # <<>> /\ response[1].status = "canceled" ~> listener = "done"

=============================================================================
