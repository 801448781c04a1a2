# Verification of the Near Object framework

TLA+ models of the concurrent and stateful parts of this repository, the TLC
runs that check them on small instances, and TLAPS proofs of results that hold
for every instance. Source paths are relative to `src/`. `PROJECT.json` is the
machine-readable index: it maps every definition that models code to its lines,
lists the runs, the theorems, the hazards, and for each property a plausible bug
(a *mutant*, an operator of the model) that the property detects.

1. [The system](#1-the-system)
2. [The modules](#2-the-modules)
3. [The runs](#3-the-runs)
4. [Fairness](#4-fairness)
5. [The proofs](#5-the-proofs)
6. [What the models show of the code](#6-what-the-models-show-of-the-code)
7. [What is not modelled](#7-what-is-not-modelled)
8. [Plan](#8-plan)

## 1. The system

The framework lets applications discover "near objects" and run UWB ranging
sessions with them. From the application down to the radio:

| Part | Source | State it keeps | Operations | Talks to |
|---|---|---|---|---|
| Task queue | `lib/shared/notstd/task_queue.cxx` | queue of runnables, run state, worker thread | post, stop(run/cancel), stop-and-wait, destroy | every component that serialises callbacks |
| Near object session | `lib/nearobject/NearObjectSession.cxx` | members, ranging flag, event queue | add/remove members, start/stop ranging, end, destroy | owns a task queue; client callbacks |
| Service runtime | `lib/nearobject/service/ServiceRuntime.cxx` | running flag, service thread | start, stop, destroy | the service daemon |
| Discovery: controller manager, agents, presence monitor | `lib/nearobject/service/NearObjectDeviceController{Manager,DiscoveryAgent}.cxx`, `windows/nearobject/service/NearObjectDeviceDiscoveryAgentUwb.cxx`, `windows/devices/util/DevicePresenceMonitor.cxx` | list of devices, per-agent cache of weak references | agent start/stop, probe, arrival, departure | operating-system device notifications |
| Profile manager and persister | `lib/nearobject/service/NearObjectProfileManager.cxx`, `lib/nearobject/persist/*` | profiles in memory and in one JSON file | add, find, read and write the file | file system |
| UWB session control | `lib/uwb/UwbDevice.cxx`, `lib/uwb/UwbSession.cxx`, `windows/devices/uwb/Uwb{Device,Session}.cxx` | cache of sessions by id; ranging flag, last state, peers; callback tokens | create, get, configure, start/stop ranging, add a controlee, destroy | UWB connector, client callbacks |
| UWB connector | `windows/devices/uwb/UwbConnector.cxx` | registered callbacks, listener thread, driver handles | one IOCTL per DDI call; register, deregister; notification loop | UWB driver |
| UWB simulator driver | `windows/drivers/uwb/simulator/*` | device state, sessions, one notification queue per open file | DDI dispatch, session state machine, notification queue, random measurements | connector, through IOCTLs |
| Wire formats | `lib/shared/tlv/*`, `lib/uwb/protocols/fira/*`, `windows/devices/uwb/UwbCxAdapterDdiLrp.cxx` | none | encode, decode, convert | everything that crosses a process or radio boundary |
| Command line tool | `tools/cli/*`, `windows/tools/nocli/*` | the operations of one line and their latch, the ranging session | parse, run the commands, wait, Ctrl-C, the session's end | UWB session control |
| Daemons, secure element, smart card, helpers | `windows/tools/`, `linux/`, `lib/se`, `lib/smartcard` | little or none | start-up, stubs | the parts above |

How the parts interact, and what is hard about it:

* **A call goes down** from a session to the connector, which makes one
  `DeviceIoControl` per call (two if the first buffer is too small), to the
  driver. Every level has locks of its own and none is held across levels, so
  two calls may arrive at the driver in another order than they were decided.
* **A notification comes up**: the driver pushes it onto the queue of every open
  file, a thread of the driver pairs it with the request the connector keeps
  pending, the connector's listener hands it to an asynchronous task, and the
  task invokes the callbacks under a lock. Four threads, two condition
  variables, one cancellable request.
* **A client's callback is a weak reference** at every level. It may go away
  while an event is on its way, and it may call back into the object that
  invoked it.
* **Objects own threads** (task queue, session, runtime, connector): each
  destructor has to stop a thread, wake it if it sleeps, and wait for it, in the
  right order with respect to the data the thread uses.

What makes each part correct:

| Part | Correct means |
|---|---|
| Task queue | an accepted task runs once and in order; no wake-up is lost; the destructor returns with the work done; a cancellation cancels |
| Near object session | the events delivered add up to the session's state; nothing is delivered after destruction; the end of the session is |
| Service runtime | `Start` and `Stop` return; `Stop` ends the loop; none survives the runtime |
| UWB connector | what is registered is invoked, and what is deregistered is not; there is a listener while there are callbacks |
| Notification channel | notifications arrive in order and exactly once; a request and a notification meet; a stop ends the wait |
| UWB session control | one object per session id; ranging events alternate; the driver's state follows the flag; added controlees stay |
| Simulator | notified states are the session's states; a file's queue lives while its requests do; ids are not mixed up |
| Discovery | the list holds what is present, once; two reports of a device are one controller |
| Profiles | the file holds what was persisted, also after a crash |
| Wire formats | decode inverts encode, within the buffers; a part of an object is refused; two devices that agree on a session configure their radios alike |
| Command line tool | it waits for what it started, and ends when that has ended or the user says so |

## 2. The modules

| Module | Models | Composition |
|---|---|---|
| `SerialExecutor` | what `task_queue` promises, without threads or locks | abstract specification |
| `TaskQueue` | `lib/shared/notstd/task_queue.cxx` | implements `SerialExecutor` (`TaskQueue!SE`) |
| `NearObjectSession`, `MCNearObjectSession` | `lib/nearobject/NearObjectSession.cxx` | its queue is an instance of `SerialExecutor` |
| `ServiceRuntime` | `lib/nearobject/service/ServiceRuntime.cxx` | |
| `UwbConnector`, `MCUwbConnector` | callbacks and listener life of `windows/devices/uwb/UwbConnector.cxx` | |
| `UwbNotificationChannel`, `MCUwbNotificationChannel` | the driver's `UwbSimulatorIoEventQueue.cxx`, the pended IOCTL, and `UwbConnector::HandleNotifications` | two threads of two processes and a request between them |
| `UwbSession`, `MCUwbSession` | the sessions of one id, from `UwbDevice` and `UwbSession` through the session IOCTLs to the driver's session table | client objects and driver sessions in one module, each with actions of its own |
| `UwbSimulator` | the simulator driver: files, sessions, device state, DDI handlers, generator threads | the driver's half of `UwbIoctl` |
| `UwbIoctl` | the IOCTL functions of `UwbConnector.cxx` and of the simulator's own connector | extends `UwbSimulator`: clients and driver, step by step |
| `TlvBer` | encoding and parsing of TLV objects (`lib/shared/tlv`) | operators |
| `FiraDevice` | the neutral enumerations, addresses and parameters of `lib/uwb/protocols/fira` | operators |
| `UwbCxLrpDevice` | the driver interface `UwbCxLrpDevice.h`: numbers of its enumerations, layouts of its structures | extends `FiraDevice` |
| `DdiEnumerations` | the conversion tables of `UwbCxAdapterDdiLrp.cxx`, both directions | extends `UwbCxLrpDevice` |
| `UwbCxAdapterDdiLrp` | the conversions of messages, answers and notifications, and `flextype_wrapper`'s buffers | extends `DdiEnumerations` |
| `UwbOutOfBand` | session data, configuration, ranging and regulatory information as out-of-band objects, and `UwbOobConversions` | extends `TlvBer`, `FiraDevice` |
| `UwbCapability` | capabilities: the object and the conversion of what a driver reports | extends `UwbOutOfBand` |
| `UwbExchange`, `MCUwbExchange` | two hosts, each with a driver, and the link between them | composes all of the codecs |
| `DeviceDiscovery` | controller manager, discovery agent, presence monitor, enumerator | three threads and the system |
| `ProfileStore`, `MCProfileStore` | profile manager, file persister, a profile's JSON | |
| `CliParameters` | what `nocli` makes of the options of a ranging start | operators |
| `CommandLine`, `MCCommandLine` | one execution of `nocli`: parser, handler, control flow context | extends `CliParameters` |
| `NearObjectSession_proofs`, `UwbIoctl_proofs`, `DeviceDiscovery_proofs`, `CommandLine_proofs` | theorems on the above, each with the lemmas it needs | extends the module it is named for |
| `TaskQueue_proofs` | theorems on the threads with a loop, `TaskQueue` and `ServiceRuntime` | extends both |
| `UwbNotificationChannel_proofs` | theorems on the way to the connector's listener, on `UwbConnector` behind it, and on the sessions of an id (`UwbSession`) | extends the three |
| `UwbOutOfBand_proofs` | theorems on the objects that hosts exchange: the parser, and the conversions of session data and capabilities | extends `UwbExchange` |
| `UwbExchange_proofs` | theorems on the driver interface and on the exchange as a whole | extends `UwbOutOfBand_proofs` |

Two rules hold throughout. A critical section of a lock is one step if nothing
in it can be seen half done; whatever a thread does after releasing the lock (a
notification, a join, a call) is another step. And *history* variables, which
no guard of code reads (except to bound a model, as noted below), are declared
as such.

### TaskQueue and SerialExecutor

| Variable | Code |
|---|---|
| `runnables`, `state` | `m_runnables`, `m_state` |
| `batch` | the local `tasks` of `process_queue`, into which the queue is moved |
| `pc` | where the worker is; `"wait"` is asleep on `m_runnables_changed` |
| `call` | which threads have left the gate and have yet to `notify_all` |
| `life` | the owner: constructor, live, stopping, joining, joined, destroyed |
| `accepted`, `ran`, `doomed`, `cancelled` | history |

`Post`, `StopRun`, `StopCancel` and `Notify` are called by any client and, from
within a task, by the worker. `Construct` is a step of its own because the
constructor assigns `m_state` without the gate after the worker has started.
`StopAndWait`, `OwnerNotify`, `Join`, `Destroy` are
`stop_and_wait_for_task_completion` and the destructor, which calls it again.
Each task is posted once, so `accepted` also serves to bound `Post`.

`SerialExecutor` has no threads: tasks are accepted until it is closed, started
one by one in order, and dropped only after a cancellation. The refinement maps
the worker's batch and the queue to one pending sequence, and the worker's
place to idle, busy or halted. The hand-over that makes the code hard (move
the queue out, run it without the gate while others post) is invisible there,
which is why `NearObjectSession` composes the abstract module.

### NearObjectSession

| Variable | Code |
|---|---|
| `m_nearObjects`, `m_isRangingActive` | the members of that name |
| `pending`, `started`, `phase`, `closed` | `m_taskQueue`, as a `SerialExecutor` of events |
| `listening` | whether the weak `m_eventCallbacks` still resolves |
| `inCallback` | the worker is inside a client callback, from which it may call `StartRanging` and `StopRanging` |
| `ending` | threads between the two halves of `EndSession` |
| `life` | the destructor's progress |

One action per method. `EndSession` and the destructor post outside the gate, so
each has two steps there. The loops that filter a list of objects are `Only`, and
what a list of events adds up to is `Followed`; both are recursive functions over
an index, so that they can be proved about. Equality of objects is the code's: `operator==`
compares spatial properties, which nothing in the library assigns, so all
objects are equal to it. `nearObjects` is the list that the constructor was
given: no event reports it, so the stream of events continues from there.

### ServiceRuntime

`runner[r]` is the position in `Run()` of the r-th thread created: before the
loop's test, between test and wait (`"gate"`), asleep, woken, gone.
`m_threadMain` is the one the `jthread` owns. `control` is the position of the
daemon's thread in `Start`, `Stop` or the destructor. `SpuriousCAS` says whether
`compare_exchange_weak` may fail spuriously; a failure in `Start` or `Stop` is
a step that changes nothing and so is a stutter, in the destructor it is
explicit. `Assign` is the assignment to `m_threadMain`, which joins the thread
that it replaces and so waits while that one's loop is alive (`OldAlive`).

### UwbConnector

`callbacks[s]` has the tokens in the list of slot `s` (an event of the device, or
an event of one session); it is a set, as a token is registered once and no
property depends on the order of invocation. `deregistering[c]` holds what a caller
has resolved before it takes the gate. `m_notificationThread` and
`m_notificationThreadStartPending` are the notification thread and its flag. Of the
six lists in the code three are modelled, one of each behaviour: a device event, a session's status (whose
`Deinitialized` also invokes the session's end) and a session's end; the other
three behave as the first two. `served` is history: the tokens that were
registered before the listener was first told to stop or ended by itself.

### UwbNotificationChannel

The driver's `ProcessNotificationQueue` with its two condition variables
(`processing`), the request in the driver's manual queue (`m_wdfQueue`, by its
buffer size), the completed request on its way back (`response`), and the
listener's loop of rounds of two attempts (`listener`, `attempt`,
`bytesRequired`). `stopping` is the client in `NotificationListenerStop`,
which cancels the I/O first and requests the stop second. Notifications are
values with a size; the sizes the code computes always exceed the buffer of a
first attempt (`ChannelAssumption`), because `From(UwbNotificationData)` adds
the payload to a structure that already contains it.

### UwbSession

| Variable | Code |
|---|---|
| `m_sessions` | `UwbDevice`'s weak reference for the id, `None` if it is absent or expired |
| `held` | the shared pointers that clients keep |
| `call` | the method each client is in, how far it is, and the local values of that method |
| `m_rangingActive` | the flag of each `UwbSession` object |
| `session`, `count` | which session the driver has under the id (0: none), and how many there have been |
| `State`, `deviceType`, `addresses` | that session's state, whether its `DeviceType` is set, its `DestinationMacAddresses` |
| `replaced`, `commands`, `added` | history: has `CreateSession` displaced a live object; starts minus stops per object; controlees set since the last configuration |

Each method is cut where another thread can come between: `GetSession` looks in
the cache, asks the driver (`ResolveSession`), and looks again under the
exclusive lock (`InsertResolved`); `Configure` is `SESSION_INIT` in two driver
steps (`SessionCreate`, then the state) and `SET_APP_CONFIG_PARAMS` in two (all
parameters extracted, all inserted); `TryAddControlee` is the read of the list
in two attempts and the same set; a session is destroyed by a state change and
a removal, and the second hits whatever session has the id by then.
`IoctlFails` stands for an IOCTL that fails before the driver acts.

What the code does and a reader might not expect:

* the second attempt of a read has a buffer of the size the first one reported;
  if the list has grown, no promise is kept and the caller gets an exception;
* the status of `SET_APP_CONFIG_PARAMS` is dropped by the driver's handler, so
  setting the parameters of a session that is not there returns `Ok`;
* `SessionRangingStart` only counts in the simulator; `SessionRangingStop` sets
  the state of the session; the flag in the client is changed before either and
  is not restored if the IOCTL fails;
* an address list of more than `Copied` (two) short addresses does not survive
  the conversion (`Converted`): the addresses behind the second are read from
  the bytes that follow the copied structure, which are `Stray` here. A list of
  three gives two of them and a stray one. Stray bytes that happen to be a
  controlee's address are left out.

Abstractions: two requests that race on the parameters of one session are
interleaved at extraction and insertion only, although they mutate an
`unordered_map` without a lock. The loop over the parameters is two steps. Short
addresses only: `MacAddressMode` is never sent to the driver, and the driver
decodes every list as short. A failing `compare_exchange_weak` changes nothing
and is a stutter. `SetMacAddressType`, status callbacks and event notifications
change no variable of this module.

### UwbSimulator and UwbIoctl

| Variable | Code |
|---|---|
| `request[c]` | the IOCTL that client `c` has sent: its code and arguments, where the handler is (`at`), the shared pointers it holds (`held`), the files it still has to tell (`targets`), the buffer's size and the size reported (`size`, `needed`), the attempt |
| `m_deviceState`, `m_sessions`, `m_deviceFiles` | the members of `UwbSimulatorDevice` of that name; a session is a slot of storage |
| `session[s]` | the `UwbSimulatorSession` in slot `s`: state, `Enabled` and `Thread` of its generator, the number of its parameters |
| `generator[g]` | a generator thread: its session, its stop token, whether it has returned |
| `promise[c]` | what became of the promise of the last call: kept (a value or an exception) or broken |
| `last`, `overlapped`, `balance` | history: what a file's reader knows; whether two changes of an id overlapped; initializations minus removals answered Ok |

The driver's queue is parallel and no lock spans two accesses, so a handler is
as many steps as it has accesses: look up, change the state, copy the list of
files, tell each file, remove. A session is destroyed by whoever drops the last
reference, which may be a handler whose session was removed meanwhile; the
destructor of its `jthread` then asks the generator to stop and waits
(`SessionDestructor`). `RandomRangingMeasurementGenerationStart` looks at the
flag, sets it, starts a thread and assigns it, each a step; two starts that race
may assign a thread over a joinable one, which ends the process
(`terminated`). A getter's first attempt reports the size of the answer that
it found, its second comes back to a list that may have grown (`Asking`):
`AnsweredUnlessGrown` is about the answer in between. `UwbIoctl` has one action per function of the connectors; each
opens a handle, sends the request and waits, with a second attempt if the answer
did not fit. Two runs share these modules since the generators and the state
notifications multiply each other's states.

### The codecs and UwbExchange

The codec modules are operators, one per conversion function, with a table for
each `unordered_map` of the code in each direction. A structure of the driver
interface is the sequence of its fields' layouts in the order of the header,
from which sizes and padding follow (`SizeOf`, `FlexElement`); a message is the
record of its fields, except the array of application parameters, whose
elements have different lengths and which is a sequence of bytes. TLV objects
are bytes throughout. A decoder that throws has no outcome, one that depends on
memory that it no longer owns has several. Recursion is by recursive functions:
an object has at most two objects around it, so that `ToBytes` is three levels of one
operator, and the parser fills a table of what the first `n` of the last `k` bytes
are, as `ParseConstructedValue` calls itself on ever shorter rests of the data.

What a message may be is written down as well (`IsMessage`): a list of parameters is
one of typed parameters (`Typed`, the alternative of the variant belongs to the type)
whose sizes fit into the structures' length fields (`IsParameters`), and the other
messages have fields of the types of the code. In the same way `IsSessionData` and
`IsCapability` say what session data and capabilities are. The assumptions of
`UwbExchange` ask that of the constants; of a session's parameters they ask as well
what `GetUwbSessionData` takes for granted (`IsForSession`): it reads the device's type
from a variable that is not initialized and dereferences the first of the destination
addresses, so type and addresses have to be there. `Normal` and `Fits` say what a
passage changes and what it has no room for.

`UwbExchange` composes them as the program does: an application configures a
session on host A (`SET_APP_CONFIG_PARAMS` through the DDI), A reads the
parameters back and makes session data of them, the bytes cross a link that may
end early, host B parses, decodes and configures its own driver. Beside that,
every kind of message passes a driver interface once (`Pass`), and applications
send session data and capabilities of their own.

### DeviceDiscovery

| Variable | Code |
|---|---|
| `present`, `events`, `registered` | the system: interfaces, notifications not yet delivered, the monitor's registration |
| `cache`, `made` | the agent's `m_nearObjectDeviceCache` of weak references; the objects made per device |
| `m_nearObjectDevices`, `m_started`, `callback`, `owned` | the manager's list, the agent's flag, the manager's registered callback, the user's reference to the manager |
| `user`, `probe`, `notifier` | the three threads: user, `std::async` of `ProbeAsync`, the Configuration Manager's callback |
| `missed`, `stale`, `since` | history: devices whose arrival or departure fell into a gap; the objects made before the latest reported departure |

A weak reference resolves while the object is in the list, in a probe's result
or in a notification (`Live`). The enumeration is two calls, with a buffer of
the size the first one returned.

### ProfileStore

`file` is the JSON file: absent, truncated, not JSON, or an array. `call[t]` is
where thread `t` is in `AddProfile`: memory is changed under the gate, the file
is read, truncated and written without it, each a step. Two texts written one
over the other leave garbage unless the longer one covers the shorter. `Crash`
ends all calls and may cut a write short; a restarted manager does not read the
file. `alone` and `durable` are history: the calls that overlapped no other, and
the profiles they wrote.

### CliParameters and CommandLine

`CliParameters` has the options of `range start` whose checks concern several of
them (addresses and their mode, number of controlees, PRF mode with preamble,
SFD, PHR and STS, proximity bounds), and the ranges of single ones.
`CommandLine` has the threads of an execution: `main`, a thread per Ctrl-C, and
the dispatch task of the connector on which the session's end arrives. The
latch (`m_operationCompleteLatch`) and the plain counter beside it are separate,
and the decrement of the counter is a read and a write. The notification of the
session's end comes over the notification channel, which loses some
(section 6): `OnSessionEnded` is its arrival, `NotificationLost` its loss.
`m_activeSession`,
`m_stopCallbacks` and `taken` are the owners of the session object. A step to
`"aborted"` is `std::terminate` or a null pointer.

## 3. The runs

Every action of every module fires in them. All properties hold.

| Run | Instance | States | What it shows |
|---|---|---|---|
| `taskqueue` | 2 clients and the worker, 3 tasks, 2 stops | 31,482 | `DrainedAtJoin`, `NoLostWakeup`, `JoinReturns`; `ImplementsSerialExecutor`, the refinement with its fairness |
| `nearobject_session` | 2 clients and the worker, 2 objects, lists with one, both, or one twice, initially empty or `<<a, b>>`, 3 events | 262,070 | `MembershipStream`, `RangingStream`: the events add up to the state; `NoCallbackAfterDestruction`, `EndedBeforeDestruction`, `DestructionCompletes` |
| `service_runtime` | 4 starts, spurious failures | 199 | `StartReturns`: whether a start returns is decided when it begins; `NoLoopAfterDestruction`, `StopWakesWaiter` |
| `connector` | 2 interchangeable clients, 1 session, 4 tokens in 3 slots, 1 dispatch in flight | 2.97 million | `DeviceDeregistered`; `ServedWhileRegistered`: what is registered has a listener |
| `notification` | 3 notifications of 2 sizes, a stop at any time | 9,646 | `Conservation`, `PushedIsReceived`, `CanceledWaitEnds` |
| `uwb_session` | 2 clients, 2 objects, 3 addresses (each set interchangeable), 2 sessions of the id, IOCTLs that fail | 1.25 million | `SharedObject`, `CommandsMatchFlag`, `NoneLeftDeinitialized`, `AddedKept` |
| `ioctl` | 2 clients, every IOCTL but the trigger, 1 id, 2 slots, 1 file, 2 parameters | 1.48 million | `LastNotificationIsState`, `OkMatchesTable`, `AnsweredUnlessGrown` |
| `generator` | 2 clients that create, remove and trigger, 2 slots, 3 generator threads | 342,857 | `OneGenerator`, `CallReturns` |
| `exchange` | 2 interchangeable hosts, 3 configurations, 2 session data, 3 capabilities, 11 kinds of message | 17,800 | `Stable`, `WritesInside`: the driver interface; `ObjectArrives`, `PeersAgree`: the out-of-band exchange |
| `discovery` | 2 devices, 4 arrivals or departures, 1 stop before the agent is added | 1.19 million | `ListMatches`, `PresentIsListed`, `SharedController`, `ReleaseCompletes` |
| `profiles` | 2 interchangeable callers, 2 profiles, 4 calls, 1 death | 126,909 | `DurableStays`, `UnreadableStays` |
| `cli` | 9 lines of up to 3 commands, 7 sets of options, 2 Ctrl-C presses, a notification that may be lost | 268,852 | `WaitedForAll`, `QuietIsConsistent`, `StopEnds`, `SessionEndReturns` |

Why the bounds are enough for the cases that matter:

* `taskqueue`: three tasks allow one running, one in the worker's batch and one
  in the new queue at the same time, the only three places a task can be; two
  stops allow every ordered pair of run and cancel; two clients and the worker
  allow a notification to be owed by one thread while another posts or stops.
* `nearobject_session`: three events allow start, stop and start, an addition
  and a removal with a ranging change between them, and an event that is still
  queued when the destructor begins; the list `<<b, b>>` has the duplicate; the
  initial lists are the empty one, to which objects can be added, and one of two, from
  which they can be removed at once.
* `service_runtime`: every start joins the one before or waits for it for ever, so
  at most two runners are ever alive; four starts run through that twice.
* `connector`: two tokens in one list and two callers show every race of two
  deregistrations and a dispatch; the symmetric callers are used for safety
  properties only.
* `notification`: two attempts per round and three notifications of two sizes
  include a round that drops and delivers, a retry that is too small again, and
  a round that begins with a notification left over.
* `uwb_session`: two objects are the cached one and a second one that another
  client constructs at the same time or that `CreateSession` puts in its place;
  two sessions allow a request to find a session created after the one it was
  meant for; three addresses are one more than a copied structure holds.
* `ioctl`: two requests in the driver show every race of two handlers; two slots
  are a session removed but still held and its successor; two parameters
  let an answer grow between the two attempts of a getter, and again between
  two calls of it, one file for one that
  opens or closes while others are told. No generator runs here (`Generator` is
  empty and the trigger is not sent).
* `generator`: three threads are one that runs, one that is being replaced and
  one that a racing start makes. No file is open, since the other requests
  neither read nor write what belongs to a generator.
* `exchange`: arrays of none, one and two elements, since a buffer's size is wrong
  or right from the second element on; numbers at the ends of their ranges; one
  byte string longer than 127 bytes, where the encoding of the length changes;
  two objects, since the second configuration that a process decodes is decoded
  differently from the first; ends (`Ends`) within a tag, a length, a nested
  object and a value. `Normal` and `Fits` name what a message cannot carry
  (section 6): those messages are in the run, and `Stable` speaks of the rest.
* `discovery`: two devices allow a list to outgrow the buffer between the two
  calls of an enumeration, and one to move while the other is reported; four
  moves are an arrival, a departure, and both again.
* `profiles`: two overlapping calls and two that are alone, before and after;
  the two profiles differ in all that is written of one.
* `cli`: three commands are one before and one after the start of a session; the
  options are one consistent set for each kind of device and at least one contradiction
  of each check that relates several options; two presses are a first and a second
  request.

Deadlock is checked in eight runs: there a system that may rest does so by an
explicit action (`Gone`, `Blocked`, `Quiet`, `Terminated`) whose guard says in
which states; `UwbConnector`, whose clients may be done at any time, has an
unguarded one; in `UwbSession` and `UwbIoctl` a client that has no call open can
always make one. `exchange`, `discovery`, `profiles` and `cli` disable it, since
their systems finish: the objects are sent, the manager is gone, the calls are
used up, the program has returned. In `discovery` and `cli` the liveness
properties say that what has to finish does.

## 4. Fairness

Weak fairness of what a thread does once it can go on, of the step that follows
a call already begun, and of callbacks and tasks returning: the operating
system's scheduler justifies that much. Nothing is assumed to post, stop, call
or destroy; no wait is assumed to end spuriously; no driver to produce
notifications; no client to deregister. A join or a wait is fair only while its
condition holds, so a missed notification shows as a thread that stays asleep.
Fairness is weak everywhere.

* `TaskQueue` and `SerialExecutor` assume that tasks return, since a task that
  blocks for ever blocks the destructor by design.
* `UwbIoctl`: the handler of a request that was sent (`Runs`) and each generator
  thread (`Measures`), which sleeps for a bounded time and then looks at its
  stop token. `CallReturns` holds until a process ends by `std::terminate`.
* `DeviceDiscovery`: the three threads in the middle of their operations, not
  the user's calls, not the moves of the devices, and not the probe's time limit.
* `CommandLine`: `main`, every Ctrl-C thread that has begun and, once a session
  has ended, the dispatch of its notification *or* its loss (`NotificationLost` is
  a step of `Dispatch`, so that fairness does not make it arrive); not the user's Enter, not the press, not the driver's ending a session.
  The two conditions of `main` are fair separately, since waiting for the latch
  is no step.
* `UwbConnector`, `UwbSession`, `UwbExchange` and `ProfileStore` have no
  liveness property, as a client may stop at any time, and state no fairness.

## 5. The proofs

Eight modules hold theorems that `tlapm` checks for every value of the
constants. The assumptions are the named `ASSUME`s of the modules, which TLC
evaluates on each run: that values standing for "none" are not among the real
ones, that bounds are natural numbers, that sets that are counted are finite; of
`CommandLine`, that the mandatory options are given and that a line has no command
twice, as its parser sees to; of `UwbExchange`, that what is sent is of the types of the code
(`MessagesAssumption`, `SessionDataAssumption`, `CapabilitiesAssumption`, `SessionIdsAssumption`):
lists of any length, numbers up to the ends of their types; and that a session is
configured with enumerators of its enumerations, with the device's type and with addresses, one
of them extended where the mode is (`ConfigurationsAssumption`).

| Property of a run | Theorem | Rests on |
|---|---|---|
| `DrainedAtJoin`, `NoLostWakeup`, `ImplementsSerialExecutor` (safety) | `DrainedAtJoinHolds`, `NoLostWakeupHolds`, `Refinement` | `IInv`, `Conservation` |
| `NoCallbackAfterDestruction`, `EndedBeforeDestruction` | same names with `Holds` | `IInv` |
| `MembershipStream`, `RangingStream` | same | `IInv`, `Streams` |
| `NoLoopAfterDestruction` | same | `RuntimeInv` |
| `DeviceDeregistered` | same | `ConnectorInv` |
| `ServedWhileRegistered` | same | `ConnectorInv`, `ListenerInv` |
| `Conservation` of the notification channel | same | `OneRequest` |
| `SharedObject`, `NoneLeftDeinitialized`, `CommandsMatchFlag` | same | `TInv`, `Balance` |
| `AddedKept` | same | `Gate`, `Kept` |
| `LastNotificationIsState`, `OkMatchesTable`, `OneGenerator`, `AnsweredUnlessGrown` | same | `IInv` of `UwbIoctl_proofs` |
| `SharedController`, `ListMatches`, `PresentIsListed` | same | `Tracked` |
| `DurableStays`, `UnreadableStays` | same | `StoreIInv` of `NearObjectSession_proofs` |
| `WaitedForAll`, `QuietIsConsistent` | same | `IInv` of `CommandLine_proofs` |
| `Stable` | `MessagesArrive` | `TransferInv` |
| `WritesInside` | `ConversionsStayInside` | `WritesIInv` |
| `ObjectArrives` | `ObjectsArrive` | `ArrivesIInv` |
| `PeersAgree` | `DriversAgree` | `PeersIInv` |
| (no run) | `StartBlockedHolds`: a start that waits for a living loop waits for ever | `RuntimeInv` |
| (no run) | `EnumeratorsReturn`, `ObjectsReturn`, `ConfigurationReturns`, `SessionDataReturns`, `CapabilityReturns` | the tables; the parser's table; tags, widths and order of the fields; the digits of a byte |

What is done with an algorithm over sequences: the theorems are about any
sequence, so each needs an induction over data. The library's induction theorems
take an operator as a parameter and cannot be instantiated by the provers at hand. Where
an induction is needed it is made over the natural numbers by hand, from the
least index at which a *recursive function* would fail (`IndexInduction` in
`NearObjectSession_proofs` and `UwbOutOfBand_proofs`, `LeastElement` in `DeviceDiscovery_proofs`; both from
`WellFoundedInduction`); or it is avoided by counting indexes with `Cardinality`
(`OccurrencesIn`, `CopiesOf`).

**`TaskQueue_proofs`** (any clients, any tasks, any number of stops).
`Conservation`, `DrainedAtJoin` and `NoLostWakeup` are not inductive alone.
`DrainedAtJoin` needs to know that whatever an exited worker left behind is
doomed, and that nothing follows it. So `IInv` adds `DoomedInv` (once the queue
is canceling, or the worker has exited, every queued task is doomed) and
`ExitInv` (the queue is stopped until it is constructed; the worker has no batch
while it holds or waits for the gate, or once it has exited; it exits only when
a stop is pending; only an exited worker is joined). `Conservation` rests on
lemmas about concatenation (`AppendToConcat`, `MoveHead`, `HeadTailOfConcat`), as a post appends at one end of `ran \o batch \o runnables`
and the worker moves the boundaries.
`NoLostWakeup` is then proved relative to the invariance of `IInv`.
`Refinement` shows that every behaviour of the queue is one of
`SerialExecutor`'s safety specification: each step maps to one abstract step
(`Post` to `Accept`, `StartTask` to `Start`, `Exit` to `Halt`, the stops to
`Close` or `Cancel`, `Destroy` to `Discard`) or to a stutter. `Conservation` and
`TypeOK` are proved and not run: the refinement's run covers them.

**`ServiceRuntime`, in `TaskQueue_proofs`** (any number of starts, with or without spurious
failures). `LoopIsOwned` says that the only loops alive are the one that the runtime
owns and, in a `Start` that has yet to assign it, the one just created; two may be
alive at once there. `NoLoopAfterDestruction` follows, since the destructor
joins the owned one and no `Start` is open then; of a destructor that never returns
it says nothing. `StartBlocked` is the safety half of what `StartReturns` says of a
`Start` that finds the last loop alive: no step of anybody lets that loop end or that
`Start` go on, since `m_running` stays set as long as `Start` is open
(`Creation`). That the other starts return is liveness and only model-checked.

**`NearObjectSession_proofs`** (any callers, objects, lists and number of
events). `NoCallbackAfterDestruction` needs that a halted executor is empty and
closed and that a callback runs only while it is busy (`QueueShape`), and that a
dead session's executor is halted (`Destruction`). `EndedBeforeDestruction`
needs that `SessionEnded` is started or pending from the moment the destructor
posted it, which needs that the queue is not closed before. Events carry
sequences of objects, so the queue is typed by its own range
(`IsSequence(s)`), which avoids typing the objects at all.
`MembershipStream` and `RangingStream` say that the events, delivered and pending,
add up to the session's members and flag. They are inductive once the events are
typed (`Types`), since each method appends the event of the change that it makes;
what has to be proved is how `Followed` reads a stream with one more event
(`FollowedAppend` and its companions), what `Only` keeps of a list, and that to
remove what was removed, object by object, is to keep the others.

**`UwbNotificationChannel_proofs`** (any set of notifications of any sizes).
`Conservation` needs `OneRequest`: the connector's one request is in one place
at a time (queued in the driver, with the thread that has found data for it, or
completed), so that the places a notification passes through are empty when it
enters them. It also needs that a notification is pushed once
(`IsInjective(pushed)`): what the head of the transit is dispatched as has not
been dispatched before (`NotBefore`).

**`UwbConnector`, in `UwbNotificationChannel_proofs`** (any clients, sessions, tokens and
slots, any number of tasks). `DeviceDeregistered` speaks of callbacks that were
invoked too late. What makes it hold is that a device's token is in no list once
its deregistration has returned (`DeviceTokensGone`), whether the call erased it,
found it gone, or came after another call that had resolved it. It stays
out because only what was never registered is inserted (`OnceRegistered`), and is
out of every list once out of its own (`Lists`). Steps that only take tokens
out share one lemma (`FewerCallbacks`). Of a session's token the same is false, and
not claimed: see section 6. `ServedWhileRegistered` relates three things that different calls write:
the lists, the flag and the thread. It needs to know that nothing is registered
while there has been no listener and none was refused, and that what is served has been
registered (`ListenerInv`): so the last `StopIfLast` of a token that is served leaves none
behind, and a token that is inserted later joins a listener, starts one, or is
excepted. It takes `Lists` from `ConnectorInv`.

**`UwbNotificationChannel_proofs`**, for `UwbSession` (any finite sets of callers and addresses, any objects,
any number of sessions). `TInv` is the type invariant with what a call needs at
its stage (`CallShape`); `SharedObject` and `NoneLeftDeinitialized` are inductive
relative to it. The first holds since an empty cache entry means that nobody
holds an object; the second since each driver step that makes a session
Deinitialized is half of a request whose other half is still to come.
`CommandsMatchFlag` speaks of objects at rest; `Balance` extends it to commands
on their way (issued, plus starts about to be issued, minus stops about to be,
is the flag), which every step preserves by the facts on cardinalities
`OneMore`, `OneLess` and `SamePending`. `AddedKept` needs two more facts. `Gate`:
while the clients share one object, at most one of them is between the read and the
set of the list (the object's gate admits one, and all of them hold the same
object). `Kept`: the list that the driver has covers what was added, and so does,
with the new controlee, the list that is on its way there; between extraction and
insertion, when the driver has none, some client is on its way to insert one. A
list covers another also if it has outgrown the conversion (`Covers`), which the
conversion preserves (`ConvertedCovers`).

**`UwbIoctl_proofs`** (any clients, ids, slots, files, generator threads and
parameters). One invariant gives all four theorems. Its parts say where a handler
can be and what it holds there (`TypeOK`, `Control`); that a slot belongs to one
id as long as the table or a handler refers to it, and is as new when nobody does
(`Owned`); that who has yet to take a slot or a thread finds one (`SlotsLeft`,
`ThreadsLeft`), without which the successor of a `CHOOSE` could be anything; that
each generator thread has exactly one handle (`OneHandle`), until a racing
assignment ends the process; that the initializations minus the removals
answered or about to be answered Ok are what the table holds (`Balanced`);
that, unless two changes of an id overlapped, one request at a time changes its
state, and each file has been told the state or is among those that the request
has yet to tell (`NotifyInv`); and that a getter's second buffer is as large as
the list, unless it has grown since (`AnswerInv`). The last one is not inductive
if growth is only noted for a getter whose first answer is on its way: the handler
may have found the session and not yet looked at its list (`Asking`). Each
handler's step has a lemma per part.

**`DeviceDiscovery_proofs`** (any devices, any number of moves and stops).
`SharedController` speaks of the list alone, while an object is handed from the
cache to a probe's result or a notification and from there to the list. `IInv`
therefore speaks of every place that may hold one (`LiveKnown`): an object made
since the latest reported departure of its device is the one that the cache
names. The lookup preserves this (`ControllerAdded`), since it makes an object
only if the cached one is nowhere, and so does the extraction
(`ControllerExtracted`), after which every object of the device is of the past.
`ListChanged` is about the removal from the list, and rests on the least element
of a set of numbers being in it (`LeastElement`).

`ListMatches` and `PresentIsListed` are about the list and what is present, and say
nothing while anything is on its way. `Tracked` accounts for each device at every
moment: which threads can be where together (`Flow`); that the last notification that
waits about a device says where the device is, and that arrivals and departures
alternate (`Waiting`); how the copies in the list, the names in the user's hands and the
devices missed add up between the enumeration and the registration (`WindowInv`);
and that, once the manager has started an agent itself, the copies that it will
have when the notification in hand is handled are what the next notification
assumes (`DirectInv`). A device that came and went inside the window leaves a copy
for good (`stale`), which is why the sums count rather than compare sets. After a
probe no sum holds, since a device may be reported twice; what does is that some
thread has each present device in hand (`ProbeInv`).

**`NearObjectSession_proofs`**, for `ProfileStore` (any callers, profiles, calls and deaths).
`UnreadableStays` is an action property: from an unreadable file, with no call
between its read and its write, each step leaves the file and lets no call past
its read. Only the shape of a call has to be known (`CallShape`).
`DurableStays` says that a readable file holds, as often as it was written, what
calls that met no other have persisted. A call may be past its read when another
one completes, so the invariant also speaks of the lists that have been read
(`ReadInv`); nothing becomes durable behind them, since a call that is still alone
when it completes had no company (`AloneInv`). That a profile which is written
and read is the same one (`RoundTrip`, `DecodedOfText`) goes through the tables of
the scopes in both directions.

**`CommandLine_proofs`** (any lines, options and number of Ctrl-C presses).
`WaitedForAll` is about operations, and what a thread waits for is a number, counted
down by `main` for each operation it completes and by the dispatch task for the
session. `LatchInv` relates them: the latch is at least the number of operations that
`main` has not taken off its list, plus the one it has taken off and not counted down
yet (`ByMain`), minus the one that the end of the session has (`BySession`). So at
zero the list is empty, or has only the session's start, and then the session has
ended. For that the latch must not be counted down for the session while `main` still
owes operations it does not know of: `ParseInv` (every operation is registered before
the context is made), `Listed` (a command that has not run is still on the list) and
`SessionInv` (an end is told only of a session that was started) say so, until the
execution is over. Threads past the latch are kept apart from the ones that request
the stop first by `WaitInv`. `QuietIsConsistent` is about what one step computes:
`ParametersInv` says that what was set was computed from the options, and `QuietIs`
goes through the checks, one by one, and through the texts that became addresses
(`AddressesRead`).

**`UwbExchange_proofs`** (any hosts, messages, configurations and numbers of elements).
`Stable` is about a conversion and its inverse, applied to arrays of any length.
Three kinds of facts make it up. The tables: each converts an enumerator and
back (`EnumeratorsReturn`, table by table, as the code has one `unordered_map` for each
direction and nothing that compares them). The numbers: the bytes of a number that has
room in them give the number again. The arrays: the parameters of a request have
different lengths and are found by adding up their sizes, so that the decoder finds
the i-th one where the encoder has put it only if all the sizes before it were right.
What is put behind one another is therefore a recursive function of the index
(`Recursion`, `FlattenIs`), and each fact about it is an induction over the index,
made by hand (`IndexInduction`). What is kept of a list (`Those`) and which of
several equal ones counts (`Last`) is a matter of order, too, and has lemmas of
its own. `TransferInv` then says that each step's passage is of a message of the
constants, of what a driver has, or of what a host decoded.

`WritesInside` needs more than the sizes of one message. A driver's parameters are put
together from messages that have arrived and may have been made of an object, so
`WritesIInv` follows them: what hosts have decoded (`HostsInv`, `DecodedInv`), what
drivers have (`DriverInv`: parameters by type whose encoded values fit, the
destination addresses among them), and what was written (`WrittenInv`). What arrives
may be anything of the right size, since a structure with no room for a value keeps
a part of it.

`ObjectsArrive` rests on the theorems of `UwbOutOfBand_proofs`. `ArrivesIInv` carries
them through the exchange: an object on the link stands for session data or a
capability, and its bytes are those of its encoding, or the first `n` of them
(`OnLink`); and a driver of which parameters are read has those of a session, typed,
as many bytes as the code expects (`Configured`, kept by `AfterSetIsConfigured`), so
that what `GetUwbSessionData` makes of them is session data again (`DataOfIs`). That
is needed, since the sender's data are not the application's: they are what has
been left of its parameters by two passages of the driver interface (`ReadBackIs`).

`DriversAgree` follows the values themselves, from one driver to the other, through five
conversions of which each has its own tables. `PeersIInv` has one part for each
place at which they are: on the link (`LinkSays`), decoded (`DecodedSays`), in the driver
of the host that joined (`JoinedSays`); each says that the values there are those of
the driver of the host that sent them, which no later step changes (`DriverStays`). The
steps between the places are `ReadSays` (what was read, as a configuration), `HeardSays`
(what `Plain` leaves of it on the link) and `JoinedAgrees` (as parameters, through the
driver interface of the other host). An empty set of reports is not sent and comes
back as the default, so that part of the invariant is about `ReportsIn`.

**`UwbOutOfBand_proofs`** (any objects, session data and capabilities).
`ObjectsReturn` is about TLV objects, of up to three levels and any number of values: what
is encoded is parsed again, entirely, and of an encoded object that ends early nothing is.
The parser's table is known by its equation (`TableIs`); that it has the objects of a
sequence at the place where they begin is an induction downward, from the end of the
data (`Returns`, `ConstructedReturns`), and that an object which is cut off is refused
(`BeginningFails`) goes through the places where it can be: in its tag, its length, or
its value, and then in one of the objects in it.

`ConfigurationReturns` and `SessionDataReturns` are about what is put into objects: what
is decoded of any configuration's or any session data's object is what was encoded, up to
what `Plain` takes out (see section 6). The encoder writes the tags in the order of
their numbers and the decoder looks each one up, so what has to be shown is that a list of
names sorted by number has each once (`InOrderIs`), that no two tags of a structure have
one number (`ConfigurationTagNumbers` and the others, each from its enumeration), and that
the value found under a tag has as many bytes as its width says and
gives the value again (`ValuesArrive`, `NumberBytes`). `SessionDataTree` shows that what
session data become is an object that `ObjectsReturn` speaks of: no deeper and no
longer. `CapabilityReturns` is the same for capabilities, whose sets of values are sets of bits:
that the sum of the powers of two has exactly their digits is `BinaryDigits`, and
that no two values of a set have one bit is seen from the tables.

Every safety property and every action property of the runs is proved. Only
model-checked: the liveness properties and the fairness part of the refinement,
which are outside the prover.

## 6. What the models show of the code

The properties of section 3 hold. Several say less than one would wish, since
the code does what follows; the models have each of these behaviours. Paths are
short here: the components' sources are in `PROJECT.json`.

**Task queue and near object session**
* `task_queue::stop` assigns `m_state` unconditionally (`task_queue.cxx:59`): the
  destructor's `stop(run)` turns a pending cancellation back into a drain, and
  cancelled tasks run, although the comment on `stop` says they are canceled
  (`task_queue.hxx:104-105`). `SerialExecutor` allows it.
* The near objects that the constructor is given are reported by no event: the
  members are those plus what the events add up to (`MembershipStream`).
* `AddNearObjects` compares objects by spatial properties that are never set:
  once a session has a member, nobody else can join.

**Service runtime**
* `Run()` tests the flag, then waits without a predicate, and `Stop()` notifies
  without the gate: a stop in between is missed and the join never returns.
  `StopWakesWaiter` holds of a loop that waits.
* A `Start` that sets `m_running` before the loop that `Stop` woke has looked at it
  undoes the stop: the old loop goes on, the new thread runs the loop beside it, and
  `Start` waits for ever for the old one in the assignment of the `jthread`.
  `StartReturns` says that this is so, and that it is the only case in which
  `Start` does not return.
* `compare_exchange_weak` may fail spuriously in the destructor's `Stop`; then
  nothing is notified, and the join does not return.

**Connector and notification channel**
* A session's token is erased from a copy of its list and stays registered; if
  it is already gone, the session's other callbacks are dropped with it.
  `DeviceDeregistered` holds of the device's callbacks.
* The listener thread is never joined, so it counts as running after it was
  stopped: later registrations are not served. `ServedWhileRegistered` excepts those
  and no others; it excepts what the driver refuses or ends, too.
* The driver pops a notification before it knows whether it fits, and the first
  attempt of every round is too small for any: one notification per round is
  lost. The bound passed to the queue's constructor limits nothing.
* The I/O is cancelled before the stop is requested, and the stop is looked at
  only between rounds: a listener between two requests issues one more.
* Each notification is dispatched by an asynchronous task of its own: two of a
  session may reach the callbacks in the other order.

**Sessions**
* The structure that carries the controlee list ends in a flexible array and is
  copied without it: a third controlee is reported as added and is not, or
  displaces another. `AddedKept` excepts lists that outgrow the conversion.

**Simulator**
* Two starts of a generator that race may assign a thread over a joinable one,
  which ends the driver's process; `OneGenerator` and `CallReturns` hold until
  then.
* Two overlapping changes of a session's state may be told to the files in the
  other order; `LastNotificationIsState` speaks of those that do not overlap.
* The handler of `SET_APP_CONFIG_PARAMS` drops the status: a session that is not
  there is answered `Ok`. `SET_DEVICE_CONFIG` is never completed, and no
  connector sends it.
* Two functions (`SessionGetRangingCount`, and the others where the handle does
  not open) return without keeping their promise.

**Driver interface**
* The conversion of the device information does not shift the parts of a version:
  it ORs minor and maintenance into one byte, so that
  only a major version and a maintenance number below 16 arrive (`Fits`).
* A request to set parameters loses `MacAddressMode`; destination addresses are
  read back as short ones, four bytes of them; a figure of merit of 0 and a
  missing reason are not distinguished from their opposites (`Normal`).
* A structure with an empty array is allocated smaller than the default value
  that the wrapper's constructor assigns to it (`WritesInside` excepts it).
* `RANGING_METHOD` among a driver's capabilities makes the conversion throw; the
  others are only ever added to the members' defaults; of the HPRF parameter
  sets one byte is announced.

**Out-of-band objects**
* Integers of several bytes arrive byte-swapped; the ranging interval has two bytes;
  the ranging method is lost.
* The setters of the configuration decoder are static and bound to the builder of
  the first call: every later configuration loses its integers
  (`ObjectArrives` and `PeersAgree` except them).
* `PrfMode` in a configuration makes the decoder throw in one case and is
  Hprf if it is missing; the vendor id and the IV are written through an empty
  `optional`.
* A host that joins has no addresses, since the object carries no
  `MacAddressMode`, and takes the sender's `DeviceRole` for its own.

**Discovery**
* Devices are enumerated before notifications are registered: an arrival in
  between is missed until the device comes back, and a departure leaves the
  device listed, twice once it comes back (`ListMatches` counts them).
* If the list of interfaces grows between the two calls of an enumeration, it is
  empty. The results of a probe that takes longer than three seconds are dropped.
* `AddDevice` does not look for a duplicate (a TODO in the code): a device that
  is reported twice is listed twice, as one controller (`SharedController`).
* `m_started` stays set after a start that failed.
* If the last reference to the manager goes in its callback, the agent is
  destroyed on the thread that it waits for, which the comment at
  `NearObjectDeviceControllerManager.cxx:87-90` means to exclude.

**Profiles**
* A file that was truncated by a death or a failed write is never repaired: every
  later call throws out of the parser, although `FailedToParseFile` exists
  (`UnreadableStays`).
* `AddProfile` drops the result of `PersistProfile`, calls it without the lock
  that the persister's header asks its callers for, and nothing reads the file
  when a manager is constructed.

**Command line**
* A command that finds no device, a start that fails and a start of the
  service's ranging never signal: `main` and a Ctrl-C then wait for ever
  (`WaitedForAll` is what holds; `StopEnds` and `SessionEndReturns` speak of
  lines of which only the session is left).
* The notification of the session's end may be the one that the channel loses of a
  round: nothing counts the session's operation down, and `main` waits for ever,
  even after a Ctrl-C has ended the session. `StopEnds` and
  `SessionEndReturns` except that, and only that (`EndIsLost`).
* `--help` behind a command that is registered already ends the parse with exit code
  0: `main` goes on to wait, and the context it waits on was not created.
* A Ctrl-C before the context exists uses a null pointer, one before the stop
  callback is registered is lost, and one in monitor mode waits for Enter.
* `Destroy` of a session that has ended throws, in a stop callback
  `std::terminate`; a dispatch task that drops the last reference to the session
  takes the connector's gate a second time.
* `NumberOfStsSegments` without `RFrameConfiguration` throws out of the
  `noexcept` `Parse`. Options found invalid are logged and sent.
* The counter beside the latch is plain. `OperationSignalComplete` returns
  what was left before it counted down, not after. A Ctrl-C thread may use the
  context while `main`'s return destroys it.

## 7. What is not modelled

* Of the modelled parts, what ends in undefined behaviour or in the process's
  end, after which there is no state to check: a task that joins or destroys its
  own queue, a session destroyed from within its own callback, callbacks that
  call the connector back under its lock, a condition variable destroyed before
  the thread that waits on it is joined (`ServiceRuntime`), dispatch tasks that
  outlive the connector.
* Destruction of the connector; the callbacks a session registers with it are
  those of `UwbConnector`, not composed with `UwbSession`. The reset of the
  overlapped structure while a stop cancels it.
* The event queue of a file when the file is closed, and the stop of its thread;
  the controlees and the ranging count of a simulated session, which nothing
  reads back; `SESSION_RANGING_COUNT` and `SET_DEVICE_CONFIG`, which no
  connector sends; start-up of the driver.
* Device configuration parameters, which no connector sends; the out-of-band
  structures that nothing converts to a driver's parameters; `TlvSimple`, the
  class and number of a tag; rendering of values as text.
* `FindMatchingProfiles` and `GetAllProfiles`, which only read; the JSON of an
  identity token, which nothing writes.
* Of the command line tool: options checked alone and without effect on others,
  help and output, the list of devices in monitor mode, the WinRT session client,
  the Linux `main`, which only parses.
* Daemons, JSON macros, logging, user interfaces, operating-system wrappers and
  stubs (secure element, smart card, discovery services, the Linux UWB device):
  no state, or nothing implemented.

## 8. Plan

Done: every component of section 1 but the last row has a module and a run. To
do, the most important behaviour first:

1. **`UwbConnector` with destruction**, composed with the registrations of
   `UwbSession`: what a dispatch task may still use.
2. **Files of the simulator with their queues**: `UwbNotificationChannel` once
   per file, opened and closed while notifications are pushed.
3. **Abstract specifications** of a session as a state machine over its id,
   which `UwbIoctl` implements between overlapping changes, and of the profile
   store as a set that only grows.
