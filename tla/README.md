# A verification of the Qualcomm location HAL

This directory holds TLA+ models of the location hardware abstraction layer in
this repository, the TLC configurations that check them on small instances, and
proofs, checked by the TLA+ proof system, of what matters most. The code is the
reference: every definition names the lines it stands for in `PROJECT.json`
("map"), and where the code and its documentation disagree the model does what
the code does.

- [1 The system](#1-the-system)
- [2 Plan](#2-plan)
- [3 Modules](#3-modules)
- [4 Runs, bounds and fairness](#4-runs-bounds-and-fairness)
- [5 Proofs](#5-proofs)
- [6 Where the code differs from what it says](#6-where-the-code-differs-from-what-it-says)
- [7 What is not modelled](#7-what-is-not-modelled)

## 1 The system

The HAL sits between the Android (or Linux) location framework and the modem.
A call comes in through a front end (`android/*`), which is a client of
`LocationAPI`; that hands it to one of three adapters, each of which handles
everything as messages of a message thread: client commands, the modem's answers
and its reports. The adapters share the modem through `LocApiBase`, which has a
message thread of its own.

    front ends  (android/1.0 .. 2.1, aidl-impl)      binder threads
        |  LocationAPIClientBase: request queues, id maps
    LocationAPI                                      one mutex, three adapters
        |            |              |
    GnssAdapter  GeofenceAdapter  BatchingAdapter    messages of a MsgTask each
        |  \         |              |                (one shared thread per context)
        |   Agps, NI, ODCPI, XTRA, NTRIP, NFW
        |        \
        |         SystemStatusOsObserver, SystemStatus   data items, battery, network
    LocApiBase / LocApi library                      another MsgTask
        |
      modem                                          restarts at any time (SSR)

    utilities below all of them: MsgTask, LocThread, msg_q, LocTimer, LocHeap,
    LocIpc, loc_cfg, loc_nmea, containers and logs

Three things make the code hard. Every call to the modem is asynchronous: an
adapter changes its maps, calls, and handles the answer in a later message, when
the world may have moved on. Four kinds of actors act at any time: clients, the
modem with its restarts, the framework (power, network, data calls) and timers.
And the utilities below share memory between threads with hand-written locking.

The components follow; the same list with its status is "components" of
`PROJECT.json`, and what can go wrong, at its line, is "hazards".

| Component | State | Operations, interactions | Hard part | Correct when |
|---|---|---|---|---|
| AGPS data call manager (`gnss/Agps.*`) | two state machines with subscriber lists | ATL requests and releases of the modem, data call answers of the framework, restarts | answers carry no identity and come late; one data call is shared | lists, states and the modem's view agree; every request is answered |
| Native AGPS handler (`gnss/NativeAgpsHandler.*`) | the last network status, an observer subscription | answers data call commands within the call | unsubscribes asynchronously in its destructor | each command is answered once |
| Tracking sessions (`gnss/GnssAdapter.cpp`) | two session maps, pending messages, power and lock state | start, update, stop; multiplexing into one modem session; restarts | asynchronous answers against stops, updates, power events, restarts | the modem runs what the maps keep; answers once |
| Network initiated requests (`GnssAdapter.cpp`) | one session for ordinary, one for emergency requests, a thread each | notify, response, timeout | a thread and the adapter share the session | one response per request |
| ODCPI (`GnssAdapter.cpp`) | active request, timer, callbacks | start, stop, emergency, timer, injection | upgrades and stops race the timer | positions are asked for while wanted |
| Configuration, constellations, NFW lock (`GnssAdapter.cpp`) | what was configured, ids of the parts of a command | set, reset, enable | one command is several calls whose answers are collected; two threads write the lists | the modem goes by what is kept; one collective answer |
| Integration API commands (`GnssAdapter.cpp`) | settings kept, the pause timer, the opening of corrections | set, pause, keys, open | gps.conf is read on another thread; one timer for all pauses | settings outlive a restart; one answer each |
| Reports (`GnssAdapter.cpp`) | the mask of events, flags, what the last position used | position, satellites, sentences to clients | two ways for one position; a mask written by two threads | who wants a report hears it once |
| NTRIP and XTRA (`GnssAdapter.cpp`, `gnss/XtraSystemStatusObserver.*`) | the stream, the last status, sockets to two daemons | enable, consent, track, tell | daemons end and start at any time | the stream runs while wanted; daemons know the status |
| Geofence adapter (`geofence/*`) | map from ids to hwIds, map of geofences | add, remove, pause, resume, modify, power, restart, breach | every command is three steps per geofence; ids are reused | maps, modem and answers agree |
| Batching adapter (`batching/*`) | batching and trip sessions, distance and interval of the running trip | start, update, stop, trips completed, power, restart | success is assumed and undone; trips are multiplexed | the modem batches what the maps keep |
| LocationAPI, adapter base, LocApi base (`location/LocationAPI.*`, `core/LocAdapterBase.*`, `LocApiBase.*`) | tables of clients under one mutex and in each adapter, event masks | create, update, destroy, capabilities, open, restart | the object dies when all adapters have let go | destroyed once; the modem reports what clients want |
| LocationAPI client base (`location/LocationAPIClientBase.*`) | request queues per kind, id maps of sessions and geofences | requests and responses | answers are matched to requests by order | each request gets its own answer |
| Data item observer (`core/SystemStatusOsObserver.*`) | two maps of one relation, a cache | subscribe, request, update, drop, notify | the maps are trimmed by what the other returns | they agree; clients hear every change |
| System status (`core/SystemStatus.*`) | histories of reports, a table of networks | set, get, reset, delete | equality decides what is kept; the reset walks without the lock | readers see what was said last |
| Timer service (`utils/LocTimer.*`) | delegates, heaps, kernel timers | start, stop, expire | three kinds of threads, two without a lock | timers end once, none is forgotten |
| Timer heap (`utils/LocHeap.*`) | a tree that counts its nodes | push, pop, remove | the tree is no heap after some removals | keeps what is pushed, the soonest on top |
| Message threads (`utils/MsgTask.*`, `LocThread.*`, `msg_q.c`) | a queue, a thread, delayed messages | send, receive, unblock, destroy | destruction against use | messages once, in order |
| LocIpc (`utils/LocIpc.*`) | sockets, fragments under assembly | send, receive, listen | fragments and lost datagrams | whole messages |
| NMEA (`utils/loc_nmea.cpp`) | groups and counts within a report | sentences of a fix and of the satellites in view | counted in one pass, listed in another | what is counted is listed |
| Batching front end (`android/aidl-impl/*Batching*`) | a state, a cache | start, flush, stop, report | the cache is cleared after it was reported | each location once |
| Battery listener (`android/utils/battery_listener.cpp`) | the status, a worker | connect, changes, death of the service | a delayed status against newer ones | the HAL hears the last one |
| Stored parameters (`utils/base_util/src/nvparam_mgr.cpp`) | an SQLite file of several processes | save, get, pseudo client id | busy and failing statements | given back as saved |
| Blocking queue, threads, postcards (`utils/base_util/*`) | a queue, a thread's Runnable, a stream of fields | push, pop, close, launch; add, get | wake-ups; a failing add | nobody sleeps over an item; fields are found |
| Other front ends, configuration reader, conversions, targets, build files | - | formatting and parsing | - | - |

## 2 Plan

The most important behaviour is what the adapters do between a call and its
answer, so these modules came first. Modules are written to be proved about:
constants with named assumptions, one action per handler, no RECURSIVE operators
but in `LocHeap`, invariants that are conjunctions of named parts.

| Order | Modules | Stands for | Abstract specification |
|---|---|---|---|
| 1 | `Agps`, `AtlService` | AGPS data calls | `AtlService`: the life of a handle as the modem sees it |
| 2 | `LocTimer`, `LocHeap` | timer service and its heap | the set of members `LocTimer` assumes |
| 3 | `Geofence` | geofence adapter | - |
| 4 | `Tracking` | tracking sessions | - |
| 5 | `OsObserver`, `DataItems` | data item observer | `DataItems`: one relation whose members hear every change |
| 6 | `Batching`, `BatchingFrontEnd` | routine and trip sessions; what the framework gets of them | - |
| 7 | `NetworkInitiated`, `Odcpi` | the modem's requests to the user and for positions | - |
| 8 | `MessageQueue`, `MessageFifo` | msg_q, LocThread, MsgTask with delayed messages | `MessageFifo`: the queue each other module assumes |
| 9 | `LocationClients`, `ClientSessions`, `ClientGeofences` | LocationAPI's lifetimes, LocationAPIClientBase | - |
| 10 | `LocIpc` | fragments of LocIpc | - |
| 11 | `EngineConfig`, `EngineCommands` | what commands configure in the modem | - |
| 12 | `NetworkStatus`, `SystemStatusReports` | SystemStatus | - |
| 13 | `GnssReports`, `NmeaSentences`, `NtripStream` | what clients, streams and daemons are told | - |
| 14 | `BatteryListener`, `NvStore`, `BlockingQueue`, `Postcard` | a platform service, base utilities | - |

Components share no state but through calls that the models make inputs of, so
composition is by contract: `MessageQueue` implements the FIFO that every adapter's
`queue` or `inbox` is, `LocHeap` the set that `LocTimer` takes a heap for, `LocTimer`
the timers of `Odcpi` and `EngineCommands`, `Tracking` the sessions that `NtripStream`
and `GnssReports` look at. The `MC` modules run several small models side by side: a
behaviour is one of one part.

## 3 Modules

Common to all of them: what one message thread does for one message is one
action, since nothing else runs on that thread meanwhile; what another thread or
the modem does is another action; a call to the modem is put into a queue (`api`,
`inbox`) and answered by an action of its own. Payloads are model values. Each
module keeps its mutants next to what they change: a definition whose name
begins with `Mutant` is a plausible bug, used by nothing but the check that a
property notices it ("mutants" of `PROJECT.json`).

### `Agps` and `AtlService` (`gnss/Agps.h`, `gnss/Agps.cpp`, `GnssAdapter.cpp:6640-6760`)

`state`, `subscribers` and `agpsType` are the members of the two
`AgpsStateMachine`s (AGNSS and Internet), `created` says which exist. `inbox`
holds, for each interface, the commands the framework has not answered, oldest
first: the framework answers in order but its answer carries only the type, so
the state machine must guess which command it answers. `held` is what the
framework keeps and `atl` what the modem was told of each connection handle:
the two sides between which the code must keep the peace.

| Action | Code |
|---|---|
| `RequestATL`, `ReleaseATL` | `AgpsManager::requestATL`, `releaseATL` with `processAgpsEvent(SUBSCRIBE/UNSUBSCRIBE)` |
| `HandleModemSSR` | `AgpsManager::handleModemSSR` |
| `DataConnOpen`, `DataConnOpenBadApn`, `DataConnFailed`, `DataConnClosed`, `DataConnLost` | `dataConnOpenCommand`, `dataConnFailedCommand`, `dataConnClosedCommand` and `reportAtl...` of the manager |
| `ReportPdnTypeFromWds` | the answer of the WDS library, a GRANTED of its own |
| `CreateAgpsStateMachines` | the registration of the callbacks |

A device without MSA and MSB makes no machines (`AgpsCapable`). The callback of the SUPL
types goes to a registration of a higher priority than the last one's (`cbPriority`);
without one the machine is not heard (`Heard`), which the trouble `"no_priority"` leads
to. After a PDN lookup GRANTED comes in a message of its own; when there is none, or the
APN is empty, within the answer.

`AtlService` has one variable, the status of each handle, and says how it may
change: a handle that asked to be closed is never told that it is open, nothing
happens to a handle that is not in use but by the modem's own request, an open
one stays open until either side closes it. `ImplementsAtlService` is the
refinement.

### `LocTimer` (`utils/LocTimer.h`, `utils/LocTimer.cpp`)

Client threads (`Start`, `Stop`, `Destroy`), the MsgTask thread (`task`) and the
poll thread (`poll`) interleave at every system call that is made without a lock
(`timerfd_settime`, `epoll_ctl`) and at the unlocked read of `mClient` in
`LocTimerDelegate::expire`. Delegates are memory that is used again, so that a
double deletion or a use of a deleted delegate shows. A heap is a set; which of
several equal members is popped is open, and a timer that is pushed may be sooner than
the top, so that the kernel timer is armed again (`Update`). A call on a `LocTimer` that its client
deleted ends the model in `crashed`.

### `Geofence` (`geofence/GeofenceAdapter.*`)

A command is an array of geofence ids, of an addition as many new ones (`:309`). Its handler adds one turn per id to the
LocApi's queue; when a turn comes back (`HandleTurn`) the id is looked up and
the modem called; the answer (`HandleClientReply`) changes the two maps and, for
the last id, sends the collective response. `HandleGoneReply`,
`HandlePowerReply` and `HandleRestartReply` are the answers to calls that were
made for a client that goes away, for a power event and after a restart. `cmds`
keeps every command with its `errs` array, the true `results` and the number of
`answers`, the last two being what the code does not have and the properties
need.

### `Tracking` (`GnssAdapter.cpp:3260-4010`)

`timeBased` and `distanceBased` are the two maps of sessions. A start, an update
or a stop is handled in one step and leaves calls in `api`, each with what its
response callback captured (`request`, the `old` options). `engineTime` and
`engineDistance` are the modem's side: one time based session, and one distance
based session per id. `asked` and `answers` record what each client asked for
and was told. `UpdateSystemPowerState`, `EngineLock`, `ModemDown` and `ModemUp`
stop and restart the sessions. The order in which a map of sessions is walked is
open (`MapOrders`), as it is in the code, where it depends on client pointers.

### `Batching` (`batching/BatchingAdapter.*`)

`sessions` and `trips` are `mBatchingSessions` and `mTripSessions`, `ongoing` the
distance and interval the adapter believes the modem's one trip runs with,
`dropped` the two flags that say whether a trip that ended had the smallest,
`full` the registration for full batches. Handlers call one another and change
several of these in between, so each is a function from the adapter's state, a
record, to the next one with the `calls` it made and what it `told` clients;
`Become` makes that the next state. `engine` and `engineTrip` are the modem's
side, `Move` the way the device covers, which ends a trip. Distances are
differences of `uint32_t` and wrap around (`Minus`). A look-up that misses reads
through `end()`: what it finds is open (`odd`), and `missed` records it, or that
a trip joined when none was on its way.

| Action | Code |
|---|---|
| `StartBatchingCommand`, `UpdateBatchingOptionsCommand`, `StopBatchingCommand` | the three commands, which wait in `pending` until the engine is known |
| `HandleStartReply`, `HandleStopReply` | the answers to `startBatching` and `stopBatching` |
| `HandleStartTripReply`, `HandleJoinReply`, `HandleSpeedUpReply` | `startTripBatchingMultiplex`: the first trip, the query of one that joins, the restart it causes |
| `HandleStopTripReply`, `HandleBalanceReply`, `HandleRebalanceReply` | `stopTripBatchingMultiplex`, and the query and the restart of `restartTripBatching` |
| `HandleCompletedTrips` | `reportCompletedTripsEvent` |
| `RemoveClient`, `UpdateSystemPowerState`, `HandleEngineUp`, `HandleEngineLockStatus` | what stops and restarts all of them |

### `OsObserver` and `DataItems` (`core/SystemStatusOsObserver.*`, `utils/LocUnorderedSetMap.h`)

Both maps, the cache, the queue of the message thread, and the framework with the
items it reports (`framework`) and was asked for once (`polled`). `told` and
`wants` record what clients heard and asked for. `removeAndReturnInterset`
increments an iterator it has just erased, which is undefined: the model lets it
return any of the outcomes in `Intersets`. `DataItems` is the abstract promise,
one relation of clients and items, and `ImplementsDataItems` the refinement.

### `NetworkInitiated`, `Odcpi` (`GnssAdapter.cpp:5373-5600`, `5924-6140`)

A network initiated request shown to the user has a thread (`NiWait`, `NiExpire`,
`NiFinish`, `NiClear`, `NiInform`) that shares one of two sessions with the message
thread, whose writes under and outside the lock are steps of their own (`NiWrite`).
Every write of a field of a session that another thread may read is visible between
steps. `Odcpi` is the adapter's flag, the timer's own flag and the LocTimer behind
it, which are three things; `odOwed` is what the modem asked for and nobody has been
asked for yet.

### `MessageQueue`, `MessageFifo` (`utils/linked_list.c`, `msg_q.c`, `MsgTask.cpp`, `LocThread.cpp`)

The list with the links of its elements in both directions, the condition variable
(a receive is two steps), delayed messages whose timer calls back in two steps, and
the end: the thread and the `LocThreadDelegate` that interrupts it share the
Runnable, which goes with the last. `MessageFifo` knows only what was taken, handled
and that it ended; `ImplementsFifo` is the refinement, in which the inbox is the
walk along the links and the message the thread holds.

### `LocHeap` (`utils/LocHeap.cpp`)

The tree itself, with the recursive push, pop and remove. The tree may have equal
ranks and be less than a heap after a removal; that it holds what was pushed is
`TreeHoldsWhatWasPushed`.

### `LocationClients` (`location/LocationAPI.cpp`, `core/LocAdapterBase.cpp`, `LocApiBase.cpp`)

`lcData` and `lcWait` are the tables of LocationAPI, `lcClient` those of the
adapters, `lcMask` what each asks the modem for, `lcQueue` the one message thread
all adapters have, `lcApi` the other one, which opens the modem. Memory of a
LocationAPI object is used again after it was deleted, so a table that still has it
shows. An opening of the modem may fail (`LcOpenFails`): what it would have told the
adapters is then `missed`. `lcHeard` says who was told of the end of a destroy: nobody,
as the code's test is inverted (section 6).

### `ClientSessions`, `ClientGeofences` (`location/LocationAPIClientBase.*`)

The queues of requests and the two-way maps. The adapters are external and answer in
order. Every command carries a number that the code does not have, so that an answer
taken for another command's shows. `CsTroubles` and `CgTroubles` name what clients
may do that the code is known not to bear (section 6); the run has none of them.

### `LocIpc` (`utils/LocIpc.cpp`)

Senders cut messages into pieces; all receivers of a process put pieces together in
one map keyed by socket and length. A listener is a thread that ends with the abort
message, which goes to the receiver's own socket and may fail there: the socket has a
send timeout of two seconds (`LocIpc.cpp:202-205`), nobody looks at the result, and
listening goes on (`IpStopFails`).

### `EngineConfig`, `EngineCommands` (`GnssAdapter.cpp:1187-2600`, `3225-3290`, `7290-8395`)

Two queues: `ecQueue`/`edQueue` of the adapter's message thread and `ecApi`/`edApi`
of LocApiBase's, which does what commands sent and, for some commands, writes the
adapter's fields. `ecModem`/`edModem` is what the modem goes by, forgotten with each
restart. `EngineConfig` has the lock (MO, NFW, time zone), the constellations of two
sources and the satellites not to be used, and how the errors of the parts of one
command become one collective answer: by places that `EcPlace` counts, among the items
whose flags `AgpsConfigInject` leaves (`EcPlaced`), and without what the adapter itself
found `invalid`. `EngineCommands` has the settings that are
kept and sent again, the values gps.conf fills in, the keys, the pause of an engine
with its timer, and the opening of measurement corrections. `ecTrouble` marks what is
known to make the modem go by something else; each mark names its lines.

### `NtripStream` (`GnssAdapter.cpp:8840-9083`, `gnss/XtraSystemStatusObserver.cpp`)

`ntState` and `ntParams` are the adapter's, `ntDaemon` what each of the two daemons
knows, which end and start at any time; one that starts asks for the status and waits
for the message thread. `ntLeft` and `ntMissed` mark a running stream that was
forgotten and a start that was not looked at.

### `NetworkStatus`, `SystemStatusReports` (`core/SystemStatus.*`)

`NetworkStatus` collates one report at a time into the table of handles and the mask
of types, and passes it on to two observers; `nsUp` and
`nsApn` are the framework's truth. What is kept, what the observer caches and what
NativeAgpsHandler and the daemons hold are copies that follow by rules of their own
(`NsTold`, `NsCopied`). A reset
walks the reports while new ones come (`NsResetOne`). `SystemStatusReports` has every
other item as a function from its fields to bits, split into those that `equals`
compares and those it overlooks; the sentences, the engine's report of everything,
positions, data items, the deletion of aiding data, and three readers.

### `GnssReports`, `NmeaSentences` (`GnssAdapter.cpp:4350-5260`, `utils/loc_nmea.cpp`)

`GnssReports`: a position goes to the message thread, perhaps delayed, and through the
engine hub; which one a client hears depends on the precise positioning feature and
the sessions at each of these moments. `grMask` is computed from the clients on one
thread and changed by the hub on another, which reads it and, if it wants it changed,
writes it back; measurements and sessions at nHz are asked for together. `NmeaSentences` says of each fix and each
view of satellites which sentences come out, with talkers, modes, counts and groups.

### `BatchingFrontEnd`, `BatteryListener` (`android/`)

`BatchingFrontEnd`: each binder thread and each reporter has what is left of its
operation; a report copies the cache under the mutex, calls the framework without it
and clears under it again. `BatteryListener`: an init thread, the worker that holds
back NOT_CHARGING, and the binder thread that reconnects after the service died, with
mLock held.

### `NvStore`, `BlockingQueue`, `Postcard` (`utils/base_util/`)

`NvStore`: managers of several processes over one file; a statement is a step, and
others come between two of them. The adapter has an engine hub, which may refuse a lever
arm (`nvRefused`); one that was refused is kept and saved like any other. `BlockingQueue`: waits end for no reason, too, and a
thread takes its Runnable with it. `Postcard`: fields that are written one after the
other and found by a walk; what the walk cannot pass is kept.

### `MCGnss`, `MCRecords`, `MCServices`, `MCGeofence`, `MCTracking`, `MCBatching`

Each runs several components in behaviours of their own: `part` is chosen in the first
state, and the variables of the other parts stay in their initial state, which is
pinned to one where it is open. A property that several parts have in common is a
conjunction; a conjunct is guarded by its part where that spares TLC work, which
changes nothing, as the others hold in the initial state.

## 4 Runs, bounds and fairness

Deadlock is not checked: every model is bounded (requests, queues, events, clock)
and all its actors may stop, so a state without a successor is the normal end of
a bounded run. That nobody waits for somebody who is not coming is stated by
properties instead: `RepetitionIsComing`, `RequestsAreAnswered`, `CommandsAreAnswered`,
`SoonestIsArmed`, `WantedIsHeard`, `QueuesHandOver` and the liveness properties.

| Run | Question | Distinct states |
|---|---|---|
| `gnss` | AGPS under all troubles, network initiated requests, on demand positions: is what the modem asks for kept, answered and ended? | 140,431 |
| `records` | Timers and their heap, subscriptions, system status, a client's sessions and geofences: is the record true? | 568,550 |
| `services` | Queues, messages between processes, sentences: does what is sent arrive? Do LocationAPI, the adapters and the modem agree on who is there, and is a destroy carried out? | 153,057 |
| `geofence` | Do geofence maps, modem and answers agree? Does the stream run while wanted? Do reports reach their clients? | 2,786,898 |
| `tracking` | Does the modem run and go by what the adapter keeps, and is each command answered once? | 1,884,298 |
| `batching` | Does the modem batch what the adapter keeps, and does the framework get it? Battery; base utilities | 1,587,779 |
| `agps_left_behind` | violation: a data connection is left up for nobody | 582 until found |
| `timer_early` | violation: a timer expires before its delay | 6,128 until found |
| `ipc_stop` | violation: a stopped receiver goes on listening | 2,972 until found |
| `geofence_reused_id` | violation: an added geofence is not monitored | 16,931 until found |
| `tracking_refused` | violation: a client told SUCCESS has no session running | 11,058 until found |
| `os_observer_update` | violation: an updated subscription is not heard | 9,849 until found |

The bounds of each part, and why they are enough:

- *AGPS.* 2 handles, 2 unanswered commands per interface, 1 lookup, 1 restart of the
  modem; the part `agps_troubled` has one more command and adds bad APNs and
  registrations without a priority, after which some opens are not answered: it is
  asked for safety only. What matters is whether a subscriber is alone, first or last in
  its list, and whether an answer crosses one newer command: two handles give the first,
  two commands in flight the second. An answer to an open may be looked up or, as for
  an empty APN, granted at once. `UseEmergencyPdn` is FALSE: that `SUPL_ES` is then never
  asked for is what `CommandsNameOwnType` says. The safety properties are proved for all
  bounds and switches.
- *Network initiated requests.* 2 requests of 6 kinds, 2 answers of clients, 1 change of
  the client. With the switches of the run four of the kinds are decided without
  asking (each of DENY, twice, and ACCEPT, twice); the user is asked about an emergency
  (`sessionEs`) and about a voice call's request (`session`). So one request follows
  another in the same session, or each has its own; an ordinary one comes while an
  emergency has its session and is freed; an accepted emergency writes IGNORE into the
  ordinary session, as does an emergency for which no client listens; and the answer to
  one request may meet the other's session. A control plane request is decided or goes
  to `session` like the voice call's.
- *ODCPI.* 5 starts and stops, 3 events, 2 priorities: an upgrade, a stop and a start
  again around one expiry.
- *Timer.* 2 timers, 2 delegates, 1 heap, delays of 1 and 2, clock to 3: one delegate is
  stopped while the other expires or is started, and one that is started while the kernel
  timer runs may be sooner, so that it is armed again, later or equal. Heaps share nothing but the threads.
  *Heap.* 4 objects of 3 ranks: the smallest tree in which a removal leaves less than
  a heap.
- *Observer.* 2 clients, 2 items, 2 values, 2 messages under way, 4 in all: the maps
  relate pairs. Proved for all bounds.
- *Networks.* 3 networks of 2 types, an APN, a table of 2, 2 reports kept, 5 reports: two of one
  type, a table that is full, a report that pushes another out.
  *Status.* 2 sets of fields, 2 reports kept, 3 events: something, something else, and
  a deletion or the first again.
- *Client base.* 2 ids and 5 commands, or 3 commands and 2 fences: an id that is used
  again while the answer to its former use is under way.
- *Queue.* 3 messages, one before, one at and one behind the one in hand. *LocIpc.* 2
  senders, 2 messages of up to 2 pieces, a buffer of 2: pieces of two messages mix, a
  buffer is full. *Clients.* 2 objects, 2 adapters (one of which may
  fail to load), 3 calls, 1 modem event, 1 failing open: create, update, destroy while
  the modem restarts, and is opened or not. Calls and modem events wait while more than
  one message does: a client is destroyed or changed with its addition still under way.
- *Sentences.* Fixes that differ by satellites, by what helped and by engine, and views
  of up to 3 of 10 satellites; the limits 12, 4, 12 of the code are 2, 2, 4, so that
  each is reached and exceeded.
- *Geofences.* 2 geofences, 2 options, 2 hwIds, 2 commands, 1 restart or power event. One
  array of one and one of two ids give the first and the last item of a collective
  response; two commands overlap in all three of their steps; two hwIds let the modem
  use an id again.
- *Stream.* 2 streams, one of which needs the position, 2 sessions, 4 events, 2 messages
  under way. *Reports.* 2 clients, 2 configurations, 3 kinds of fixes, 2 fixes, 2 events:
  the second fix overtakes or follows the first, with the feature changed in between.
- *Tracking.* 2 sessions of 2 clients, 3 options, 3 requests, 2 messages under way, 1 event
  of each kind. Two sessions at a fast and a slow interval are what multiplexing tells
  apart. Three requests give start, update and stop of one session, or a start, an
  update that joins it and a stop of the first.
- *Configuration.* `AGPS_CONFIG_INJECT` is set, 4 GnssConfigs (two that lock and list
  differently, one with a server that is not for SUPL, one with server and version, which
  change places), 2 satellites, 2 lists, 3 events, 2 messages under way; *settings* 2
  settings, 2 events (3 were explored: 3.2 million states): two commands cross on the
  two threads, or one and a restart.
- *Batching.* 2 sessions of 2 clients, 4 options, 3 events, 2 messages under way, 2 moves,
  `uint32_t` modulo 8. `MaxEvents` bounds requests, clients that go, suspends, locks,
  restarts and refusals together; unlocks and resumes come for free. A near trip with a
  long interval and a far one with a short one are what balancing tells apart, and two
  moves complete either. The modulus only has to exceed every distance.
- *Front end.* 1 life of the framework, 1 flushing thread, 4 operations and locations.
  *Battery.* 3 statuses, 3 changes, 2 deaths.
- *Store.* The adapter's process and another, 2 random ids, 2 users, 2 saves, 1 trouble.
  *Handover.* 2 threads, 2 pushes. *Postcards.* 2 cards, 2 names, 2 adds each.

Fairness, and why the code justifies it:

- `gnss`: the framework answers each command and the lookup answers (`NativeAgpsHandler`
  answers within the call, the message thread loops for ever), the modem closes a
  connection it has open; nothing is assumed of which answer it is. The thread of a
  network initiated request goes on and the message thread completes its writes; the
  ODCPI timer goes off and its message is handled.
- `records`: the MsgTask thread and the poll thread loop for ever, and time passes
  (`ClockStep`, in the timer's part only). Clients owe nothing.
- `services`: the message thread, timers that call back and those who end a task go on;
  a sender sends the pieces of the message it began, a listener receives; both message
  threads of the adapters loop for ever. Who sends, ends a task or calls LocationAPI owes
  nothing, nor does the modem, and a stop may fail.
- The others check safety only and assume no fairness.

A part's fairness is that of its own variables and asks for nothing in its initial
state, which it keeps while another part runs.

The conditions within the properties are the code's own limits, found one
counterexample at a time and described in section 6; each is as narrow as the
counterexample. `Quiet` says that no call and no message is under way, the only
moments in which the two sides can be compared. `Settled` (geofences) leaves out
additions of a client that goes away meanwhile and restarts together with power
events. `Refused`, `failed` and `Undisturbed` (tracking) leave out what a
refused call, a failed call or an event is known to break, `missed` (batching)
what a trip that is gone is known to break, `ecTrouble`, `ntLeft`, `ntMissed`,
`nsStray`, `blStale`, `nvRefused`, `lcModem.missed` what section 6 says of these. `edLapped` are the
pauses that overlap, whose answers are not claimed (`GnssAdapter.cpp:7939`). `Impatient` says for
which requests a client does not wait for the answer: starts and stops, not
updates.

## 5 Proofs

TLAPS checks about 28,000 obligations in eight modules; 38 theorems are listed. They
hold for every value of the constants that the named assumptions allow: any clients,
sessions, geofences, options, satellites, threads and parameters, and any bounds. A
theorem of the bounded systems is one of the unbounded ones too, since every finite
behaviour of those is within some bound. What the theorems assume of constants is in
`ASSUME`s of the modules that declare them, which TLC evaluates: that there are
finitely many sessions, geofences, hardware ids and threads at a time (their ids have
32 bits), that `None` is no member of the sets it is an alternative to, that inputs
are of the type the code gives them, that no random number drawn for a process id is 0
(`nvparam_mgr.cpp` takes 0 for "none was stored").

Each argument has the same shape. The property speaks of moments in which nothing is
under way, and says nothing of the others; so it is not inductive. What makes it so
is a statement of what is under way *means*: which answer is owed for it, which
message about the same thing is the last one, which thread still has to act. Every
handler is one lemma that keeps this, every part has a lemma that the property follows
when nothing is under way any more, and a theorem of the composition puts them
together (a step is one of one part and leaves the variables of the others alone).

**`AgpsProofs`** (`Agps`, `AtlService`).

- `TypeCorrect`, `ReleasedMeansUnused`, `ConnectionAlwaysWanted`,
  `SubscribersAlwaysMatch`: a machine is RELEASED exactly while nobody subscribes, the
  connection is there while somebody waits for it, and every subscriber's status is
  what the modem was last told.
- `ImplementsService`: each step is one of `AtlService` or leaves the handles as they
  are.
- `AnswerAlwaysComing`: if the framework reports no bad APN and registers with a priority,
  a machine that waits has an unanswered command of the right kind.
- `CommandsAlwaysNameOwnType`: no command asks an interface for another one's type, or
  for the emergency PDN against the configuration.

"Released iff no subscribers" is not inductive: a denied open empties the list and a
request fills it, but that a release finds its handle in the list, active, and in one
list only depends on what the modem was told. `Inv` adds that (one subscription per
handle, statuses match, used handles subscribe) and that a machine which does not
exist is in RELEASED. `AnswerAlwaysComing` needs one more invariant per interface,
`Coming`, about the last command in the queue.

**`ServicesProofs`** (the run `services`, and `OsObserver`): what the other parts build
on.

- `QueueImplementsFifo`: what is taken is handled once and in the order it was taken, or
  dropped with the queue. The linked list is two chains of pointers; `MqListed` says that
  both go through one sequence without repetitions, which has just the messages whose
  life is "listed", and the sequence is what the step of `MessageFifo` is about.
  `MqOwned` says who has each other message (the thread, or a timer that has not called
  back) and `MqEndsWell` how far the two ends of the Runnable have come. Under
  `MqTroubles = {}`: a timer that calls back while its task is destroyed has its message
  deleted twice (section 6).
- `ClientsAreAlwaysThere`: nobody mentions a client that is gone, no client waits for an
  adapter in vain and the modem sends what the clients want. `LcAt` tells for each client
  and adapter which messages about them may be under way, in which order and what the
  table of the adapter has meanwhile: nothing about who is free, nothing behind the
  removal of who is destroyed. `LcWaits` says that a client waits for an adapter
  exactly while the answer to its removal, or the removal itself, is under way; `LcAsks`
  that each mask is what the clients of that adapter want and that the modem was told or
  will be, unless its last opening failed.
- `MessagesAlwaysArriveWhole`: a message that is cut into pieces arrives whole, in order
  and once. For messages before which none of the same key failed, `IpLinked` says that
  every piece has the one before it right behind it, in the socket or as the last one
  in the map; `IpGathered` that what the map has for a key is the beginning of one
  message, the oldest of that key, whose end is still to come; `IpBuffered` that the
  pieces of a sender are in order and that of a message sent to its end the last piece
  is not taken before the others; `IpIsHanded` that of a message handed over no piece
  is left. The hypothesis `IpAlone` is that the process has one receiver, as in the
  run: the map belongs to the process (`sSockToPayloadMap`, `LocIpc.cpp:71`), and
  a receiver whose `recvfrom` fails clears it (`:176`), so pieces meant for another receiver
  would be put together with those of its next message.
- Of `OsObserver`, `TypeCorrect` holds of everything.
  `MapsAlwaysMatch`, `FrameworkAlwaysAsked`, `WantedAlwaysHeard` and the refinement
  `ImplementsRelation` assume `UpdatesAgain = FALSE`, that clients only begin with an
  update: the run `os_observer_update` shows that they fail otherwise, and nothing in this
  repository calls `updateSubscription`. `WantsFollow` says that the last message about a
  client and an item decides whether the client wants it, and where there is none the
  maps do; `UpdatesComeFirst` that an update in the queue finds its client without items;
  `NobodyIsStale` that whoever has an item knows its latest value.

**`GnssProofs`** (the run `gnss`: `GnssTypesCorrect`, `RequestsAlwaysKept`,
`GnssImplementsService`). `NetworkRequestsHaveOneOwner` and `RepetitionAlwaysComing` are
its parts; `NiInv` follows a session from the modem's request through its thread to the
one answer, and `OdInv` relates the ODCPI timer, its flag and the events counted.
`TroubledAgpsIsSafe` carries the invariant of `AgpsProofs` to the second instance of the
AGPS machines, in which every trouble may happen.

**`FencesProofs`** (the run `geofence`).

- `DaemonsAlwaysFollow`, `WantedStreamAlwaysComes` (NTRIP and DGNSS). `NtDaemonInv`
  follows what each daemon was told to what it answered; `NtStreamInv` says that the
  parameters kept are those of the stream that was started, and that a stream which
  waits is one that needs a position.
- `ReportsAlwaysReach` (positions, NMEA, satellites and measurements to clients).
  `GrInv`: the mask of reports, with what was just taken away, has what the clients want
  (`GrMaskIsWanted`), the satellites marked as used are those of the position that came
  before (`GrFlagsFollow`), a client hears only what a session of its own is for, and
  once (`GrToldInv`).
- `BreachesAlwaysReach`, `CommandsAlwaysAnswered`, `FencesTypesCorrect` (geofences).
  `GfBreaches` relates a breach under way to the geofence its hardware id stood for when
  the modem sent it, which the modem may meanwhile have given to another; `GfItems`
  that an item of a command without an answer is on its way to the modem or back, and no
  other; `GfAnswers` what the collective response holds meanwhile.
- `FencesAlwaysKept` (the maps and the modem agree). The messages on their way are read
  as a function: `FkFuture(W)` says that `W[i]` is what `mGeofences` will be once the
  first `i` of them are handled, that the last `W` is what the modem has now, and that an
  answer to an addition finds its hardware id free there. `FkOnce` and `FkNowhere` follow a
  geofence through `W`: it is in it without a gap and with one id, and not at all while
  its addition, by its client or by a restart, is still to come (`FkTokens`: at
  most one is). So a restart, which asks for all geofences again, doubles none. `FkPaired`
  is the bijection of the two maps at every step, `FkOrderly` who may not be suspended.

**`BatchingProofs`** (the run `batching`).

- `BatteryAlwaysKnown`: `BlInv` has the place of each thread, what died and who tells.
- `StoreAlwaysKeeps`: of every statement at which a process may end, the file holds
  the old value or the new one, and the process id and the lever arm what was saved last;
  the engines have that lever arm unless they refused it when it was given to them.
- `QueuesAlwaysHandOver`: `BqInv` says that while somebody waits there are no more items
  than threads woken for them, and who may still use a thread's Runnable.
- `BatchesAlwaysReach`: `BfInv` says what the front end owes: who was batching
  (`BfWas`), that the state follows the last event (`BfFollows`), that each location
  reported is told once (`BfOwes`) and in order (`BfOrdered`).
- `UtilitiesAlwaysKeep` takes the queues and the parameters together with the postcards
  (`CardsAlwaysRead`). `PcInStep` says that up to an add that failed half way the bytes
  of a card are, field by field, what was added, and that there the field without bytes
  stands which no reader gets past; `PcWithin` that a card within another was complete.

**`TrackingProofs`** (the run `tracking`).

- `ConfigurationOutlivesRestarts`: the modem goes by all that commands and answers left
  configured once nothing is under way, whatever restarted or was refused. The queues are
  several and cross, so the invariant is about the *last word*: of the messages
  about one setting in a queue, what the last one says is what the adapter wants
  (`Ends` of `DataInduction`), or the modem is down and a restart comes that says it
  again. `EcInv` has this of satellites and switches, `EdInv` of each setting.
- `RequestsAlwaysAnswered`: `RqInv` counts. `DueOK`: what a session has been
  answered, and the calls, the modem's answers and the requests that wait for the
  engine, are together never more than was asked, and just as many if nothing was
  refused and the modem did not restart. `EarlyOK` and `StopsOK` say for which calls an
  answer may be given at once.
- `ConfigurationAlwaysAnswered`: each command that configures or sets something is
  answered once. The answer has as many errors as the modem refused items, and each is
  told for its item, where gnssUpdateConfig takes the items in the order of the flags: not
  with both SUPL version and server, SUPL mode before the satellites, or an item whose
  flag is cleared for want of AGPS_CONFIG_INJECT. It holds whether that is set or not. An
  item that the adapter itself found invalid is told SUCCESS, and
  nothing is claimed of it; nor of pauses that overlap. Both parts count where a command is:
  `EcOwed` and `EdOwed` say that one without an answer is in exactly one place (a message
  to the adapter, what was sent to the modem for it, or what the thread still does for
  it) and one that was answered is in none. On top of that the places are told apart by
  what is known there: in `EcAnswersOK` the errors that travel with a command are those
  of the items the modem refused so far; in `EdTruthOK` success is on its way only for
  what was done; `EdCorrOK` says what is told of measurement corrections when they open.
- `TrackTypesCorrect`: sessions, configuration and settings keep their types.

**`SessionProofs`** (`SessionsStayEnded`: a session that its client stopped or left behind
is not brought back). It goes on from `RqInv` and follows one session: `SsMaps` (it is in
one map at most), `SsStarts` and `SsUpdates` (at most one start waits and at most one
update is under way, and then nothing else is), `SsCalls` (what the answer to a call
will do finds the maps as the call left them), `SsStopped`, `SsGone` (the modem was
told to stop what a client that is gone had by distance, or has stopped it). Its hypothesis is
`"update" \notin Impatient`: a client waits for the answer to an update before it asks for
anything else of that session. Without it the property is false, and section 6 says
how: the answer to an update that switches modes saves a session that was stopped
meanwhile.

**`DataInduction`** holds what these need of data. The library's induction theorems take
operators as parameters, which no installed prover can instantiate, so induction is
stated for a set of numbers, and from it follow facts about `FlattenSeq`, sequences
of a set, counting (`HowMany`) and last words (`Ends`) in a queue that grows at one end
and shrinks at the other.

Only model-checked:

- Liveness (`EveryOpenAnswered`, `EveryCloseAnswered`, `EveryRequestEnds`,
  `EveryStartEnds`, `EveryDelegateDeleted`, `EveryoneIsServed`): the prover does not
  reason about ENABLED.
- What a module with a RECURSIVE operator states: the heap of `LocHeap`, whose tree is
  taken apart recursively, and with it the composition `MCRecords` (`RecordsTypesOK`,
  `TimersAreKept`, `StatusIsKnown`, `ClientBaseKnows`).
- So far: of the run `services` the types and `SentencesAreTrue`; that the modem runs
  the sessions its clients have (`ModemRunsTheSessions`, `SessionsAreServed` and
  `StoppedStaysStopped` of batching), whose invariant has to say what every call under
  way does to the modem's tables; `BatchTypesOK`.
## 6 Where the code differs from what it says

Six divergences have a run that shows them ("findings" of `PROJECT.json`, with
the lines they contradict):

- AGPS answers shift by one after a denied open crosses a release, and a granted
  connection stays up without subscribers (`agps_left_behind`).
- `MsgTimerExpire` pops the top of the heap before it compares any time, so a
  timer can expire early (`timer_early`).
- A geofence call made with an id from before a modem restart hits whatever has
  that id now (`geofence_reused_id`).
- A session that joins one whose start the modem then refuses is told SUCCESS and
  is never started (`tracking_refused`).
- `LocIpcRecver`'s abort message goes to the last sender with an address, so a stopped
  receiver goes on listening (`ipc_stop`).
- `LocUnorderedSetMap::update` returns what is kept, where its comment promises
  what is removed; a client that updates loses what it keeps (`os_observer_update`).

Others were met while modelling. The models do what the code does, and where a
property would trip over one it says so in its comment:

- *AGPS.* The HIDL services register their AGNSS callback without a priority
  (`android/1.0/AGnss.cpp:116-120`), so it is not taken (`Agps.cpp:549`): the framework is
  never told of an open for SUPL, and the modem is never answered. A connection with a bad APN is reported as closed, which a PENDING
  machine ignores (`GnssAdapter.cpp:6733`, `Agps.cpp:241`). A subscriber that
  waits for its close is told that its open failed when the request is denied
  (`Agps.cpp:282`).
- *Timers.* `stop()` and the callback may be called on a `LocTimer` that its
  client deleted meanwhile (`LocTimer.cpp:524`). The kernel timer of an empty heap
  is not disarmed (`LocTimer.cpp:303`): a spurious wake-up.
- *Geofences.* The response goes out when the last id is done, early if that one is
  unknown (`GeofenceAdapter.cpp:398`). A refused modify is answered SUCCESS
  (`:618`), a refused resume never (`:527`). A power resume also resumes what the
  client had paused (`:914`); a pause is lost in the second restart (`:192`). A
  removal while the geofences come back is told ID_UNKNOWN (`:169`). A restart
  while the system sleeps loses the geofences (`:150`). An addition under way is
  saved for a client that is gone (`:64`).
- *Tracking.* A restart, an unlock or a power event starts a distance based session
  again that is being stopped (`GnssAdapter.cpp:3318`). The answer to a failed
  start reads the lock when it is handled and may erase a session that a restart is
  starting (`:3720`). A start that waits for the engine's capabilities is
  overtaken by its stop and starts afterwards (`:3566`). The late answer to an
  update saves a session that was stopped (`:3886`, `:3840`), and a refused update
  restores options of one (`:3757`). A start while suspended is answered
  NOT_SUPPORTED, and starts on resume (`:3690`, `:3608`). An update while suspended
  starts the engine (`:3737`). A refused stop within an update by distance is never
  answered (`:3876`). Invalid options are not answered (`:3571`).
- *Batching.* A trip that joins another is not saved in `mBatchingSessions`, so it can
  not be stopped or updated (`BatchingAdapter.cpp:847`), and a stop or an update of
  an id that is not there is not answered (`:487`, `:531`), where `LocationAPI.h:115-127`
  promises `ID_UNKNOWN`. A trip that was stopped or completed stays there: full
  batches stay registered for, and when its client goes away or the device suspends
  the trip is looked up where it is not (`:952`), which may end the modem's trip of
  another client. Suspending stops the trips without erasing them, which balances
  and restarts them (`:947`), and stops a client's sessions once for each of them
  (`:1114`). A trip that joins while the ongoing one is not started yet, being
  stopped or completed is told SUCCESS and runs late, with a wrong interval or
  never; one whose query failed is told SUCCESS and not saved (`:847`). A stop between
  the query and the restart of a balance leaves the modem's trip running for nobody
  (`:1068`). An update is answered twice, once as the stop; a refused stop restores
  the options it carries, defaults unless it was an update, even for a client that is
  gone (`:571`). The flags of dropped trips are never cleared (`:987`). A trip
  that joins and causes a restart loses what the others covered since the last report
  (`:890`). `restartSessions` clears the distance of a copy (`:273`). A start waits
  for the capabilities, its stop overtakes it; a start while suspended starts.
- *Observer.* An item that `requestData` asked for first is polled, and a later
  subscription does not subscribe to it at the framework
  (`SystemStatusOsObserver.cpp:115`).
- *Network initiated requests.* After its answer a thread frees the session and then,
  without its lock, clears fields that a new request may have written
  (`GnssAdapter.cpp:5494`); the comment at `:5474` names a function that does not exist.
  A request without a client that listens is neither answered nor freed when it is an
  ordinary one. An answer that comes late may be taken for a newer request's. When
  `pthread_create` fails the session stays taken. Nothing happens to a session when the
  modem restarts.
- *ODCPI.* A late start that is no emergency overwrites an emergency that is not fired
  yet; a START while the timer runs leaves the emergency status unset, a STOP of an
  ordinary request leaves it set; a restart while suspended keeps the mask;
  `setControlCallbacks` ignores the priority.
- *Message queues.* A callback of a delayed message in between the destruction of its
  task deletes twice (`MsgTask.cpp:87`; `MqTroubles`). A message sent to an unblocked
  queue is lost.
- *LocIpc.* Pieces of messages of one length mix after a failed send; a receive that
  fails clears the map of the whole process. An abort message that finds the receiver's
  socket full for two seconds is not sent and not sent again, and listening goes on
  (`LocIpc.cpp:202`, `:240`).
- *Clients of LocationAPI.* The callback that tells the end of a destroy is called if it
  is empty (`LocationAPI.cpp:213`, `:390`): against `:353` a client that gave one is not
  told, and one that gave none makes the HAL call a null function when nothing is loaded.
  A modem that cannot be opened is not opened again until its
  next restart or the next change of the mask (`LocApiBase.cpp:113`, `:135`), and clients
  that wait for the capabilities are not told. `destroy(nullptr)` leaks. A client
  that loses its gnss callbacks stays a gnss client. A failed start leaves `mTracking`
  set. Overlapping commands of one session shift the answers by one; geofence commands
  with gaps, ids added again and resumes go astray (`CsTroubles`, `CgTroubles`). When the
  array of control requests is reset once, `mSessionArrayPtr` stays null, and
  `onGnssUpdateConfigCb` is never called (`LocationAPIClientBase.cpp:47-252`). Power and
  battery events reach only adapters that are loaded (`LocationAPI.cpp:1070`, `:1152`).
- *Configuration.* Errors are collected in the order of the engine's answers, server
  before version, and without PDN, emergency and mode, against the order of the flags
  in `ILocationAPI.h:270`; with `AGPS_CONFIG_INJECT` = 0
  those of the flags it clears take no place (`:1398`), so later errors are told for other
  items. An assistance server that is not one for SUPL is not set, but its
  INVALID_PARAMETER is captured and not used (`:1712-1717`, `:1788`): the item is told
  SUCCESS, against `ILocationAPI.h:277`. `gnssUpdateSvConfig` sends the old constellations (`:7421`) and
  satellites without those of disabled constellations (`:7441`). A constellation that is
  enabled again takes single satellites off the modem's list (`:2437`). The lists are
  written on two threads (`:1545`, `:1876`), pending configurations sent after newer
  ones; a setting may be overwritten by gps.conf between the look and the load
  (`:1308-1348`), and is then lost with the next restart.
- *Integration API.* One timer answers all pauses: a second one within 400 ms replaces
  the first, which is not answered, or is answered early and twice (`:7939`). Of a
  Merkle tree the first error is ignored; a refused value is kept and sent again; a
  configuration of secondary bands of the wrong size is not answered (`:1902`).
  `openMeasCorrCommand` writes the callbacks on the caller's thread.
- *Stream.* Enabling another stream forgets the one that runs, without a stop (`:8864`).
  A refused start of the last session leaves the stream running; a withdrawn consent
  leaves one that waits stuck, and a position in the saved start string; a refused
  restart and the stream of gps.conf are not looked at; the path for nHz sessions
  (`:3732`) never looks. A register that could not be sent is taken for sent. XTRA's
  `mPowerState` is uninitialized, and missing from the status a daemon asks for.
- *Networks.* A report of Wi-Fi takes the APN of the mobile network that is up from
  NativeAgpsHandler (`SystemStatus.cpp:1672`), and a new APN that comes alone never gets
  there: `copyFrom` compares APNs the other way round than the rest
  (`DataItemConcreteTypes.cpp:669`). When a network goes while another of its type is up, only that type stays
  in the mask, so AGPS refuses though a mobile network is up (`SystemStatus.h:560`). The
  first report of a network that is down is kept as up. The reset walks only the reports
  that are kept, without their lock (`SystemStatus.cpp:1415`), where `ILocationAPI.h:586`
  promises "Resets all cached network info in HAL".
- *System status.* `equals` overlooks fields: of a position all but its place, of RF
  parameters the jammer, of the best position whether it is one, of satellite health
  NavIC (`SystemStatus.cpp:1484`). Sentences with too few fields and engine reports leave
  members uninitialized that are shown as data; BDS XTRA validity is read from GLONASS'
  mask; health of unknown and SBAS satellites overwrites GPS' first. `getReport(latest)`
  omits six items. After a deletion the gain control shown at the week's start is the
  default's 0.
- *Reports.* Positions of the engine hub are not gated by sessions, the modem's are. The
  satellites of the last position are not cleared at a stop, so the first report of
  the next session is flagged by them; "else clear the USED_IN_FIX flag" (`:5107`) has
  no code. A change of the feature between the two reports of one fix makes it told
  twice or never. The branch that would collect callbacks (`:4791`) is not reachable.
  When the engine asks for nHz measurements that are on already, they are turned off
  (`:8497`), by a thread that shares the mask with the message thread.
- *Sentences.* The code of a group changes within the group that reaches the maximum
  (`loc_nmea.cpp:692`). Without GSA, GGA and GNS count 0. GLONASS satellites are 65-96 in
  GSA and 1-32 in GSV, against the comment (`:886`, `:827`). L1C, L1S, B2I and NavIC L1 are
  counted under the default signal and listed nowhere. Without groups only the first
  12 satellites of a system are listed. RMC's validity ignores NavIC (`:1647`).
- *Batching front end.* A flush between a stop and its answer is not reported, against
  "flush() always trigger report, even on a stopped session"; a second stop without a
  session eats the next flush; a start before the stop's answer loses the session;
  reports that overlap tell the cache twice or lose it; what is cached at a stop is
  told to the next session.
- *Battery and vehicle.* The status that the worker begins with after a death is not
  reported; a late TRUE of the init thread overtakes; a call of a dead service comes
  last; connecting again holds mLock for up to 2.5 s and registers under it, which the
  comment at `battery_listener.cpp:231` warns of. After a failed subscription
  `GnssAutoPowerHandler` finds the service set and never subscribes.
- *Stored parameters.* The pseudo client id is made again when reading fails for any
  reason (`nvparam_mgr.cpp:879`), against "only be generated once per device life time";
  two processes make two. Saving 64 bits may fail where 32 bits are kept, and the id is
  lost with the next restart. A get changes its output though `nvparam_mgr.h:110` says
  it does not. An empty value can be saved and not read. The lever arm is restored to
  the engine hub only. One that the hub refuses is told GENERAL_FAILURE, used for the
  modem's positions, saved, and given to the hub again at the next start
  (`GnssAdapter.cpp:7587`, `:7613`).
- *Blocking queue, threads.* A wait with a limit starts anew after each wake-up. A name
  that cannot be set makes a launch fail that succeeded.
- *Postcards.* An add whose value has no bytes fails after type, name and length were
  written: what follows cannot be reached (`postcard.cpp:402`). A card that is not
  finished is accepted for reading; a second field of a name cannot be read.
- *Measurements (not modelled).* `GnssMeasurementInterface.cpp:46-170`: the death link of a
  replaced callback stays, so the old client's death closes the new one's measurements;
  `close()` touches the callback without the lock the header names.

## 7 What is not modelled

Within the modelled components: AGPS is complete but for the unused branch of
subscribers that do not wait for the close. Of the timer the C wrapper
(`loc_timer_start`), failing `timerfd_create` and the count of `LocSharedLock` are
left out; of the geofence adapter commands with NULL arrays and the engine lock;
of tracking nHz sessions, what follows the sessions (triband, engine hub,
the power callback) and invalid options; of batching invalid options, `getBatchedLocations`
and the sizes; of the observer the backhaul requests and the lifetime of its clients; of
LocIpc TCP and QRTR; of LocationAPI the calls that only pass on and
what a call of an empty callback does; of the configuration the
queries and the items of a GnssConfig that are like SUPL version or mode; of ODCPI the
injection; of the reports measurements, data and latency; of the networks the reports of
HIDL 1.x, which all have handle 0, and the items of the platform, whose types never match
the table's first entry; of the battery listener the HIDL half. "components" of
`PROJECT.json` says it for each.

Out of scope: coordinates, times and the text of sentences; the configuration reader,
whose correctness is about data and has no steps; the binder front ends but batching and
the battery, which convert types and call LocationAPI; the vehicle's power handler, a
sequence of calls at start; tables of functions, logs, containers, build files; libraries
that are not in the repository (the position engine, CDFW), which are inputs.
