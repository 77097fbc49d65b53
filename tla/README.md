# A TLA+ model of the V2I Hub messaging core

V2I Hub is a set of plugin processes around one core process, TmxCore (`ivpcore`).
Plugins connect to the core by TCP, register under a name, subscribe to message
types and broadcast messages; the core routes them, keeps each plugin's status and
configuration in a MySQL database, and starts, watches and restarts the plugins.

This directory models what every message and every plugin goes through: the core's
router, connections, registry and monitor, the library by which a plugin talks to the
core, the framing between them, and the thread pool a plugin handles its messages
with. Source paths below are relative to `src/src/tmx/`.

## The system

| Part | Source | Threads | Shared state | Here |
|---|---|---|---|---|
| Message router | `TmxCore/src/MessageRouterBasic.cpp`, `MessageRouterClient.cpp` | those of its callers | the map receiver → filters, two mutexes, a counter | `MessageRouter`, `Multicast` |
| Plugin connection | `TmxCore/src/PluginConnection.cpp`, `utils/AutoResetEvent.cpp` | receiver, fast and slow processor, constructor | two queues, two events, the thread handles | `PluginConnection` |
| Plugin base class | `TmxCore/src/Plugin.cpp` | those of the connection, configuration monitor | the set of names; configuration values | `PluginRegistry` (names, status), `PluginSession` (configuration) |
| Start and signals | `TmxCore/src/ivpcore.cpp` | main, the signal handler | the status table | `PluginRegistry` |
| Status table | `TmxCore/src/database/PluginContext.cpp` | – | rows of `pluginStatus` | `PluginRegistry` |
| Configuration table | `TmxCore/src/database/ConfigContext.cpp` | – | rows of `pluginConfigurationParameter` | `PluginSession` |
| Plugin server | `TmxCore/src/PluginServer.cpp` | accept loop | descriptors | `PluginSession` |
| Plugin monitor | `TmxCore/src/PluginMonitor.cpp` | monitor thread, callers of the router | child processes, time stamps | `PluginMonitor` |
| API client (C) | `TmxApi/tmx/IvpPlugin.c`, `apimessages/` | receive thread, the plugin's | connection state, values, filter | `PluginSession` |
| Framing | `TmxApi/tmx/utils/MsgFramer.c` | – | a buffer | `MsgFramer` |
| Message manager | `TmxUtils/src/TmxMessageManager.cpp`, `ThreadGroup.h`, `LockFreeThread.h` | workers, output thread | lock-free queues, assignments | `MessageManager` |
| Message profiler | `TmxCore/src/MessageProfiler.cpp` | refresh thread, callers of the router | counts, message types | not modelled |
| History manager | `TmxCore/src/HistoryManager.cpp` | purge thread | – | not modelled |

How they interact: the server constructs a `PluginConnection` for every socket. It is
a `Plugin`, which is a `MessageRouterClient`. Its receiver thread reads messages and
queues them; its fast processor registers the plugin, subscribes and broadcasts; the
router calls every matching receiver on the sender's thread; a receiver that is a
connection writes to its socket. When a socket closes, the receiver stops the
processors and deletes the connection, whose base destructors give the name back, write
the final status and take the object out of the router. At the other end of the socket
`ivp_receive` connects, sends the manifest, takes the first configuration message for the
acceptance, subscribes again, and starts over when the connection breaks. Both ends cut
the byte stream into messages with the framer. The plugin monitor is a receiver of the
router: any message counts as a sign of life of the plugin that sent it, and a plugin that
gives none is killed and started again.

`PROJECT.json` lists every part with what is and is not modelled, and the hazards of
the code with the property that covers each.

## The modules

### MessageRouter and Multicast

`Multicast` is what the router promises: a broadcast takes effect at one instant, the
receivers owed the message are those whose subscription matches at that instant (the
sender excepted), each is called exactly once and nobody else is; subscriptions change
only while nothing is owed.

`MessageRouter` is the code. A client stands for a `MessageRouterClient` and its calling
thread; `pc[c]` is its place in the call it is in:

| Code | Actions |
|---|---|
| constructor, destructor of the client | `New`, `Destroy` |
| `broadcastMessage` | `Broadcast`, `BroadcastLock`, `BroadcastCount`, `BroadcastUnlock`, `BroadcastVisit` (one map entry), `ReceiveMessage` (the callback returns), `BroadcastLeave` |
| `registerReceiver` | `Register`, `RegisterLock`, `RegisterDrain` (the spin ends), `RegisterUpdate` |
| `unregisterReceiver` | `UnregisterLock`, `UnregisterDrain`, `UnregisterErase` |

`Matches` is the filter test, with its wildcards, its missing subtypes and its flag mask;
flags are sets of bits. The map is a function whose domain changes. Addresses order the
map, so the loop visits it in any order. A destroyed client may be constructed again:
freed memory is reused. One thread per client is enough, because the fast processor is
the only thread of a connection that calls the router before the receiver has joined it;
the destructors run on the receiver afterwards.

The header's comment on `mMapLock` speaks of re-subscribing from a callback on the
same thread. No receiver in the repository does so, and the model has no such step (the
spin would then wait for the caller's own broadcast).

### PluginConnection

One connection. `rpc` is the receiver's place, `cpc` the constructor's, `ppc[t]` that of
the processors `"fast"` and `"slow"`. Messages are known by their position in
`received`, and their kind decides the queue and the handler:

| Code | Actions |
|---|---|
| constructor, lines 31–32 | `CtorCreate`, `CtorStore` (start a thread, then store its handle) |
| receiver loop | `Receive`, `ReceiveGarbled`, `Signal` |
| receiver, closed socket | `RecvClosed`, `Interrupt`, `SetOnShutdown`, `Join`, `DeleteThis` |
| processor loop | `Check`, `WaitOne`, `Take` |
| handlers | `ProcessRegistration`, `ProcessGuarded` (subscriptions and ordinary messages), `ProcessConfig`, `ProcessStatus`, `ProcessEventLog` |

An exception no handler catches ends the process (`core = "terminated"`). Whether the
manifest is valid, the name free and the database up are nondeterministic choices of
`ProcessRegistration`. The other end may hang up at any moment and lose any part
of what it had not yet got through (`HangUp`, external); a write that fails and shuts the
socket down looks the same to the receiver.

`ConstructorFirst` says whether the receiver's `usleep(100)` outlasts the rest of the
constructor. The code relies on it and does not ensure it: most questions are
asked with `TRUE`, and one run shows what happens with `FALSE`.

### PluginRegistry

The life of `Plugin` objects, the static set `clientNames`, and the `pluginStatus` rows
(`status[n]`, and `items[n]` for whether status items exist) of the plugin of each name,
while the core starts, is signalled, dies and starts again.

| Code | Actions |
|---|---|
| `main` | `Start`, `ResetStatuses` |
| `sig` | `Signalled`, `SigStatus`, `SigItems`, then `Die`; `Die` also stands for a death without the handler |
| `Plugin::registerPlugin` | `Reserve` or `Refuse` under `clientLock`; `RegisterDb` or `RegisterDbFails`; `RegisterStatus` |
| `setStatusItems`, `removeStatusItems` | `SetStatusItems` |
| `Plugin::~Plugin` | `DestroyName`, `DestroyJoin`, `DestroyStatus`, `DestroyItems` |

Every database statement is one step and may fail. `staleStatus` and `staleItems` are
ghosts: the names whose rows a failed statement or a crash may have left behind, and which
the status properties therefore do not speak about. `main` clears the first and
not the second, as in the code. A destructor of an object that never registered deletes the
items of whatever id its uninitialised field holds (`RemoveItems`).

### MsgFramer

The receive buffer and its two cursors, over the bytes of one stream of framed messages.
`Recv` is the caller's `recv` into what is left of the buffer, of any number of bytes;
`GetNextMsg` is one call of `msgFramer_getNextMsg`: move what is unread to the front, look
for the start byte, move again, look for the end byte. Its outcomes are `NoStart`, `NoEnd`
(with the discarding of a full buffer, `UnlessFull`) and `Found`. `strstr` is modelled
by what it does: it finds nothing past a terminator (`Hits`). `MSG_FRAMER_MAX_BUF_SIZE` is a
constant. The run takes streams of framed messages; the proofs take any stream without
zero bytes, which no JSON text contains. `DeliveredExactly` is about streams in which no frame
opens before the one before it has ended (`WellFramed`): what a peer sends is a sequence of
`msgFramer_createFramedMsg`'s results, and a JSON text contains no control characters.

### PluginMonitor

One round of `monitorThreadEntry` beside the processes it manages:

| Code | Actions |
|---|---|
| messages since the last round | `Fold` |
| `getInstalledPlugins` | `ReadEnabled`, `ReadFails` |
| `waitpid`, `kill(pid, 0)`, erase | `Waitpid` and `Probe` for one plugin after another, then `Erase` |
| kill escalation | `Signal` (with `MustGo` and `NextKillState`) |
| last loop | `Skip`, `Start`, `StartFails`, `EndRound` |
| `onMessageReceived` | `Message`, `LateMessage` |

A process may exit at any moment and may ignore every signal but SIGKILL. Once it has been
waited for, its pid may be given to any process, a plugin's or a stranger's
(`StrangerStarts`), also between `waitpid` and `kill(pid, 0)`. The probe then finds a
process: the monitor keeps the record, signals the new owner, and does not start the plugin
while that one lives. A `calm` behaviour does not hit this window; the three properties that
end in `IfCalm` fail without it, `OneProcess` holds in every behaviour. `LateMessage` is
what a dead process left in a queue of its connection. A failed `exec` is a `Start` and an
`Exit`: `close_fds_if` closes the pipe on which the child would report it. The status written
after a start is left out, since the monitor never reads it. Times are ages that stop at the limit they are compared with,
so nothing is lost by the bound. A plugin is a row of `installedPlugin`; a row that is deleted
and inserted again with a new id is another plugin, as it is for the code.

### MessageManager

A caller of `IncomingMessage`, the worker threads and the output thread, at the
granularity of the single atomics and queue operations:

| Code | Actions |
|---|---|
| `ThreadGroupAssignment::assign` | `Assign` (count), `UseAssignment` or `ChooseThread`, `StoreThread` |
| `RxThread::push` | `PushTo` or `PushFails`, `NotifyWorker` |
| `RxThread::doWork`, `idle` | `Pop`, `Handle`, `PushCleanup`, `NotifyOutput`, `WorkerWaits` |
| `OutputThread::DoWork` | `OutputPop`, `Unassign`, `ClearThread`, `OutputWaits`, `SpuriousWakeup` for both |

Notifiers take no lock, so a wait is a test and then a block, with anything in
between. `SleepsOnlyOnStaleTest` is about that window and holds in every behaviour: a push and
its notification between the test and the block are the only way in which a thread
comes to sleep on work that nobody will notify it of. What falls into the window waits for
the next push. `CountExact` says what the count of a source stands for, the lost messages
included: a source that has lost one keeps its thread for ever. `calm` is chosen at the start: in a calm behaviour nothing comes between the
two steps of `unassign` or between a test and its block. Both kinds are explored;
the properties whose names end in `IfCalm` speak of the calm ones, since the code breaks them in
the others (see the findings and `PROJECT.json`). `lost` counts messages that found a
queue full after they had been counted; nothing uncounts them, and the bound `MaxLost`
makes the caller give up. `ahead` is a ghost: for each message, the messages of its source that
were queued when it was pushed and have not been taken.

### PluginSession

One plugin, the connections it makes one after another, and the core's object for each:
the composition of `ivp_receive`, the server's accept, the fast processor's
handlers, the configuration monitor and the take-down of an object.

| Code | Actions |
|---|---|
| `ivp_receive` | `Connect`, `SendManifest`, `OnError`, `OnConfig`, `Promote`, `Resubscribe`, `Leave` |
| the plugin's calls | `Subscribe`, `SetConfigurationValue` |
| `PluginServer::startServer` | `Accept` (a connection in the backlog gets any free descriptor) |
| `processRegistrationMessage` | `Register`, `Refuse` or `IgnoreManifest`; `CopyValues`; `SendReply` |
| other handlers | `ProcessSubscribe`, `ProcessConfig`, `UncaughtNotRegistered` |
| `Plugin::configMonitorThreadEntry` | `ReadTable`, `ApplyChanges` |
| take-down | `CloseSocket`, `EraseName`, `Destroy` |

`Write` sends to whatever connection has the object's descriptor number now, which after
`CloseSocket` may be a later one. The core may die at any moment (`CoreDies`), also by
an exception nobody catches; the table survives it. The client's cache of values and its
filter survive a reconnection.

Whether the manifest is `usable` is chosen at the start. One that does not validate or cannot be
read is only logged (`PluginConnection.cpp:380`, `387`), and one that is longer than the framer's
buffer never gets through; the plugin hears nothing (`IgnoreManifest`). A registration that is
refused is answered with a fatal error. `AnsweredIfUsable` says that every lasting connection of
a plugin with a usable manifest brings one of the two answers. It does not say that the plugin
acts on a refusal, because it does not: the core's errors have the code `IvpError_none`, for which
`ivp_onError` returns at once (`IvpPlugin.c:332`), so the plugin stays connected and unserved until
something else breaks the connection. `IvpPlugin.h:57` says that on a fatal error "the connection
will be severed"; the code does not do so, and no property here claims it.

A `calm` behaviour hits none of three windows. In the first, a new connection is given the
descriptor number of an object whose socket is closed and which still has threads; it is open
for the joins and the database statements of the destructors, which may be long. The
others are of a few instructions: a change applied between the copy of the values and the reply,
and a subscription between the read of `plugin->filter` and `ivp_subscribe`'s lock. Calm
behaviours do contain connections that are accepted while the old object is being
destroyed, on another number. `RegisteredMeansServedIfCalm`,
`ToldIfCalm` and `ConfigArrivesIfCalm` are about calm behaviours only. `ToldIfCalm` is what
makes values and filters arrive. Whatever the plugin's cache holds from earlier connections, once
it has read what is on its connection it has every value of the object that serves it, short of
values that are the default, which `processRegistrationMessage` does not send (`PluginIsTold`).
Once the core has read what a registered plugin sent, it has the filter the application
asked for last, also when that subscription was sent before the manifest and refused (`CoreIsTold`).

`PluginConnection` has the queues, the events and the joins of one connection, and
`PluginRegistry` the interleavings of database statements of many objects; here these are
coarser, so that two connections and both ends fit into one model.

## The runs

| Run | Expected | Distinct states | Shows |
|---|---|---|---|
| `MessageRouter` | pass | 135,709 | `NoDanglingCallback`, `MapStableWhileLooping`, `ReturnsIfCallbacksDo`, `ImplementsMulticast` |
| `PluginConnection` | pass | 67,021 | `GracefulExit`, `HandledInOrder`, `AcceptedMeansServed`, `NoLostWakeup`, `JoinedIsAwake`, `ReceivedIsHandled`, `ShutdownCompletes` |
| `PluginRegistry` | pass | 1,421,896 | `HeldByOne`, `GoneMeansStopped`, `GoneMeansNoItems` |
| `MsgFramer` | pass | 20,065 | `RoomToRead`, `Terminated`, `DeliveredExactly`, `Genuine` |
| `PluginMonitor` | pass | 588,184 | `OneProcess`, `TracksItsOwnIfCalm`, `UnfitIsStoppedIfCalm`, `EnabledIsRunningIfCalm` |
| `MessageManager` | pass | 560,648 | `CountExact`, `SameThreadIfCalm`, `InOrderIfCalm`, `SleepsOnlyOnStaleTest`, `CleanedUpIfCalm` |
| `PluginSession` | pass | 615,530 | `RegisteredMeansServedIfCalm`, `ToldIfCalm`, `AnsweredIfUsable`, `ValuesCatchUp`, `ConfigArrivesIfCalm`, `SubscriptionFollows` |
| `PluginConnectionEventLog` | violation | – | an event log message overtakes its registration and ends the core |
| `PluginConnectionConstructor` | violation | – | a socket that closes early is deleted under its own threads |
| `PluginRegistryOverlap` | violation | – | two objects registered under one name |
| `PluginRegistryLeak` | violation | – | a name refused on account of nobody after a database failure |
| `MessageManagerSameThread` | violation | – | active messages of one source on two threads |

Each passing run checks a type invariant too, and `PROJECT.json` pairs each property with
a mutation of the code (an operator commented "Mutant") that breaks it.

**Bounds.** Router: three clients are one broadcaster, one that re-subscribes or is
destroyed, and one more of either; the message has no subtype, one filter list does not
match it and the other matches through two entries, so a second delivery would show.
Connection: scripts of four and five messages cover every kind, both orders of
slow and fast messages, and queues longer than one; each begins with the registration,
because `ivp_receive` sends it on connecting. Registry: three objects and two names let
an old object, its successor and a third contend for a name while another name is in use;
nothing bounds the number of restarts. Objects and names are interchangeable there and
only invariants are checked, so symmetry is sound. Framer: a buffer of 7 with texts of 1, 5, 6
and 13 bytes has frames that are smaller, exactly fill it, are one byte too long, and are longer
than two buffers; three of them in every order put each before and after each other.
Monitor: the plugins do not meet except in the pool of pids, so one plugin and two pids
are a process, its successor and the pid that is given out again, to either of them or to a
stranger; an interval of 2 tells "now", "in time" and "too late" apart, a start-up time of 1
"in time" and "too late". Manager: two threads, queues of two and three
messages of which two have a source; one of the answers of a handler takes room in the
out queue. With two messages of one source in flight the second can be assigned at any point
of the first one's life. Session: two connections are an old object and its successor;
two inputs are a change and a change back, a change at each end, or one filter after
another; keys do not meet except in messages, so one will do.

**Deadlock** is checked for the router, the registry, the monitor and the manager. A
connection ends, a peer may fall silent for good, and a session runs out of connections,
so it is not checked there; `ShutdownCompletes`, `RoomToRead` and `AnsweredIfUsable` say
what matters.

**Fairness.** In the router a thread inside a call keeps running (`WF` of `Continue`), except
inside a callback: a callback writes to a plugin's socket, by a blocking `write` without a time
limit (`PluginConnection.cpp:78`), and need not return. The order in which a contended mutex is
granted, and whether clients make calls at all, is left open, so `ReturnsIfCallbacksDo` starts at
the acquisition of `mMapLock`, and its premise is that no thread stays in a callback for ever.
Without the premise it is false: one plugin that stops reading keeps a broadcast counted,
the next thread that registers or unregisters spins with `mMapLock` held, and everybody
else waits for the lock. In a connection each thread that can run eventually does, except
inside a handler, which may broadcast or wait for the database; the plugin need not send or hang
up. `ReceivedIsHandled` and `ShutdownCompletes` have the premise that handlers return
(`HandlersReturn`). The rest is what a preemptive scheduler gives. In the
monitor the thread keeps running, time passes, and a process that has been sent SIGKILL
ends; strong fairness of `ReadEnabled` and `Start` says that the database and the system
do not refuse for ever, without which nobody could run a plugin. In the manager every thread
that is not blocked runs, and a call that has begun is finished; strong fairness of
`OutputPop` for each worker is the output thread's loop, which looks at the queues in turn.
In a session the receive thread, accept, the threads of every object and its
take-down run, and the writes and database statements inside their steps return, so its
liveness properties are about plugins that read; breaks, deaths of the core and what the application does are free.

## The findings

* **Event log before registration.** The slow processor's comment says the order does not
  matter (`PluginConnection.cpp:253`). A plugin that logs an event right after connecting may
  have it handled before its registration; `addEventLogEntry` throws, nothing catches
  it, and the core terminates. Status messages are safe: their handler catches.
* **Handles stored late.** The receiver is started first and joins handles that may not be
  stored yet (`PluginConnection.cpp:30`).
* **Overlapping objects.** `~Plugin` gives the name back before it is done
  (`Plugin.cpp:36`), against `Plugin.h:74`.
* **Leaked name.** A `DbException` leaves the name reserved until the core is restarted
  (`Plugin.cpp:98`).
* **Thread forgotten.** `unassign` decrements the count and resets the thread in two steps
  (`ThreadGroup.h:225`). A message assigned in between goes to the old thread, which is then
  forgotten, and the next one of its source goes to another, against
  `TmxMessageManager.h:74`. `OneThreadPerSource` shows that calm behaviours keep the promise.

## The proofs

The modules whose names end in `Proofs` hold the theorems, and `MessageManagerLemmas` the first
half of the message manager's proof (its inductive invariant, and the lemmas for the caller and for
the worker up to its handler). They are checked by TLAPS with Z3, Zenon and LS4, for every value of the constants
that satisfies the named assumptions: finitely many clients and distinct null values
(`ClientsAssumption`, `NullAssumption`), scripts of known kinds (`ScriptsAssumption`),
an empty name that is not a name (`NamesAssumption`), a buffer of at least one byte and
delimiters that differ (`FramerAssumption`), limits that are not zero (`MonitorAssumption`),
finitely many messages and queues with room for one (`ManagerAssumption`), and a default for
every key (`SessionAssumption`).

*Router.* `Inv` adds to the types: `LockInv` (a thread holds `mMapLock` exactly in certain
places), `CountInv` (the counter is the number of threads between the two counted
sections), `ExclusionInv` (past the spin the counter is zero), `MapInv` and `LoopInv`.
`CountInv` is what gives the counter a meaning; it rests on the cardinality lemmas
for adding and removing an element. `ExclusionInv` survives a new broadcast only because
counting needs the lock that the writer holds, hence `LockInv`. From `Inv` follow
`CallbackSafety`, `MapStability` and `Refinement`: `BroadcastCount` is `Publish`,
`ReceiveMessage` is `Deliver`, `BroadcastLeave` is `Complete`, the update and the erasure
are `Subscribe` and `Withdraw`, and everything else stutters.

*Connection.* `HandledInOrder` is stated on `Line(t)`, what a processor has done, has in
hand and has queued: it is increasing, and holds exactly the received messages
of its queue. It is inductive with the types and `ProcInv`; a receive appends its
maximum, taking and finishing leave the line as it is. `ExitIsGraceful` has the hypothesis
`ConstructorFirst` and uses `StopInv`: the receiver leaves its loop only after both handles
are set, so its joins wait for the threads. `WakeupsArrive` and `JoinsAreAwaited` are the safety
half of the two liveness properties of a connection. `NoLostWakeup` speaks of a processor that
sleeps; its strengthening `WakeInv` says of every place of the loop why a queued message will be
seen: the event is set, the receiver is about to set it, `messageWaiting` is, or the processor
is about to look. It holds because `WaitOne` resets the event before the queue is
looked at, and `Take` sets `messageWaiting` from what it leaves. `SleepInv` follows the
receiver through the shutdown: a processor it has interrupted and then woken
cannot pass `Check` into another `WaitOne`. `AcceptedIsServed` has the hypothesis `RegistersFirst`: in no
script does a subscription or an ordinary message precede a registration. A plugin
satisfies it as long as none of its threads sends between the two steps in which `ivp_receive`
becomes connected and sends the manifest (`IvpPlugin.c:465`–`467`); what is sent there is refused, and
`PluginSession`, where the two are separate steps, shows that the subscription is made
up for after the registration (`SubscriptionFollows`). `ServedInv` adds that an error reply
answers a message that has been handled: by `HandledInOrder` the registrations were
handled before it, and none is left to accept.

*Registry.* `HeldByOne` and `GoneMeansNoItems` are inductive with `NameInv`.
`GoneMeansStopped` is not: it would let an object in its last step be the only one that
answers for a running row, and that step would then break it. `StatusInv` therefore asks
for an object that has not written "stopped" yet. The overlap that
`OneRegisteredPerName` exhibits is thus shown to err on one side only: a live plugin may be
shown as stopped, a dead one is not shown as running.

*Framer.* `Genuine` needs to know where the bytes in the buffer come from. `Window` says that
between the cursors the buffer holds the last bytes received, in order; with the
terminator, the first hit of each search is then a place in the stream, and what lies
between two hits is a frame of it. `RoomToRead` holds because a full buffer without an
end is discarded. `ExactDelivery` is the converse of `Genuine`, under the hypothesis
`WellFramed`. `ExactInv` says of the bytes the framer is done with (`consumed`) that
every fitting frame among them has been delivered in its place and nothing else (`ExactTo`), that
a frame of which they hold the start but not the end does not fit (`OpenIsLong`), and that no
end byte is left in the buffer when `recv` is called. What is consumed without being delivered
contains no end of a fitting frame (`Skip`); what is delivered adds exactly one (`Deliver`). The
order is stated by rank, the number of fitting frames up to a place, so no induction
over the stream is needed.

*Monitor.* `AtMostOneProcess` holds in every behaviour, and the invariant behind it looks at the
processes, not at the records: a process of a plugin is on record for that plugin
(`AllOnRecord`), and a plugin that is going to be erased has no process (`DeadHaveNone`).
The second is what the probe establishes, and only a start could undo it, which comes after the
erasure (`LoopsOver`). `SignalsItsOwnIfCalm` is the converse, that what is on record is a process
of the plugin. It cannot hold while the dead are being found, so `OnRecordIfCalm` excepts the
plugin that has been waited for, whose pid in calm behaviours is its own or nobody's, and those
found dead.

*Manager.* `CountExact` needs `Once` (a message is in one place, and there once), so
that each step moves one message and changes one cardinality by one. If the count falls to
zero, the message being unassigned was the last of its source, so no message is left on
the thread that is given up; `Home` (the thread of a source is where its messages are)
then survives, and gives `SameThreadIfCalm`. `OrderIsKept` rests on `Home` in turn: a message is
pushed behind those of its source because they are in the same queue, so `OrderInv`
(what is ahead of a queued message stands before it) is inductive, and what a worker takes from the
head has nothing ahead of it. `MissedOnlyWhenOvertaken` is
about single steps and needs no invariant but the types: whoever pushes is a notifier from then
on, whoever notifies wakes, and only a blocked thread can be asleep.

*Session.* The proof follows a configuration message back to its writer: only a thread of an
object that has registered writes one (`Threads`), it writes to its own connection since in
calm behaviours no descriptor is shared with an object that still has threads (`Sockets`), and
an object stops being registered only after its connection has been cut (`Objects`).
`Served` states the result for messages under way and for the plugin. `BothEndsAreTold` follows
what the messages carry. `PluginIsTold` is inductive with `Inv`: reading moves the value that
counts from the queue into the cache (`TakenValue`), a write adds it behind all others
(`AddedValue`), a new connection has no registered object yet, and registering leaves
the fast processor short of its reply. The reply is the delicate step. It is made from a copy, and
`Threads` therefore says that in calm behaviours the copy is still what the object holds.
`CoreIsTold` needs `Phases` beside `Inv`: in calm behaviours the filter the receive
thread has read is still the application's when it sends it, so its subscription is the last word.

*Only model-checked:* the liveness properties (`ReturnsIfCallbacksDo`, `ReceivedIsHandled`,
`ShutdownCompletes`, `UnfitIsStoppedIfCalm`, `EnabledIsRunningIfCalm`, `CleanedUpIfCalm`,
`AnsweredIfUsable`, `ValuesCatchUp`, `ConfigArrivesIfCalm`, `SubscriptionFollows`), which
need fairness and `ENABLED`, out of reach of the prover. Every other property of a passing run is
a theorem. `JoinsAreAwaited`, `ExitIsGraceful`, `AcceptedIsServed` and `ExactDelivery` have a
hypothesis on the constants (`ConstructorFirst`, `RegistersFirst`, `WellFramed`); the constants of
the runs satisfy it, which TLC evaluates.

## Not modelled

* **Message profiler, history manager, event log**: they count, store and purge for display; no
  other part reads what they write.
* **Start, Stop and the overflow settings of the message manager**, timers and the
  throttle: the threads of `MessageManager` are running, and it has one caller, which
  is what its queues are made for. What a plugin with several callers would meet is listed under
  the hazards in `PROJECT.json`.
* **Database connections**: a statement succeeds or fails, as one step.
* **Message contents**: the codecs, the JSON and XML trees, attributes and J2735
  messages are data without state of their own; a message is known by its kind.
* **Geometry and conversions, UDP wrappers, the control tool, the application plugins,
  generated and third-party code**: these are most of the repository's lines. They are
  numerical code, wrappers of system calls, or clients of the parts above; `PROJECT.json` has a
  reason for each.

What could be added next: a second plugin in `PluginSession`, so that a stale descriptor can
reach a stranger; several callers in `MessageManager`; the profiler's refresh beside its
counters.
