# edge-guard in TLA+

edge-guard is the agent of an edge device ("worker"). It keeps the network of the
device up, registers it with a master, opens a VPN to it and sends heartbeats; it
supervises the programs of the device like supervisord; it updates packages, mounts
cards, keeps an operation log and offers an HTTP gateway. This directory holds TLA+
models of the parts whose correctness depends on the order of concurrent steps, the
TLC configurations that check them, and TLAPS proofs. `PROJECT.json` lists the runs,
the lines each definition models, the hazards and the properties that answer them.

## The system

| Component | State | Operations | Module |
|---|---|---|---|
| Supervised process (`subprocess/process/process.go`) | state, inStart, stopByUser, retryTimes, cmd, runCond, lock | Start, run, the launch monitor, Stop and its goroutine, restart on a file change | `Process`, `Lifecycle` |
| Supervisor (`subprocess/supervisor.go`, `process_manager.go`, `xmlrpc.go`, `run_sup.go`) | process table, event listener table, restarting, the RPC listener | runProcess, Reload, WaitForExit, StopAllProcesses, the requests | `Supervisor` over `Lifecycle` |
| Event delivery (`subprocess/events/events.go`) | listeners, queue of each, pool serials | EmitEvent, HandleEvent, the listener goroutine, registration | `EventListener` |
| Heartbeat client (`core/heartbeat`) | conn, Status, toBeSent, error counts | Beat, connect, beat, readFromConn, disconnect | `Heartbeat` |
| Master connection, VPN (`core/register`, `internal/network/vpn`) | VPN configuration, VPN, lastVpnIp, hosts entry, heartbeatIP | MaintainMasterConnection, retryfindMaster, register, UpdateConfig, Restart | `MasterConnection` |
| Network interfaces, DNS (`internal/network/iface`, `dns`) | currentIFace, resolver file, routes | MaintainBestIFace, findBestIFace, switchDhcpRouter, ApplyInterfaceDNSResolv | `IFace` |
| Program ordering and configuration (`subprocess/config`, Reload of `supervisor.go`) | entries, groups, process table | Load, sortProgram, createPrograms, removal, group differences | `ProgramOrder` |
| Log files (`subprocess/logger`) | files, current index, size | Write, rotation, ReadLog, ReadTailLog, ClearAllLogFile | `FileLogger` |
| Captured process communication (`events.go`, `logger/log.go`) | pipe, buffer, begin position | search for the begin and end tags | `ProgramLog` over `FileLogger` |
| Updates (`management/updatemanage`) | status, target and current version, two files, the signal channel | the update loop, SetTargetVersion, UpdateWithZip, restart | `UpdateManager` |
| Device identity (`core/device`, `cmd/bootstrap.go`, `cmd/clean.go`) | /edge/init, host name, the cached device | bootstrap, GetDevice, clean | `Device` |
| Card mounting (`monitor`) | mounts, links, pending events | InitTF, MountListener, tryMount, over restarts and reboots | `Mount` |
| DNS setup (`internal/network/dns`) | resolv.conf, hooks, /etc/hosts, the upstream file, docker's dns | TrySetupDnsConfig, AddMasterDns | `DnsSetup` |
| Service composition (`cmd/serve.go`) | context, tasks, where main is | setup, start of the tasks, cancel, restart of a task, graceful period | `EdgeGuard` over the four above |
| Gateway: dynamic services, topics, databases (`gateway/serve/dynamic.go`, `mq.go`, `tsdb.go`, `gateway/store`) | registry, store, the handlers of each start, connections | start, register, remove, search, Store, Recovery, grant, notify | `GatewayState` over `DynamicService`, `MessageQueue` |
| Gateway: configuration agent (`configagent.go`) | the request variable, watched keys, watchers, replies | get, put, watch, unwatch, close | `ConfigAgent` |
| Gateway: docker-compose (`container.go`) | directories, running services, requests, results | up, update, down, truncate, cleanUp | `Compose` |
| Program management, operation log, SSDP, system information, web and control clients, AI serving | | input, output, formatting and forwarding | not modelled |

How they interact: `cmd/serve.go` starts the services in one error group with one
context. `core.MaintainNetwork` runs MaintainBestIFace and MaintainMasterConnection;
the latter reads the current interface of the former, ends each turn in
`heartbeat.AliveReport`, and starts the updates at the first connection. `runProcess`
makes one Supervisor after another; RPC handlers call into the process table; every
Process emits events, which event listeners (processes themselves) receive over a pipe.

What is hard here: the locks of `process.go`, which run() releases and takes again
around waits and pauses while Stop, Start, monitors and change monitors come in; a
condition variable unlocked from another goroutine than the one that locked it; a
bounded channel whose only consumer is one of its producers; a restart of the
supervisor while requests still reach the old table; chains of calls of which any may
fail, repeated by tickers, with files and a VPN left half changed; maps and lists that
request handlers share without a lock; files whose existence stands for work done,
written by processes that may be killed.

## Modules

**Process** is one Process object. Its variables are the fields of the struct, `lock`
(p.lock, held across steps by the Start goroutine only), the exec.Cmd slots with the
state of their child, one control point per Start goroutine, the mutex of runCond, the
sync.Once of each run(), a monitor per launch, the callers (RPC handlers and change
monitors) and the goroutines Stop makes. A step is a stretch of code between two points
where another goroutine can interfere. Time is not modelled: a monitor's end time,
the stop wait and the pauses end at any moment. Slots are recycled, so the behaviours
are unbounded although the sets are finite; a step that needs a slot waits for one.

**Lifecycle** is what the rest of the program may assume of a process: Start is refused
while a Start goroutine is there, at most one child lives, its end is reported before
the next launch, a stopped program is not launched again unless it was in its restart
pause. `Process!ImplementsLifecycle` states the refinement (`Abstract == INSTANCE Lifecycle
WITH phase <- Phase, pause <- config.restartpause > 0`).

**Supervisor** models runProcess, two successive Supervisors with their process tables,
the RPC listener (a new one cannot take the port of the old one, which is never closed)
and request handlers. Each program is a Lifecycle process; `ProcsAreLifecycles` checks
that each table entry behaves as one.

**EventListener** models the event types and which derive from which, the registration of
a listener for the types of its option `events`, the emitters (a process that changes its
state, the tick timer, a log), the queue and goroutine of every listener, serials, and the
listener programs that answer OK, FAIL, something else, or exit.

**Heartbeat** models Beat's loop, beat()'s select, the reader goroutine of each connection
(also of old ones) and the channel toBeSent.

**MasterConnection** models the loop from the DHCP server to the heartbeat, for openvpn and
wireguard. An address, file or VPN is represented by the master it belongs to.

**IFace** models the loop over the interfaces while links come and go.

**ProgramOrder** models Reload, by the main loop and by requests at once, over one fixed
configuration text: GetProgramNames, Load entry by entry, the sort pass by pass (maps are
visited in any order), CreateProcess, the start in the sorted order under pm.lock, and the
removals. The maps of Config have no lock: two users of one at a time end the process.

**FileLogger** numbers the bytes a log is given; a file is the sequence it holds.
**ProgramLog** puts the LogCaptureLogger, the pipe and the ProcCommEventCapture before it; a
tag is two tokens, so that a read can cut it.

**UpdateManager**, **Device**, **Mount** and **DnsSetup** are parts of the edge-guard process that
read none of each other's state. **EdgeGuard** adds serve() with its tasks and the life of the
process. A behaviour moves one of the parts (`focus`) and leaves the others in an initial
state: they share nothing but the life of the process. Each part has the ends and restarts of
the process that it needs: the updates those of serve(), Mount and DnsSetup actions of their own,
and Device forgets its cached copy. In serve() main first sets up (InitTF is synchronous), then
starts its tasks, and only then waits for the context and starts the graceful timer.
In Mount what is mounted outlives edge-guard but not the device; links outlive both. The model
is of one watched directory.
In DnsSetup the steps of TrySetupDnsConfig fail or are killed one by one, while dhclient,
NetworkManager and systemd-resolved write resolv.conf whenever they are not kept from it.
In Device a key is named by the host that issued it.

**DynamicService** and **MessageQueue** are the handlers of the gateway that keep state, over a
store; **GatewayState** adds Setup, ServeGateway, the store's life and the databases of the
TSDB handler. ServeGateway runs again in the same process when web.Serve has failed: each start
makes a handler of its own, and those of the starts before it live on with their websockets, until
the process ends. A store object is the one Setup made at a start; the first that is used
locks the file. A registered service is a pointer to the variable of its request's loop, as in
the code, until the request is over. `focus` is used as in EdgeGuard.

**ConfigAgent** is one websocket with its reader, handler and watchers. All requests are pointers
to one variable, which the next message overwrites, also when it is then refused; reader and
handler write to the websocket without a lock (`WritesOverlap`).
**Compose** is the docker-compose directories and any number of requests for them, each a
sequence of steps between file operations and commands; nothing keeps two requests for one
directory apart, a client may go at any time, and cleanUps and removals run in the background.

The MC modules give sequences, sets of configurations and symmetry for TLC. **MCNetwork** (IFace,
Heartbeat) and **MCGateway** (GatewayState, Compose) put two components that read none of each
other's state side by side: a behaviour is one of either (`part`), under the fairness of that one. The cfg
files only give constants their values. Mutants stand before the definition they change. The
`TypeOK` of a module documents the shape of its state; it is proved for Process, Supervisor,
ProgramOrder, MasterConnection, IFace, GatewayState (with DynamicService and MessageQueue) and,
under names of their own, for FileLogger, Heartbeat and ConfigAgent.

The proof modules are **ProcessProofs** (Process, Lifecycle and the event queues of
EventListener), **SupervisorProofs**, **MasterConnectionProofs** (MasterConnection and the Heartbeat
client that its loop ends in), **IFaceProofs**, **EdgeGuardProofs** (UpdateManager,
Device, Mount, DnsSetup), **GatewayProofs** (GatewayState with DynamicService and MessageQueue,
ConfigAgent, Compose), **ProgramOrderProofs** and
**ProgramLogProofs** (FileLogger under the program that writes to it).

## Runs

| Run | Shows |
|---|---|
| `process_safety` | no orphaned child, no nil dereference in the getters, no late monitor promotes another launch, no launch after Stop but one of a goroutine in its restart pause, every step is a Lifecycle step |
| `process_liveness` | for sections with a start time and no pause: Stop(true) returns, an exit is noticed, Start(true) returns unless stopped |
| `supervisor` | programs of an old table are stopped unless a request revived them; each program behaves as a Lifecycle; StopAllProcesses returns |
| `order` | programs start after those they depend on, once each, by priority; overlapping Reloads lose no program; a Reload that nobody overlaps reports exactly what changed; Reloads return unless depends_on has a cycle |
| `events` | the event removed is the one sent; every queued event is delivered (so no wake-up is lost) |
| `logs` | rotation drops the oldest bytes only; reads are exact at both ends; a follower of a program log gets no byte twice; captured messages are whole, once and in order |
| `network` | heartbeats: one connection at a time, a connection is left for its own fault only, a broken one is left; interfaces: routes move before the current interface does, and the best connected one is taken in the end |
| `master` | heartbeats never mix two masters, openvpn reaches a master, a cancellation ends the search |
| `edgeguard` | a target version is installed unless a signal was dropped or an install failed; "updating" never outlives an update; a key never goes to a host that did not issue it; mounts follow the card, over restarts of edge-guard and of the device; resolv.conf stays with dnsmasq and a failing lookup leaves no empty upstream file behind; the process ends when it is to, wherever main is and whichever task hangs |
| `gateway` | the store gives back the registered services after a restart; a connection whose handler has a store misses no topic, with handlers of several starts in one process; a truncate waits for exactly the results that come, whatever other requests do to the directories |
| `config_agent` | after a close every watcher ends, unless one that was asking at the Stop panics; the last change of a watched key arrives |

One run shows where the code does not do what its comment says (`findings` in `PROJECT.json`):
`process_startsecs`. startsecs = 0 is offered ("Set startsec to 0 to indicate that the program
needn't stay running for any particular amount of time", process.go:501), but then run() waits
for a monitor that was not started (process.go:519): the exit of the program is never noticed.

Several properties say "unless": each exception is a behaviour of the code, kept as a history
variable (`missed`, `dropped`, `unseen`, `unlinked`, `cut`, `torn`, `discarded`, `spared`, `lost`),
set only by the step that loses something, and listed under Observations. `missed`, `dropped` and
`unseen` end with the next look, so that they excuse no later one.

Bounds. Process: two callers, two goroutine and two command slots and one stop goroutine
are enough for a late monitor or stop goroutine to meet the next launch, and for a second
Start to meet the first; startretries up to 2 gives a failing and a last attempt; the three program
sections of `AllConfigs` have every field once at zero and once above. Supervisor: two
Supervisors, since the third meets the second as the second meets the first. EventListener:
a buffer_size of one is reached with an event in flight; `MaxSerial` bounds
the events. Heartbeat: two connection slots (an old reader next to the current one), a
channel of three (the code has 6), two answers per request. MasterConnection: two masters,
so that the answer can change between turns. IFace: two interfaces with a priority and a
backup that is not in the list, two servers, so that an error can come between two routes.
ProgramOrder: three sections are enough for a chain, a cycle and a dependency that is missing;
two clients and the main loop give two overlapping Reloads and one alone. FileLogger and
ProgramLog: two files of three bytes rotate over each other within an output of eight tokens, a
chunk of three and reads of two cut tags in every place, a buffer of four is outgrown by one
output. EdgeGuard: two boots and two target versions (the second names a package whose version
is never known); two hosts, so that a second registration can go to the other; three cards and
two pending events, so that events are dropped; three starts of edge-guard for Mount, so that a
restart and a reboot both come between two cards; two setups, so that the second meets what a
killed first one left. DynamicService: two names of which one extends the other, batches of
two, two requests; `MaxServices`, ten services of a name in a Store, is a bound of the model for
every instance: up to ten the keys sort by their index, from the eleventh on they do not (see the
observations). MessageQueue: two starts, so that a handler without a store, or with one that is
locked, meets the next one; two connections and one topic.
ConfigAgent: one key and two watchers (a key that is unwatched and watched again has two), and the
empty key, which a refused message leaves in the request variable; three messages.
Compose: two directories of the gateway's own and one that is named by the client, each there from
an earlier run of the gateway or not, so that two requests are enough for a truncate of two
directories, or of none, to meet any other request. Supervisor: the
table has no event listeners in the run, which are started by the same Start and never stopped.

Deadlock is not checked where the system may really stop: a process nobody calls any
more, a Start(true) that hangs or a startsecs = 0 program,
beat() blocked on its channel, a loop that has returned after a cancellation, a Reload in a
cycle, a process that has crashed, an output or a client that is finished, and the bounds.

Fairness. Goroutines are scheduled (weak fairness). Go's mutexes hand over to a waiter
that has waited long, so a goroutine that finds p.lock free again and again gets it (strong
fairness); the polls of Stop(true) read a state once a second and get weak fairness only.
A select with several ready cases chooses at random, so none is neglected for ever. For
what lies outside (a call to the DHCP server, a route, an answer of a listener program) a
call repeated for ever succeeds at last; without this no retry loop has a purpose. Nobody
has to call Start or Stop, a child need not exit unless killed, a heartbeat need not fail.
EdgeGuard assumes nothing of the tasks' own functions, only that main goes on, the commands of
InitTF end and the runtime fires the timer of the graceful period. In ConfigAgent a long poll answers or fails, and one repeated for ever
answers; the select of handleRequest takes a reply that is ready again and again.

## Proofs

For every set of callers, goroutines, stoppers, command slots and configurations:

* `ProcessProofs!TypeCorrect`. The type invariant needs `MonitorOwned`: a monitor marks the
  goroutine it belongs to, which must exist.
* `NoOrphanAlways`, `StateImpliesCmdAlways`, `PromotesOwnLaunchAlways` follow from `Safe`:
  there is one Start goroutine (`OneGoroutine`), it holds p.lock exactly at the control
  points between Lock and Unlock, while it waits p.cmd is the launch it waits for, live
  states are backed by it, and a child that is alive is one it waits for. None of these
  is inductive alone: that p.cmd is not replaced under a live child rests on there being
  one goroutine, which rests on inStart, which is cleared only by the goroutine itself.
* `RetryBoundAlways` adds `AttemptLeft`: at the loop and in the pause another attempt is allowed.
* `UnlockHeldAlways` needs `SyncInv`: a waited-for goroutine holds runCond.L from its entry into
  run() until the sync.Once of that run() fires, and monitors of earlier runs cannot fire it.
* `LifecycleImplemented`: Process implements Lifecycle, by cases over the actions,
  with `PhaseOf` (what the control point says of the phase) and `PauseConfigured`.
* `NoLaunchAfterStopAlways`, for every configuration, from `LaunchAllowed`: a goroutine past the
  test of stopByUser either holds p.lock, which Stop needs, or was in its restart pause at the Stop.
  The latter (`spared`) launches once, and the launch uses this up; without a pause there is none.
* `InFlightIsFirstAlways`, for `EventSpec`, from `QueueInv`: only the
  goroutine of a listener removes from its queue, and only the event it has sent.
* `SupervisorProofs!TypeCorrect`; `ProcsAreLifecyclesAlways`: whatever the actors do, an entry of
  the process table makes a step of Lifecycle or none, by the lemma `Moves`.
  `OldProgramWasRevivedAlways` from `RevivedInv`: while main stops the programs of a Supervisor,
  each is stopped, is still to be stopped, or is in the set of those a request has started since;
  the invariant alone says nothing of the time before main leaves the Supervisor.
* `ProgramOrderProofs!TypeCorrect`; `StartOrderAlways` from `SortInv`: at every visit of a
  pass the order built so far holds the finished programs of the table, each once, and after
  those it depends on. `ProgramsKeptAlways` from `KeptInv`: every
  load between its start and its end holds, or will add, all the programs of the text, so nothing is
  left for the removals although loads overlap. `ReportExactAlways` from `GroupsInv`: a Reload
  that no other overlaps has copied the groups of the text (`AloneOK`).
* `ProgramLogProofs!LogTypeCorrect` and `ReadLogExactAlways` from `FilesInv`. `NoGapAlways` and
  `TailAdvancesAlways` from `LogInv`: by the age of the files, counted from the one being written,
  their bytes descend without a hole (`ContentInv`), at every point of a rotation, a restart
  and a clear (`PhaseInv`, `CurrentInv`); what a client that follows a program log has not been
  given of the current file is newer than what it has, except in the middle of a rotation
  (`TailInv`). Without a mutex this holds until the first clear (`Safe`), as in the properties
  themselves. `CaptureExactAlways` from `CaptureInv`: the buffer is the part of the
  output before the place read; every BEGIN that has left it was closed by an END that left it;
  what has been emitted are the messages of the part that has left, and while the capture reads
  there is no END, or no BEGIN, in the buffer. So an END in the buffer comes after the first BEGIN
  there (`MessageFound`), and text dropped without a BEGIN holds no part of a message (`TextLeaves`).
* `MasterConnectionProofs!OneMasterAlways`, `FirstConnectHasMasterAlways`: for any masters, from
  `Consistent`, which says for each control point which files already belong to the answer. A
  write of the hosts entry that fails may have emptied it, so that the second is a statement about
  the step that calls onFirstConnect, not about later states.
* `OneConnectionAlways`, `LeavesForOwnFaultAlways`, for `HeartbeatSpec`, from
  `BeatInv`: a connection that is not closed is b.conn, there is one exactly between the dial and
  the return, and if its reader has closed done it is broken.
* `IFaceProofs!RoutesBeforeCurrentAlways`: from `RoutedOrTodo`, for any interfaces and servers,
  assuming that the list of addresses contains every server (`IFaceAssumption`).
* `EdgeGuardProofs!KeyOfHostAlways`: from `DeviceInv`, which adds what a bootstrap under way and
  the running edge-guard hold: no key but that of the host they work for.
* `MountFollowsCardAlways`: from `MountInv`: what tryMount has seen is still so, or an event that
  says otherwise is pending, or the change was not noticed; the mounts that a restart of edge-guard
  finds agree with the card or with `unseen`. For any number of cards, restarts and reboots and any
  size of the channel.
* `UpdatingIsRealAlways` and `RestsUpdatedAlways`: from `UpdateInv`: from the comparison of the
  versions to the end of an update, the loop has before it everything that is still to be
  installed, or somebody has changed the target since. It assumes that targets are maps, one
  version for each package (`UpdateManagerAssumption`).
* `DnsHoldsAlways`: from `DnsInv`, which says at each step of TrySetupDnsConfig which of the other
  writers of resolv.conf can still write, and who has opened the upstream file.
* `GatewayProofs!NoTopicMissedAlways`: from `TopicsInv`: a handler registers its connection before
  it reads the list, so that a topic of the store is in the list it has still to write, has been
  written, or is with a sendTopic that has still to write to this connection (`Covered`, `Coming`).
  For topics granted through the handler of another start this rests on `OwnStores`: each handler
  has the store of its own start or none, and one that has listed has the file locked, so that no
  other handler of the process can add to it. `StartsInOrder` says that a start is a new one.
* `TruncateServedAlways`, for `ComposeSpec`: with the types it is inductive; the work is to count the
  downs that still run while each sends its result before it removes its directory.
* `StoreMatchesAlways`, for any names, hosts, batches and number of requests, from `RegistryInv`.
  `StoreSoFar` says how far a Store that has not failed is: for the names that are done the store
  holds every entry and nothing else, for the one being written the entries up to the index, and
  what is still to be deleted is the key of no entry or of a name that extends another. An entry
  that points to a request that waits for mu carries no claim, since that request may write
  another service over it (`Fixed`); `RegistryPointers` then gives that at rest there is none.
  The other half is Recovery: its walk over the keys is a recursive function, which is shown to
  exist (`WalkExists`) and to keep every value it has met (`RecoveredLists`), by the least place
  where this would fail. `GatewayProofs!TypeCorrect` follows with `TopicsInv`.
* `PanicWasAskedAlways` and `ConfigTypeCorrect`, for `ConfigSpec`, from `ConfigInv`: after the Stop no
  watcher begins to ask, so that one with a reply for the closed channel was asking before. This is
  the safety part of `WatchersEnd`.
* `MasterConnectionProofs!HeartbeatTypeCorrect`: toBeSent keeps to its capacity and the errors to their limits;
  a reader that replies owes an answer, and a connect is tried only while failures are left.

The assumptions are the named ASSUMEs of the modules: nil is none of the other constants,
configurations have their types, lists range over their sets, the content of a docker-compose
file is not the mark for a missing one and the gateway's own directories are finitely many, sections and groups have different names, a service is
neither a request nor the mark of a free lock and there are a name and a host, sizes and bounds
are natural numbers. TLC evaluates them.

Only model-checked: liveness, since fairness and ENABLED are out of the prover's reach
(`StopTrueReturns`, `StartTrueReturnsUnlessStopped`, `ExitNoticed`, `BrokenIsLeft`, `EventDelivered`,
`StopAllReturns`, `OpenvpnMasterReached`, `CancelEndsSearch`, `IFaceSettles`, `ReloadReturns`, `ServeEnds`,
`WatchersEnd`, `ClientFollows`). Every invariant and every action property of the passing runs is proved.

## Observations

Behaviour of the code that the models show. The properties above are stated around it.

*Processes.* A Start(true) whose program is stopped before its first launch waits for ever
(run() returns without finishCb, process.go:462); with startsecs = 0 the exit of the program is
never noticed (run `process_startsecs`). A program in its restart pause when Stop comes is launched
once more, although the loop says "not stoped by user" (process.go:461); a FATAL program
is run again when autorestart says so; the caller of Start(true) is told by the monitor of a
launch that failed. A restart of the supervisor does not stop the event listeners of the old
table (supervisor.go:437 visits pm.procs only), and the new one starts them again.

*Configuration.* A cycle in depends_on hangs the first Reload in GetProgramNames, before
pm.lock is taken. Dependencies on a section with several processes are ignored; all processes of
a section run the command expanded for the first; a section whose expression cannot be
evaluated is dropped; overlapping Reloads write the map of entries without a lock, which ends
the process.

*Events.* The emitter of the stderr log is made with NewStdoutLogEventEmitter, so
PROCESS_LOG_STDERR is never emitted; neither are SUPERVISOR_STATE_CHANGE and PROCESS_GROUP
events. A listener that answers with an unknown result is sent the event again without its
READY.

*Logs.* Program logs have a NullLocker: a clear while the program writes may lose bytes or leave
the logger writing to a removed file; a tail request between nextLogFile and openFile of a
rotation reads the oldest file. An END before any BEGIN is a slice out of range in the
capture. The stderr capture wraps the stdout log. Closing a LogCaptureLogger leaves the capture's
goroutine.

*Heartbeat.* beat() sends on toBeSent, of which it is the only consumer, and blocks for ever when
the channel is full (heartbeat.go:245); packets queued for one connection are sent on the
next before the WorkerID; the two first packets may block on a channel that is still full.

*Network.* With wireguard, one failed "wg-quick up" makes every later Restart fail at its "down"
(wireguard.go:36). onFirstConnect is called when the search is cancelled. When the old interface
comes back in the middle of a switch, routes already moved stay on the new one.
A failing write of dnsmasq.hosts has already truncated it, so that the master may have no entry;
the DNS setup resets the same file. An upstream file that a kill or a failing write left empty is
never filled again; the rewriting of /etc/hosts keeps only the last name of each line (setup.go:141),
drops comments and loses all entries if killed; a docker that could
not be restarted is not restarted at the next start.

*Updates and device.* The signal of a new target is dropped unless the loop waits
(interface.go:82): a target set after the comparison and before the wait is not installed until
something else wakes the loop, although it is to be "in the background" (interface.go:19). The status is
tested and set in two steps, so two updates may run at once; an uploaded version is undone after
the restart by an older target; a version text with a line end is never reached; packages other
than the toolset never count as installed. cleanBootstrap removes the file only if it does not
exist; a kill inside the write of /edge/init empties it.

*Mounts.* A card that changes between InitTF and Watch is not seen; a card exchanged between two
events leaves the mount of the old one. A card pulled out while edge-guard is down stays mounted
and linked after the restart: InitTF passes over a card that is not there (mount.go:81-92), and no
event comes. The closures that start the listeners share their loop variables (serve.go:117), so
that with several directories all listeners may watch the last one.

*Gateway.* Without its directory the first start has no store; a second ServeGateway in one
process makes a second store object, which cannot open the file once the first is used: grants
through its handler are sent but not stored, its listings panic. A websocket of a first start
without the directory has a handler without a store, and misses the topics granted through the
next start. Store of a name deletes the keys of names that extend it, the
last service of a name comes back after a restart, a failed Put is dropped; keys are compared as
text, so that with an eleventh service of a name (".10" comes before ".2") Store deletes the keys
of the third to the tenth (dynamic.go:146); all services of one
request share one variable; Search reorders the shared list without a lock. A stalled client
holds the lock of sendTopic; concurrent WriteJSON calls can end the process. A reply after Stop
is sent on a closed channel and ends the process; without a close frame handler and watchers stay;
two requests may be mixed in the one request variable, a refused message included; reader and
handler may write to the websocket at once, which ends the process, the websocket or a reply. A put
never reaches the agent: its URL has no host (configagent.go:191), and the error is dropped. No
index is sent with a long poll: that its answer is the current value is assumed of the agent.
cleanUp of docker-compose acts only when the directory is gone already (container.go:241), so that it
removes nothing after an interrupted request, although its comment says so (container.go:297).
Requests for one docker-compose directory are not serialised: a DELETE, a truncate or a cleanUp that
meets an up can leave services running without their directory. A truncate leaves the directories
named by JX-Compose-Id, although its comment speaks of all services (container.go:479). up uses
/data/compose whatever ComposeBaseDir says; the models are for the gateway.cfg of the repository, which
sets it to the same, not for the default /tmp/compose (option.go:184).

## Not modelled

Real time; process ids and their reuse; the text of configuration files, requests and
events; the framing of heartbeat packets; a VPN that goes down by itself; the read-only
requests and standard input of the supervisor; a configuration text that changes between two loads.
The data race on the listener tables (a concurrent map access ends the runtime) has no step.
In DynamicService the swaps of Search are atomic and on the current list; a corrupted store is
empty from the crash on, since nobody reads it before Open removes it. Stopping and disabling
a service is one step of DnsSetup. A torn read of a string of the request variable is not modelled:
the action is read whole, and the key whole when it is used. Program management, the operation log, SSDP, system information, the
web and control clients and the gateway's AI serving, camera and proxy handlers are
formatting, files, database rows or forwarding: they keep no state in the process whose order of
steps could be wrong. The generated protocol buffers are data.

## Plan

1. Process, Lifecycle, Supervisor, EventListener, Heartbeat, MasterConnection, IFace: done.
2. ProgramOrder, FileLogger, ProgramLog, UpdateManager, Device, Mount, DnsSetup, EdgeGuard, the
   gateway's modules: done.
3. The packet framing of `handler.go` against a reference (a head after a byte equal to its first,
   half-read lengths).
4. Proofs of all invariants and action properties: done.
