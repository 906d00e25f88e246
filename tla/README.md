# Verification of rathole-x

rathole-x is a reverse tunnel: a *client* behind NAT keeps one control channel
per service to a *server*; visitors connect to the server, which asks the
client for data channels and forwards the visitors over them.  This directory
holds TLA+ models of the program, TLC runs that check them on small instances,
and TLAPS proofs for every value of their constants.  Paths such as
`src/src/server.rs` are relative to the directory that holds `src/` and `tla/`.
`PROJECT.json` says for every definition which lines it models.

## Inventory

| component | state it keeps | operations | what is hard | what makes it correct |
|---|---|---|---|---|
| **Server control plane** (`server.rs`: `Server::run`, `handle_connection`, `do_control_channel_handshake`, `do_data_channel_handshake`, `handle_hot_reload`) | `services` and `control_channels` behind two async locks, one task per connection, one handle per channel | accept, authenticate, install (superseding the older channel), route a data connection, add/delete a service, shut down | handshakes race each other, reloads and the handshake timeout; locks held over awaits; a handle that is dropped *is* the shutdown signal | one channel per service, each authenticated; data goes to the channel of its session key; dropped channels end; the status follows |
| **Server TCP data plane** (`server.rs`: `ControlChannelHandle::new`, `ControlChannel::run`, `tcp_listen_and_send`, `run_tcp_connection_pool`) | a pool of data channels, visitor queue, count of unanswered requests with a deadline | request, arrival, deadline, accept a visitor, pair it with a channel | five tasks joined by bounded queues; broken cached channels; count and deadline must stay exact | requests and channels balance; no visitor waits uncovered; a send under the map's lock never blocks; the port is released |
| **UDP data plane** (`run_udp_connection_pool` in `server.rs`; `run_data_channel_for_udp`, `run_udp_forwarder` in `client.rs`) | one session at a time; on the client a port map, a forwarder per visitor address, two queues | forward a datagram either way, create and time out forwarders, replace a broken data channel | the port map is read, awaited over and written; all queues can fill | the map names the live forwarders; packets go to their own visitor's forwarder; a break takes the session down |
| **MultiMap** (`multi_map.rs`) | two hash maps of raw pointers into shared boxes | `insert`, `get1`, `get2`, `remove1`, `remove2`, `Drop` | `unsafe`: an index that is missed is a use after free or a leak | memory safety; it is a dictionary with two keys |
| **Client** (`client.rs`: `Client::run`, `ControlChannelHandle`, `ControlChannel::run`, `run_data_channel`, `note_data_channel_failure`) | a handle per service, a task per handle, failure counter per run, rebuild request channel | connect with backoff, open data channels, rebuild after repeated failures, add/delete a service, shut down | old and new tasks of a service overlap; data channels outlive their run | no orphaned task; a handled task never gives up; a told task ends; failures force a rebuild |
| **Runtime status registry** (`runtime_status.rs`) | a snapshot per service, with its owner | `server_connected`, `server_disconnected`, `client_*`, add/remove | written by all of the above in any order | a connected status has a task that will clear it |
| **Process supervisor** (`lib.rs`: `run_with_config`, `run_instance`, `determine_run_mode`) | current instance, its shutdown sender, its update queue | start, restart, forward a service change, shut down | signals are broadcast to whoever has subscribed; restart versus end of process | the instance runs what the file says; only a shutdown stops the process, and one is heard; joins complete |
| **Configuration watcher** (`config_watcher.rs`) | the configuration it read last, an event queue | rescan, compare, emit events | rewrites between reads, invalid files | events lead from the old configuration to the new one |
| **Configuration loading** (`config.rs`) | none | parse, validate, inherit defaults | rules that interact (transport and its sections, default tokens) | what the loader accepts has a token per service and a retry interval per client service |
| **Configuration editor** (`config_edit.rs`) | the file; a temporary file per invocation | `set`, `import`, `add` (single, batch, interactive), `remove`, the file an install writes | two readings and no lock, with other editors and the watcher in between; a crash between any two steps | a command is one atomic change to a valid file or nothing; a command whose reading is current loses or changes no service in passing; a file keeps one role |
| **Service management** (`platform/*.rs`, `lib.rs`) | configurations, version stamp, shared binary, units of systemd, OpenRC or the Windows SCM, processes | install, uninstall, start, stop, restart, upgrade; of one name or all | each of several external steps may fail or be the last; shared files; a role edited by hand | an installed service has its files; a success is a success; a failed install can be repeated; an upgrade restarts what ran |
| **Status endpoint and query** (`lib.rs:614`, `platform/linux.rs`, `platform/windows.rs`, `status.rs`) | a local socket or pipe per instance | bind, serve a snapshot, query, render | the next generation binds while the task of the previous one may still listen | the endpoint does not go on answering for a replaced instance |
| **Transports** (`transport/*.rs`) | a stream | TCP, TLS, Noise, websocket | third-party libraries | a reliable byte stream until it breaks |
| **Protocol, helpers, command line** (`protocol.rs`, `helper.rs`, `constants.rs`, `cli.rs`, `main.rs`) | none | encoding, retries, argument parsing | — | — |

How they interact.  `main` calls `run_with_config`, which opens the file
through the watcher and spawns one instance (client *or* server).  The watcher
sends general changes and service changes over an unbounded queue; the
supervisor answers the first with a restart and forwards the second over a
bounded queue to the instance, whose main loop applies them.  The server
installs control channels in the map; the tasks of a channel are the connection
pool, the listener and `ControlChannel::run`, all stopped by dropping the
handle.  A data connection finds its pool through the map.  Both instances
write to the status registry, which the status endpoint serialises.  The editing
commands run in processes of their own and meet the service only in the file:
they replace it, the watcher notices.  `service install` writes the file by the
editor's code, then copies the binary and registers the service.

## Modules

| module | models | state |
|---|---|---|
| `TwoKeyDict` | the abstract specification of `control_channels`: a set of entries, unique in each key | `entries` |
| `MultiMap` | `multi_map.rs` with an explicit heap; an address is free or holds a box; both indexes hold addresses | `heap`, `map1`, `map2` |
| `ServerControl` | server control plane and registry, one action per stretch of code between two awaits | see its `VARIABLES`; `entries` is a `TwoKeyDict` |
| `DataPool` | one TCP service: control channel, data connections, listener, pool; connections of one kind are alike and are counted | counters and task states |
| `UdpForward` | one UDP service on both sides; a packet is its visitor | pool, connection, reader, port map, forwarders, writer |
| `ClientControl` | the client's tasks, data channel setup, hot reload, status | per task and per run |
| `ConfigDiff` | `calculate_events`, `calculate_instance_config_events` and `determine_run_mode` as operators, `Apply` as what an event does | none |
| `Supervisor` | `run_with_config`, `run_instance`, the watcher and who has the name of the status endpoint | file, watcher, two queues, supervisor, instance, signals, endpoint |
| `ConfigRules` | the schema and the checks of `config.rs` (`Validate`) and what the loader fills in (`Effective`), as operators over documents | none |
| `ConfigCommands` | the commands of `config_edit.rs` as operators from a document to the edited one or a refusal (`Edit`) | none |
| `ConfigStore` | the abstract specification of the editor: a command is one atomic change of the file, to a valid one, or an error | `file`, `outcome` |
| `ConfigEdit` | any number of invocations of the commands with the steps of the rewrite, failures and crashes, and the watcher | `file`, `stamp`, per invocation command, progress, copy and temporary file, `running` |
| `ServiceManager` | `service install`, `uninstall`, `start`, `stop`, `restart` and `upgrade` on Linux (systemd and OpenRC take the same steps) and Windows | platform, files, units, processes, the command that runs |
| `MC...` | constants of the runs that need definitions | |
| `...Proofs` | theorems | |

`ServerControl` uses the dictionary that `MultiMap` is proved to implement, so
the two compose: what is shown of `entries` holds of the pointer structure, and
the server's own steps are operations of that dictionary (`InsertNeverRefused`).
`DataPool` and `UdpForward` are the inside of a control channel of
`ServerControl` (its `pool`, `inbox` and `chan`, for one channel and with the
handle as interface).  `Supervisor` treats the instance as something that is
spawned, polled, told to stop and ends, which `ServerControl` and
`ClientControl` detail.  `ConfigEdit` is what `WriteFile` of `Supervisor` stands
for: its theorem `FileAlwaysValid` says that commands never give the watcher the
file `Bad`, which only an edit by hand can.  `ServiceManager` sees of a
configuration its presence and its role.

Abstractions that hold in all modules: names are not hashed, so two services
never share a digest, and a session key, `digest(token ++ nonce)`, is the pair
of its inputs; a connection delivers in order until it breaks and may break at
any time; log messages and error texts are left out; a duration is a step that
may happen while its timer runs.

### Granularity

An action is what a task does between two points where it can be suspended or
cancelled.  An `await` on a lock that may be held is a step of its own with the
lock's availability as a guard (`HoldsReadLock`, `ServicesWritable` in
`ServerControl`); a `send` on a bounded channel waits for room, one on an
unbounded channel does not.  The handshake timeout is an action
(`AbortHandshake`) enabled at each of the handshake's awaits.

## Runs

| run | specification | instance | checks |
|---|---|---|---|
| `multimap` | `MultiMap!Spec` | 3 × 3 keys, 2 values, 3 addresses | `NoDangling`, `NoLeak`, and that the structure implements `TwoKeyDict` (`ImplementsDict`) |
| `server_control` | `FairSpec` | 2 connections, 1 service, 1 token and a wrong one, queue of 1 | `UniqueChannel`, `AuthenticatedEntries`, `ConnectedHasTask`, `DataRoutedByKey`, `DeliveryOnlyToInstalled`, `DroppedChannelEnds`, `StatusSettles`, `ReloadEvicts`, `ShutdownDrains` |
| `data_pool` | `FairSpec` | pool of 2, visitor queue of 2, queue of 6 | `Ledger`, `PendingExact`, `QueueHasRoom`, `VisitorResolved`, `DropReleasesPort` |
| `visitor_hangs` | `FairSpec` | pool of 1, visitor queue of 1, queue of 4 | violated: `VisitorsDoNotHang` |
| `udp_forward` | `ClientSpec` | 2 visitors, 2 forwarders, queues of 1 | `OneChannel`, `PortMapExact`, `SentToOwnForwarder`, `BreakReleasesSession` |
| `udp_stuck` | `FairSpec` | 1 visitor, 1 forwarder, queues of 1 | violated: `DropEndsPool` |
| `client_control` | `FairSpec` | 1 service, 2 tasks, 1 run each, 2 data channels, threshold 2 | `ConnectedHasTask`, `HandledNeverGivesUp`, `NoOrphanTask`, `ToldTaskEnds`, `ShutdownSettles`, `FailuresForceRebuild` |
| `supervisor` | `FairSpec` | 4 configurations and an invalid file, 2 queued events, 1 queued update | `InSync`, `OnlyShutdownStops`, `StatusCurrent`, `ReloadApplied`, `SignalHeard` |
| `supervisor_join` | `FairSpec` | 2 configurations, queues of 2 | violated: `JoinCompletes` |
| `config_edit` | `Spec` | 3 invocations (symmetric), 12 commands, 3 initial files, 3 names, 2 addresses, 1 token | `RuntimeComplete`, `ImplementsStore`, `EditExact`, `RoleKept` |
| `service_manager` | `Spec` | 2 names (symmetric), both platforms, 1 name edited by hand | `InstalledComplete`, `ReportTrue`, `RetryPossible`, `UpgradeResumes` |
| `service_kept_config` | `Spec` | 2 names, nothing edited by hand | violated: `LockdownResolves` |

Each property's comment in its module says what it means for the code.

Why the bounds are enough to meet the interesting cases.  *MultiMap*: three
boxes are needed for an insertion that collides with a different box in each
index.  *ServerControl*: two connections are a channel and the one that supersedes
it, or a channel and a data connection; services do not interact except through
the locks and the map, whose keys they do not share, so one name suffices.  A peer
presents the token or a wrong one; a reload deletes the service, or adds it again
with another type or `nodelay`, which are not modelled, or as it was.  A data
connection that holds the map's lock against a handshake that wants to supersede its
channel takes three connections, and a token that changes takes two tokens: the
safety properties were checked by hand for three connections too (354,246 states up
to symmetry), and their theorems hold for any number of each.
*DataPool*: two cached channels and two queued visitors give broken channels in
front of good ones and a full visitor queue; `QueueCap` is the least value that
satisfies the inequality of the code (`CHAN_SIZE * 2 >= pool + CHAN_SIZE + 2`),
and `MaxCount` only stops the request counters.  *UdpForward*: with one slot
everywhere all queues fill in a few steps; two forwarders for two visitors let
an identity be reused for another visitor.  *ClientControl*: two tasks are a
replaced one and its successor; a run identity is reused as soon as no data
channel of it is left.  With one identity (`Gens`) a new run waits for the data
channels of the one before it, which the code does not; the state space with two is
too large for the liveness properties unless `MaxOpen` and `Threshold` are 1 (132,363
states, checked by hand, all properties hold), and `RebuildRequested`,
`FailuresRebuild` and the safety theorems cover runs that overlap.  *Supervisor*: the configurations differ in a general
setting, in a service's setting, in the presence of a service and in the presence
of a section, so that every kind of event occurs; two events are a deletion
followed by an addition, and with room for one update the supervisor also waits
for room (`UpdateCap`); `MaxEvents` bounds a queue that the code leaves unbounded.
*ConfigEdit*: three invocations are one that edits, one that changes the file
between its two readings and one that changes it before its rename; the commands
of `MCConfigEdit` are one of each kind and those whose arguments meet a check the
others do not (a colliding address, an odd name, an absent and an unknown type, a
missing or an empty token, a flag of the other role, a bad proxy, a retry interval
of zero); names, addresses and
tokens are compared for equality only.  *ServiceManager*: two names tell the
last service from one of several, and a second name edited by hand meets nothing
that the first does not (`MaxEdits`); commands follow each other without bound.

`CHECK_DEADLOCK FALSE` stands where the modelled process ends (shutdown), its
connections are used up or all invocations have ended; `MultiMap` and
`ServiceManager` can always take a step and are checked.

### Fairness

Tokio polls every ready task and fires timers, so the steps of the program's
own tasks are weakly fair.  Strong fairness appears only where a `select!`
picks at random among ready branches (`ChannelShutdown` and `PoolClose` of a dropped
handle, `PoolShutdown`, `StopDegraded`, `StopWatcher`, `BeginTeardown`): a branch that
is ready again and again is taken.

A task looks at its shutdown signal only in its `select!`, not in the I/O of a branch
that it has taken.  `ServerControl` has that I/O as states of their own (`chan` is
"writing", `pool` is "busy") and assumes nothing about its end: a peer that stops
reading can keep `ControlChannel::run` in `write_and_flush` (`server.rs:616`, `657`)
and a UDP pool in `write_slice` (`server.rs:858`) for ever.  `DroppedChannelEnds`,
`ReloadEvicts` and `ShutdownDrains` therefore say `~> [](... AtRest)`: from some point
on the task has ended or is in one and the same I/O (no step leads from the one to
the other).  That leaves open what `udp_stuck` shows to happen, and excludes the
rest: a task that is kept from its end by traffic, a drop that is missed, an order of
locks in which the handle survives.

In `DataPool` a command of a few bytes is written or fails (each connection has room
for one, or TCP gives up on it), a data channel is not broken every single time
(`SF(StartForward)`), and the deadline is stated as what it is: unless arrivals
keep coming while it is armed, it fires.  The first is more than `ServerControl`
assumes; `VisitorResolved` needs it, because the deadline is not looked at during a
write either.  Nothing is assumed of a client that lost its control channel: that it
may never come back is what `visitor_hangs` shows, and `VisitorResolved` promises no
more than that a waiting visitor is forwarded or dropped or the control channel given
up.  Nothing is assumed of visitors, of the operator, of a peer or of when a
connection breaks, with one more exception: in `ClientControl` a dial ends (the
server closes a handshake after `HELLO_AUTH_TIMEOUT`) and so does a data channel's
setup.

## Theorems

| module | theorems |
|---|---|
| `MultiMapProofs` | `MemorySafety` (`NoDangling`), `NothingLeaks` (`NoLeak`), `LookupsConsistent` (both indexes find the same box), `MultiMapRefinement` (`MultiMap` implements `TwoKeyDict`) |
| `ServerControlProofs` | `ControlPlaneSafety` (`UniqueChannel`), `InstalledAreAuthenticated` (`AuthenticatedEntries`), `ConnectedIsBacked` (`ConnectedHasTask`), `RoutedBySessionKey` (`DataRoutedByKey`), `DeliverySafety` (the action property `DeliveryOnlyToInstalled`), `InsertNeverRefused` (the server uses the map as `TwoKeyDict` allows), and the liveness theorems `DroppedChannelsEnd` (`DroppedChannelEnds`) and `StatusesSettle` (`StatusSettles`) |
| `DataPoolProofs` | `PoolBookkeeping` (`Ledger`), `PendingIsExact` (`PendingExact`), `QueueNeverFull` (`QueueHasRoom`), `VisitorsAreCovered` (every waiting visitor has a channel or a request for one), and the liveness theorem `DropClosesListener` (the port of a dropped channel is released) |
| `UdpForwardProofs` | `UdpSafety` (`PortMapExact`), `PacketsStayWithVisitor` (`SentToOwnForwarder`), `PoolOwnsOneChannel` (`OneChannel`) |
| `ClientControlProofs` | `ClientTasks` (`NoOrphanTask`), `ServicesKeepTrying` (`HandledNeverGivesUp`), `ClientConnectedIsBacked` (`ConnectedHasTask`), `RebuildRequested` (a full failure count has asked for its rebuild), and the liveness theorems `FailuresRebuild` (`FailuresForceRebuild`) and `ToldTasksEnd` (`ToldTaskEnds`) |
| `SupervisorProofs` | `ReloadNeverStops` (`OnlyShutdownStops`), `StatusFollowsInstance` (`StatusCurrent`), `EventsLeadToNew` (what `calculate_events` yields turns the old configuration into the new one), `TypeCorrect`, `InstanceInSync` (`InSync`), `SettledInstance` (with both queues empty an instance has the section of the file) |
| `ConfigEditProofs` | `FileAlwaysValid` (the file is missing or valid), `RuntimeAlwaysComplete` (`RuntimeComplete`), the action properties `EditsAreExact` (`EditExact`) and `RolesAreKept` (`RoleKept`), `EditorImplementsStore` (`ConfigEdit` implements `ConfigStore`) |
| `ServiceManagerProofs` | `InstalledAlwaysComplete` (`InstalledComplete`), and the action properties `ReportsAreTrue` (`ReportTrue`), `InstallRollsBack` (`RetryPossible`), `UpgradeBringsBack` (`UpgradeResumes`) |

Every proof of a safety property goes through an inductive invariant, which
contains the type invariant or what is needed of it, shown for the initial
states, for each action and for each conjunct the action can disturb. The
assumptions are the named `ASSUME`s of the modules: `None` is not an ordinary
value, capacities are natural numbers, and not zero where a task has to get
through the queue (a tokio channel of no capacity panics), for the pool the
inequality between its queues, for the editor that the file it starts from is
missing or valid, and for the supervisor that the service names are a finite set
and that `None` is no section.

* `MultiMap`: an address in one index is in the other, under the keys of its
  box, and every allocated box is in the indexes.  The refinement maps the heap
  to the set of its boxes.
* `ServerControl` (`ServerInvariant`): what a handshake has established in each phase
  (`HandshakeInv`), that an entry's keys are those of the connection it holds
  (`EntriesInv`; uniqueness of the session key then follows from the nonce),
  that a data connection in the middle of its send is protected by the read
  lock (`RoutingInv`, which `DeliverySafety` rests on), and that the owner of a
  connected status is a channel of that service that has not reported
  (`StatusInv`).  `let _ = h.insert(...)` ignores a refusal that would drop the
  handle of a channel just started; `InsertNeverRefused` shows that there is none,
  because no entry carries the nonce of a handshake that has not ended.
* `DataPool`: the ledger alone is not inductive, because it says nothing once
  the control channel has ended; the inequality that remains true then, and the
  bound of the visitor queue, give `QueueHasRoom`.
* `UdpForward`: the reader looks a visitor up, awaits a connection and inserts:
  that no entry has appeared in between holds because only the reader inserts
  (`ReaderInv`).
* `ClientControl`: `NoOrphanTask` and `HandledNeverGivesUp` are two halves of
  one correspondence between handles and tasks that were not told to stop.
  `RebuildRequested` adds that a run which is over and has no data channel left
  has no count, since a later run takes its place.
* `Supervisor`: the process-wide signals are set only by the shutdown, and the
  endpoint of an earlier generation was told to stop or lost its last sender.
  `InSync` needs three invariants, one for each place where a configuration waits
  (`SyncInv`): a queue that holds a whole configuration ends in what the watcher
  read, from wherever it is replayed (`QueueOK`); a generation about to be started
  ends there too (`RestartOK`); and a live instance ends there in its own role, or
  will be replaced (`LoopOK`).  They rest on facts about `Replay` for queues of
  every length (it splits over a concatenation, it acts on one section and name at
  a time, and it forgets what was before a whole configuration), proved by taking
  the least position at which they could fail; and on `EventsLeadToNew`, which
  covers every order in which the hash maps may be walked.
* `ConfigEdit`: the file is valid because every copy on its way to it is, for as
  long as the invocation takes: `Progress(p)` says that what an invocation has
  edited is valid and is the edit of the document it read, or the skeleton of
  an install, and that its temporary file is that copy once it is written.  The
  lemmas before it are about the operators: removing a service keeps a document
  valid, each command keeps the services it does not name, and what the loader
  fills in is complete for a valid document.  The refinement maps an invocation
  to its outcome; every step before the rename is a stutter.
* `ServiceManager`: which step belongs to which command (`StepsOfCommands`), and
  per command what it has put in place, removed or started when it comes to a
  step (`InstallInv`, `UninstallInv`, `UpgradeInv`), in each case up to the names
  that were edited by hand in the meantime.

The liveness theorems assume `FairSpec` and `[]GuardsEnable`.  Fairness
speaks of `ENABLED`, which the prover cannot expand.  `GuardsEnable` (one in each of
the three modules) says of each action used that its guard enables it.  It follows
from the form of the actions, which assign every variable and have no other
condition, and it can be checked by naming it as an `INVARIANT` of a proof module
under the constants of the module's run: TLC, which evaluates `ENABLED`, finds it to
hold in all 33,612 states of `ServerControl.cfg`, in all 71,498 of `DataPool.cfg`, and in the 4.07 million of `ClientControl.cfg` with a
second run identity.  The arguments are chains of phases: from each phase a step
leads only to itself or to a later one, and the action that leaves it is fair.  Where
a task goes back and forth between its `select!` and an I/O the strong fairness of
the shutdown branch either takes it out or leaves it in the I/O for ever.  A
channel that lost its handle cannot regain one (`DroppedStays`), a task that was told
to stop cannot be untold (`ToldTaskMoves`), and a listener that waits for room in the
visitor queue needs the pool to take one visitor, not all (`GoneStep`).

Left to TLC, because they need a ranking over a number or the conjunction of
`<>[]` over a set of any size, which propositional temporal logic does not give:
`ShutdownSettles`, `ReloadEvicts`, `ShutdownDrains`, `VisitorResolved`, the pool's
half of `DropReleasesPort` (it drains a queue), `BreakReleasesSession`,
`ReloadApplied` and `SignalHeard`.

## Findings

Four runs show the code departing from what the repository says of it; each
entry of `findings` quotes the sentence.

1. `supervisor_join`: the instance subscribes to its shutdown signal when it is
   first polled (`lib.rs:551`); told to stop before that, it never hears of it.
2. `udp_stuck`: with traffic in both directions, pool, reader, forwarder and
   writer can all wait for room that only the next one makes; the pool does not
   look at the shutdown signal while it writes (`server.rs:858`).
3. `service_kept_config`: on Windows the accounts that get access are taken from
   the configuration files (`platform/windows.rs:362`).  A file that an uninstall
   kept names an account that does not resolve, and the lockdown of every other
   install fails until the file is deleted by hand.
4. `visitor_hangs`: when the data channel deadline ends a control channel
   (`server.rs:651`), its handle stays in the map until another channel of the
   service is installed, and with it the sender the pool waits on (`server.rs:769`):
   the visitor in the pool's hands is neither forwarded nor dropped.  The comment on
   the deadline (`server.rs:49-53`) says that it is there because visitors would
   otherwise hang for ever.

Observations on the data planes and the control planes.  The first two can be
reproduced by checking the named definition of the module.

* `SupersededNeverClears` of `ServerControl`: a handshake claims the status
  (`server.rs:387`) before it waits for the lock under which it installs its
  channel (`server.rs:400`).  Two handshakes can do the first in one order and
  the second in the other; the superseded one then turns the serving channel's
  status into `waiting`.
* `RemovedServiceHasNoChannel` of `ServerControl`: the service is checked at line
  387 and not again after the lock at line 400, so a channel can be installed
  for a service that a reload deleted in between.
* `server.rs:616` and `657`: `ControlChannel::run` does not watch for shutdown, nor for
  its deadline, while it writes to a peer that does not read; the exception in
  `DroppedChannelEnds`.
* `client.rs:656`: a replaced service task that ends late reports
  `client_stopped` over the status of its connected successor.
* `client.rs:205`: data channels of an ended run can queue a rebuild request
  that ends the task's next run.
* `client.rs:647`: a handle dropped during the backoff sleep is noticed after
  one more dial.

On the supervisor:

* `config_watcher.rs:103` and `165`: the file is read before the watch is
  registered; a rewrite in between is noticed with the next one.
* `lib.rs:497-500`: a shutdown signal that arrives in the degraded mode together
  with the retry timer can be lost: the sleep's branch is taken, the file has
  become usable, and neither the new watcher nor the main loop has subscribed
  yet.  `SignalHeard` is therefore about signals the watcher received.
* `lib.rs:568`: a service change for an instance that has died is dropped, and
  nothing restarts the instance before the next general change.
* `config_watcher.rs:165`: a watch that cannot be registered tears a healthy
  instance down, and the process ends without an error.
* `lib.rs:568`: while a change waits for room in the instance's queue the supervisor
  does not look at the shutdown signal (`AwaitRoom`); the instance takes what is
  queued, so `SignalHeard` holds.
* `lib.rs:614`: the task of the status endpoint is told to stop and not joined.  A
  new generation that binds before it has ended has no endpoint until the next
  restart; and an instance that has failed leaves its endpoint answering until
  then.

On the configuration editor:

* `config_edit.rs:1647-1659`: the roles of a batch are checked on one reading of
  the file and the batch inserted into a second one, so a concurrent command can
  make a file with both sections (the exception in `RoleKept`).
* Two editors that overlap are last-writer-wins: `EditExact` needs the reading to
  be still current when the file is replaced.
* `config_edit.rs:416`: a failed write or `set_permissions` leaves the temporary
  file behind; only a failed rename removes it.

On the service manager:

* `platform/linux.rs:149`: `deploy_binary` copies over the binary in place, so a
  failed or killed copy leaves a torn one to every installed service, although
  `docs/linux-service.md:39` and `102` say that it is deployed and replaced
  atomically.  `InstalledComplete` excludes a torn binary on Windows only, where
  `ensure_binary_copy` goes through a temporary file; without that restriction TLC
  finds it violated.
* `platform/windows.rs:1639-1642`: an upgrade that cannot resolve its own executable
  returns after the services were stopped and starts none of them, although the
  comment above (`1636-1638`) says that a failed upgrade never leaves every service
  down.  `UpgradeResumes` excepts that step (`Halted`); without the exception TLC
  finds it violated.
* `platform/systemd.rs:239-278`: an upgrade on Linux that fails after the services
  were stopped starts none of them.
* On Linux a second service cannot be installed while one runs, because the copy
  over a running binary is refused; and a failed `enable` leaves the unit file,
  which makes the next attempt fail.
* `platform/windows.rs:1408-1414`: after the role of a file was edited by hand, a
  single uninstall does not look for the service of the old role; with `--purge` it
  deletes the file and reports success.  On Linux one of the two units is removed.
* `--all` for start, stop and restart ends at the first failure, which includes a
  configuration that an uninstall has kept.

## Not modelled, and the plan

Modelled in part: of the runtime status registry the state and its owner, not the
serialisation of a snapshot; of the status endpoint who has the name, not the
request and its answer; of service management not the elevation relay, the SCM's
entry point (`service_main`), log files and the texts of units and scripts; of the
wire protocol the messages, not their encoding; of the helpers the retry, not the
durations.

Without state of their own or out of reach: the transports (third-party TLS,
Noise and websocket streams), the bytes copied after a visitor is paired with
its channel, argument parsing, the query and rendering of the status, and the
cryptographic digest, whose collisions are assumed away.

Next, in this order:

1. `Tunnel`: client and server control planes composed, with the messages of
   `protocol.rs` in flight, and one abstract service that both implement.
2. The Windows entry point: `service_main` with its control handler and the
   states it reports to the SCM, around `Supervisor`.
