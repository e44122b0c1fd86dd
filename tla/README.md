# OpenSync platform layer for RDK: TLA+ models and proofs

The repository is the layer between OpenSync's managers and the RDK-B stack: the
target library that the managers link (`src/src/lib/target`), and a few smaller
libraries and daemons around it. This project models the target library's
control logic, checks it with TLC on small instances, and proves the invariants
the runs check, all but two, with TLAPS for every value of the constants.
`PROJECT.json` lists components, runs, mutants, the source lines behind every
definition, findings, hazards and theorems; this file explains them.

## 1. The system

### How it runs

Each OpenSync manager (WM, CM, SM, BM, ...) is a process with **one libev event
loop**; the target library's functions run on it: as calls of the manager
(`target_*`), timer callbacks, socket callbacks and async callbacks. Between two
callbacks nothing else of the library runs on the loop. Around the loop:

- the **Wi-Fi HAL**, a driver library linked in the same process, which the
  library calls synchronously and which calls back **from pthreads of its own**.
  The driver's state changes between any two HAL calls, and a configuration
  takes effect some time after the call that asks for it;
- the **Mesh-Agent**, a process that owns part of the Wi-Fi configuration; WM and
  CM connect to it by a Unix socket;
- the **RDK data model**, read by running `dmcli`;
- **OpenSync**: the managers hand the library callbacks (`op_rstate`, `op_vstate`,
  `op_client`, ...) that write rows of the OVSDB, which is all that the cloud sees.

What makes this hard is that OpenSync's rows have to follow a driver that
reports through lossy bounded queues, late, and in pieces; that several triggers
(events, delayed updates, health checks, requests) read the same state at times
of their own; that nearly every failing call is logged and passed over; and that
processes on the other end of a socket come and go.

### Components, their state, operations and what makes them correct

| Component (code) | State | Operations | Correct if | Model |
|---|---|---|---|---|
| HAL callback queues (the same code in `clients.c`, `wps.c`, `radio.c`, `multi_ap.c`, `vif.c`) | list, its counter, mutex, async watcher | init; callback in a HAL thread; async callback on the loop | bounded, in order, each event once, no lost wake-up | `HalEventQueue`, `AbstractEventQueue` |
| Client tracking (`clients.c`) | `connected_clients`, `cached_key_ids` | connect and disconnect events, snapshot of the resync pass, key ids of a configuration | what OpenSync was told is what the tree holds, and that becomes the driver's truth | `Clients` |
| Radio (`radio.c`) | `g_resync_ongoing`, resync and health check timers, last radar event | channel and radar events, requests, resync pass, health check | resync is never stuck or starved; rows follow the driver | `Radio` |
| Mesh-Agent connection, cloud mode (`sync.c`, `cloud_config.c`, `target.c`) | socket, connect timer, `radio_cloud_mode`, `AWLAN_Node:device_mode` | connect, reconnect, messages, status report, init and close | connected or trying; mode follows the mesh; no change dropped silently | `MeshSync` |
| VIF state (`vif.c`, `wps.c`, `multi_ap.c`) | list of delayed updates, two queues | request, delayed update, WPS and Multi-AP events, resync | update not too early; end of a session not overwritten | `VifState` |
| VIF configuration (`vif.c`) | copy of `vap_info`, cached key ids | `target_vif_config_set2`, `vif_sta_config_set2`, reading a configuration back | a sequence of partial changes gives what was asked; Mesh-Agent informed; ACL edits local | `VifConfig`, `StaConfig` |
| Neighbor scan (`stats.c`) | static result, request, timer, count | start, stop, poll, get, callback that re-enters | each scan answered once, whole time, complete result | `NeighborScan` |
| Client and survey statistics (`stats.c`) | last records | conversions of counters to deltas | nothing twice, nothing lost, percentages of the interval | `StatsDeltas` |
| Band steering (`bsal_legacy.c`, default build) | group, callback, client information, neighbor tree | init and cleanup, interfaces, events on the HAL's thread, neighbors | HAL's group and lists are the manager's; callback there when called; information current | `BsalSteering`, `BsalNeighbors`, `Bsal` |
| Band steering, HAL 3 phase 2 (`bsal.c`) | group of n radios; the rest as above | as above | as above | `BsalGroup` (the group; the rest is the same code) |
| DHCP server backend (`osn_dhcps.c`) | servers, their lease caches, watcher of one lease file, debounce timer | new and delete, file change, timer | the manager ends up with the file's leases, each once | `DhcpLeases` |
| Log forwarding (`pl2rl.c`, `pl2rld.c`) | connection, message under way; the daemon's connections | send in parts, reconnect; accept, read header and rest | messages neither torn nor merged; heard again after an outage | `Pl2rl` |
| Connector (`connector_main.c`, `connector_dm.c`) | none of its own | row by row writes over the CCSP bus | rows and data model agree | `Connector` |
| Logger backend, unit information, `dmcli`, diagnostics hook, MAC learning | none, or a build override | read one value, run one command | - | not modelled: no state a property could be about |
| Command line tools, build, root file system, OVSDB templates | - | - | - | not modelled: test tools and data |

Interactions: the HAL callback queues feed Clients, Radio and VifState, which
therefore use the *abstract* queue (`AbstractEventQueue`), whose implementation
by the real code is checked and proved once. The resync pass of Radio is the
repair mechanism of Clients and VifState and is an action of each. MeshSync's
messages end in a resync request. VifConfig ends where VifState begins (the
delayed update after `wifi_createVAP`); its messages to the Mesh-Agent go out
through MeshSync's socket. Bsal is used by the Band Steering Manager alone; the
leases (Network Manager), log forwarding (every process), the connector (XM), scans and
statistics (Stats Manager) share nothing with the rest or with each other, and
`Services` puts them in one specification.

## 2. The models and the code

Names of variables and operators are those of the code where TLA+ allows. A
function that runs to its end on the loop is one action **unless** it makes several
HAL calls between which the driver may change, or sends something on the way, in
which case it is a sequence of actions and a variable (`loop`, `pc`, `lpc`) says
where it is. "The driver", "the agent", "OpenSync's view" are variables of their
own, so that properties can relate them to the library's. History variables
(`missed`, `lost`, `failed`, `excused`, ...) are commented as such and appear only
in properties; budgets (`changes`, `events`, `failures`, ...) bound the environment
and appear in guards. Operators that a comment introduces as *mutated form* are
plausible bugs, used by no specification; the mutation list in `PROJECT.json`
names the property each breaks.

- **AbstractEventQueue** - one variable `box`; `Accept` when there is room, `Deliver`
  from the front; fairness of `Deliver`.
- **HalEventQueue** - the callback is six steps per HAL thread (`CbLock`, `CbRefuse`,
  `CbEnqueue`, `CbUnlock`, `CbCheck`, `CbSend`), the async callback four
  (`LoopWake`, `LoopLock`, `LoopDequeue`, `LoopUnlock`). `ev_async_pending` is read
  without the mutex, between the unlock and the send. `SavesLoop` tells the four
  complete copies of the code from the one in `vif.c`. Abstraction: `box` is
  `hal_cb_queue`, `CbEnqueue` is `Accept`, `LoopDequeue` is `Deliver`.
- **Clients** - the tree is a function from stations to the VAP and key id of their
  entry. Handlers (`clients_connection`, `clients_disconnection`, the snapshot
  `clients_hal_fetch_existing`) are operators on a station's *view*: its entry and
  the reports made for it; a station's report history is folded into a count per
  VAP ("active" minus "inactive") and the last key id.
- **Radio** - a batch is copied off the queue under the mutex, then processed with
  the driver running on. `radio_trigger_resync` is the operator that the health
  check and requests share; the pass is one step per radio and may end early. Queue and
  rest of the batch together are `AbstractEventQueue`'s box, of twice the size.
  `reader` and `overlooked` are histories: the radio whose event was the batch's first
  of a channel change, and the radios whose last event had no effect on their own state.
- **MeshSync** - every manager has its socket, timer and inbox. `Connect` (socket and
  connect) and `OnConnect` (reading the data model, reporting the status) are
  separate, because the mesh state may change in between. A message is a type and,
  for mesh state changes, the state; the rows that messages about SSID, security
  and ACLs write before they ask for a resync are abstracted to the resync. The status that
  CM sends is lost when the socket is closed, and may be lost when it is open: `send` does
  not wait, and nothing repeats the message (`unreported`).
- **VifState** - `vif_state_update` is four steps (VAP, WPS, Multi-AP, write); its five
  callers are told apart by `caller`. Time is in ticks; the driver applies a
  configuration within `SettleMax` ticks.
- **VifConfig** - the handler goes through security, visibility, SSID, ACL and
  `wifi_createVAP`, with a failure possible at each. `security_key_mgmt_ovsdb_to_hal`
  is translated including what `strstr` does with an empty needle. `build` and `home_ap` are
  chosen in `ApInit` and stay. The build decides three things: multi-PSK, the version of
  `acl_apply` (HAL 3 phase 2 flushes the list and adds all of the new one, the others compare
  and edit entry by entry), and `CONFIG_RDK_SYNC_EXT_HOME_ACLS`, without which `acl_apply` and
  `acl_to_state` leave the list of a home AP alone (`SyncsAcls`). A send that fails loses its
  message.
- **StaConfig** - extends VifConfig with VAPs that are stations, whose handler makes one
  HAL call that changes anything and is one action; `vap_mode` decides which handler a
  request reaches, and `Init`, `Next` and `Spec` of both are here.
- **NeighborScan** - the callback is a state in which the Stats Manager may get, stop
  or start scans before it returns. Conversion, reduction of duplicates and the cut
  to `STATS_SCAN_MAX_RECORDS` are operators on sequences.
- **StatsDeltas** - 32-bit cuts are `% WORD`. Reconnects show as a new cookie,
  driver resets as a counter that went back, which makes the code change the old
  record; survey counters are cumulative or not, 64 or 32 bits wide.
- **DhcpLeases** - several server objects over one lease file, one watcher and one
  debounce timer. The watcher's look at the file (`WatcherPolls`), its callback and the
  parse are separate from dnsmasq's `WriteFile`, so that the file may be rewritten or gone
  in between. `told` is what the last status callback of an object was given; a lease is
  its client and a time that stands for the rest of the line. A later line about a client
  that has a lease already is skipped (`dhcp_server_lease_add`, `LeasesIn`).
- **Pl2rl** - the library's `pl2rl_send` is one action per try, the daemon's
  `pl2rld_client_recv` one per read (`RecvHeader`, `RecvRest`). A message is
  `HDR + BODY` units of a byte stream; a unit carries the type and the place it has in its
  message, so that the model knows when the daemon took the end of one for the beginning
  of another. A header that is read out of step may be refused or hold any length.
- **Connector** - one action per CCSP call, each of which may fail; `job` is the place in the
  function that makes the next one, `updates` what OVSDB still has to report to XM.
  `skew` and `lanSkew` are histories of what the web page or a failing call put out of step.
  OVSDB's column `dhcpd` is two fields: the range of addresses, which
  `set_dhcp_configuration` writes, and the options (lease time, routers, name servers),
  which `get_dhcp_configuration` converts at the start (`AsOptions`) and nothing writes back.
- **Services** - extends the three above and the two of `stats.c`; a behaviour is one of a
  `service` that is chosen at the start. Since they share neither state nor messages, a
  behaviour of all of them is an interleaving of such behaviours, and a property about the
  state of one holds of it if and only if it holds of that one alone. The fairness of the
  services is stated there.
- **BsalGroup** - the array of interfaces of `bsal.c`, its search functions, and the list
  made of it. An entry holds a band and a configuration, or what `calloc` left, or what a
  copy from the wrong address put there (`Pointer`).
- **BsalSteering**, **BsalNeighbors**, **Bsal** - the manager's loop and the HAL's
  thread (`TakeEvent`, `DeliverEvent`: `process_event` tests the callback, works,
  and calls it). In the neighbor tree an entry whose key points to a variable on
  the stack is `key_intact = FALSE`, and a search may then find anything.

## 3. The runs

State counts are distinct states; a refinement with its liveness is in both
columns.

| Run | Bounds | States | Safety | Liveness |
|---|---|---|---|---|
| `hal_queue` | 3 HAL threads, 2 payloads, queue of 3 | 6 253 | TypeOK, NoLostWakeup, ImplementsBox | ImplementsBox |
| `clients` | 2 stations, 2 VAPs, 2 key ids, queue 2, 2 events under way, 3 changes, 1 failure | 533 518 | TypeOK, ReportsMatchTree, AccurateWhenQuiet | EventuallyAccurate |
| `radio` | 2 radios, 2 channels, queue 2, delay 2, 3 changes (events, at most 1 request), 1 failure | 676 596 | OngoingMeansScheduled, ChannelsFollow, ImplementsBox | EventuallyShown |
| `mesh_sync` | WM and CM, 2 messages per socket, 2 changes, 1 outage, 1 failure | 110 904 | ConnectedOrTrying, ModeFollowsMesh, NoSilentChange | EventuallyConnected |
| `vif_state` | 1 VAP, delay 2, settling 1, queue 2, 1 event, 2 requests, 1 failure | 192 912 | ConfShownWhenQuiet, PbcEndIsNoticed | EventuallyShown |
| `vif_config` | 3 of some 20 requests, 1 failure, 3 builds, home AP, other AP or station | 3 319 329 | TypeOK, RequestApplied, MeshKnowsDriver, AdoptionIsStable, AclKeepsCommon, StationFollowsRequest | |
| `services` | see below | 316 198 | ServicesTypeOK, CurrentWhenQuiet, MessagesIntact, InSyncWhenQuiet, TimerServesScan, TrafficAccounted, PercentCorrect, ReportComplete | LeasesEventuallyCurrent, LogHeardAgain, EventuallyAnswered |
| `bsal` | 3 interfaces (one of a third band), 1 station, 1 event under way, 2 neighbor interfaces, 2 BSSIDs | 494 348 | TypeOK, GroupFollowsManager, CallbackIsThere, InfoFollowsStation, NeighborsAgree | |
| `vif_sta_queue`, `radio_two`, `vif_config_dpp`, `bsal_group` | as `hal_queue`, 2 radios, requests with `dpp`, 3 radios | - | see section 5 | |

The services and their bounds:

| Service | Bounds | Properties |
|---|---|---|
| leases | 2 server objects, 3 created in all, 2 changes of the file, 4 contents (none, empty, one lease, a list with garbage and a double), 1 failing parse | CurrentWhenQuiet, LeasesEventuallyCurrent |
| log | 1 process, 2 connections, messages of 2 + 1 units, a socket of 3, 3 tries, 2 troubles, 1 stop of the daemon | MessagesIntact, LogHeardAgain |
| connector | 2 rules, 2 LAN settings, 2 values of the options whose lease times are one in hours, 3 events (changes by the web page or the cloud, failing calls, crashes) | InSyncWhenQuiet |
| scan | 3 scans, time-out 3, 3 records, 5 tables, 1 failure | TimerServesScan, ReportComplete, EventuallyAnswered |
| client, survey | words of 300, amounts 1 and 301, survey start 298, 3 changes | TrafficAccounted, PercentCorrect |

What the runs show is in the "about" line of each in `PROJECT.json`, what a
property says in the comment before it.

### Why the bounds are enough

- Queues of 2 or 3 with as many events under way are the smallest that overflow,
  hold two events of one object in either order, and let one overtake a snapshot.
- Three threads: one can be refused, one be between append and send, and one hold
  the mutex while the loop drains.
- Two VAPs are what a roaming station needs, and a second station lets one
  station's events sit between another's. The proofs of Clients need no such bound.
- Three requests for a VIF cover set, change, and change back (open, close, open);
  each request differs from the others in one group of fields, so pairs of groups
  are covered by the sequences. The ACLs overlap in one address.
- Three builds of a VIF (`MCBuilds`): the default; multi-PSK with the lists of home APs
  synchronized; multi-PSK and HAL 3 phase 2. Each option is on in one and off in another.
  Whether an AP is a home AP is only looked at where lists are not synchronized, and the
  owner's list of one is a blacklist with one entry, which the requests name or not. The
  proofs are for every combination and every list.
- Two requests for a VAP are one that starts the timer and one that forces it; a
  third would find what the second found.
- One failure per run: failures are passed over independently; a second one
  would be in a state the first one's absence reaches as well. Where failures matter
  more (Bsal), they are not bounded at all.
- Words of 300 leave room for a percentage (times 100) of small times, and put the
  wrap a few steps from the start; an amount of 301 does not fit a word.
- Log messages of 2 + 1 units are the shortest whose header can be cut and whose rest can
  be missing. A socket that holds one message is full after it, and two connections let
  a new one be opened while the daemon still has the old one.
- The connector starts with one rule at most (`MCInit`); three events are a change, what
  interferes with it, and a crash or a failing call after which both are made good.
- Two changes of the lease file are one that the watcher saw and one that it did not
  see before the parse; two servers are the first, which gets the leases, and another.
- `bsal`: the parts share only the restart, so `OnePartAtATime` leaves out states in
  which both are in use. Every state of either part is still reached.
- `radio`: two radios whose events meet in one batch; a third event finds the queue full or
  comes while the batch is handled. Events and requests share one budget: three events, or
  two and a request between or after them. That the other radio's event of a batch has no
  effect is the second finding of section 5; the property excepts exactly that.

`CHECK_DEADLOCK FALSE` is set in `mesh_sync`, `services` and the two VIF
configuration runs: their environments may use up their budgets, and a manager
that is connected, or has handled its last request, has nothing left to do.

### Fairness, and why the code justifies it

- Steps of a callback that was entered: weak fairness. It is straight-line code.
- Timers (`Tick`, the poll timer, the repeating connect timer): weak fairness;
  libev fires them.
- Starting a callback on a shared loop (`AsyncCopy`, `AsyncBegin`, `ResyncBegin`,
  `vif_state_update_task`, `LoopLock`, ...): strong fairness. The loop is busy again
  and again, so the start is not continuously enabled; but libev invokes every
  pending watcher in each iteration and none is skipped for ever. For the mutex the
  reason is that the holders only append or drain.
- Delivery of events the HAL raised: fair; the queue may still drop them.
- The health check is strongly fair: it restarts its own timer each time.
- The managers are started again by OpenSync's process manager (`Start` is fair);
  the Mesh-Agent owes nothing, so `EventuallyConnected` is conditional on it
  staying up. The driver need not ever finish a scan, nor raise any event.
- Services: the Network Manager's loop runs the debounce timer, libev's poll of the file and
  the callback (weak fairness). Time passes for a process that logs, and it goes on
  logging: `pl2rl_log` is strongly fair, because it can be called only between two sends.
  The daemon is started again by its init script, accepts every connection and reads
  every one that has data; `RecvHeader` is strongly fair because a daemon that is in the
  middle of one message does not look at other connections.
  XM owes nothing: `InSyncWhenQuiet` speaks of the moments when it has nothing to do.

## 4. The proofs

Every invariant and every action property (`AclKeepsCommon`, `ReportComplete`) that a
passing run checks is a theorem. `ImplementsBox` is one for `Radio`, whose box has no
fairness; `BoxImplemented` of `HalEventQueue_proofs` is its safety there.
`ResyncNeverPostponed` is an action property that is only proved; `CounterCorrect` and
`BatchBounded` are the bounds the invariants rest on. The types of `Radio`, `MeshSync` and
`VifState` are theorems (`TypeCorrect`) and no properties of the runs. Each inductive
invariant is a conjunction of parts that are proved one after the other, each relative to
the types and to the parts before it.

| Module | Theorems |
|---|---|
| `HalEventQueue_proofs` | `TypeCorrect`, `CounterCorrect`, `WakeupNeverLost`, `BoxImplemented` |
| `Clients_proofs` | `TypeCorrect`, `ReportsCorrect`, `TrackingAlwaysAccurate` |
| `Radio_proofs` | `TypeCorrect`, `BatchBounded`, `ResyncScheduled`, `ResyncNeverPostponed`, `ChannelsAlwaysFollow`, `BoxImplemented` |
| `MeshSync_proofs` | `TypeCorrect`, `AlwaysConnectedOrTrying`, `ModeAlwaysFollows`, `ChangesNeverSilent` |
| `VifState_proofs` | `TypeCorrect`, `ConfAlwaysShown`, `PbcEndAlwaysNoticed` |
| `StaConfig_proofs` | `TypeCorrect`, `RequestAlwaysApplied`, `MeshAlwaysKnows`, `AdoptionAlwaysStable`, `StationAlwaysFollows`, `AclAlwaysKeepsCommon` |
| `Bsal_proofs` | `TypeCorrect`, `GroupAlwaysFollows`, `CallbackAlwaysThere`, `InfoAlwaysFollows`, `NeighborsAlwaysAgree` |
| `Services_proofs` | `ServicesTypesAlwaysOK`, `AlwaysCurrentWhenQuiet`, `ReportAlwaysComplete`, `TimerAlwaysServes`, `TrafficAlwaysAccounted`, `PercentAlwaysCorrect`, `MessagesAlwaysIntact`, `AlwaysInSync` |

**HalEventQueue_proofs** - for every set of threads, payloads and queue size.
`BoxImplemented` is `Spec => Abstract!Spec`; the box's fairness stays with TLC. The guards alone do not keep
`hal_cb_queue_len` at or above zero: the loop decrements it because the *list* is not
empty. The inductive invariant is therefore

    QInv == TypeOK /\ CounterMatchesList /\ CarriesEvent /\ QuietUntilRegistered

where `CarriesEvent` says that a thread between lock and append has an event (or the
list's type would be lost) and `QuietUntilRegistered` that `HalInit` empties an empty
queue. `NoLostWakeup` is inductive relative to `QInv`: an append leaves the thread in
a place from where it will check; a check that does not send found the flag set;
clearing the flag leaves the loop on its way to the drain; the drain ends with an
empty list.
Assumptions: the maximum is at least 1, and the thread names, `Loop`, `NoOne` and
`NoEvent` are distinct.

**Clients_proofs** - for every number of stations, VAPs and keys, every queue size.
For `ReportsCorrect` the invariant is local to a station: a view is *consistent* if its
reports are those of its tree entry,

    CInv == RestTypeOK /\ IsFunctions /\ ViewsGood

and each handler takes consistent views to consistent views **whatever event it is
given** (`ConnectGood`, `DropGood`, `ClearGood`, `FetchGood`). The order of events,
drops and snapshots therefore does not matter, which is why the theorem needs no
assumption about them. For `TrackingAlwaysAccurate` the order matters. `AccurateInv` says
of the sequence of events under way, those in the queue and then those the HAL has yet
to report, that it is `Sound` for each station: wherever the station connects it also
leaves later, unless it is there now; it leaves where it is tracked, unless it is there
now; and where it is now it either will connect, and nothing after that moves it, or is
tracked already, and nothing at all moves it. A snapshot changes where the station is
tracked and no event; a callback moves an event from one sequence to the other and
changes nothing. With multi-PSK a connection that was overtaken is skipped, and the
second part is what makes this harmless. Assumptions: at least one VAP, the empty key id
is no key id of a VIF, and the initial one is.

**Radio_proofs** - for any number of radios and channels, any queue size and delay.

    RInv == TypeOK /\ QueueFits /\ BatchFits /\ OngoingMeansScheduled /\ TimerOffInPass

`OngoingMeansScheduled` is not inductive alone: the end of a pass clears the flag,
which is only right if no timer is running; a timer is only started while the flag
is clear, so none runs in a pass (`TimerOffInPass`). `BatchFits` needs `QueueFits`,
because the copying loop in the code checks nothing.

    FollowInv == batch empty outside async /\ flag set iff a reader is known
                 /\ \A r \in Radios : RadioFollows(r)

`ChannelsFollow` is not inductive: an event in the batch may be about to be skipped. In
`RadioFollows` an event of the batch counts only if its radio will be read for it, or marked
as overlooked, when its turn comes (`Due`): it is a radar event, or the batch's first change
of channel is still to come, or was another radio's. An event of the radio that *was* read is
not due: the read came after the driver's change, because an event is raised with the
change and a later change raises a later event. `BoxImplemented` is proved step by step: the
copy moves the queue into an empty batch, which leaves `cbe \o hal_cb_queue` alone and
needs the first part of `FollowInv`; `QueueFits` and `BatchFits` give the size of the box.

**MeshSync_proofs** - for any sockets, outages, failures and messages.
`ConnectedOrTrying` needs, per manager, what the places between socket and connect have
(`ConnOK`): a manager that does not run has neither socket nor timer, one that is
connecting has both, and a socket that is not there has no messages. `ModeInv` gives
`ModeFollowsMesh`: of the state messages in CM's socket *the last one* tells the mesh state,
and without one the mode is the mesh state already; it needs `ConnInv`, or a message
could wait in a socket that the next connection takes over. `SeenInv` says that a change
WM has not seen is in its socket as a message that asks for a resync, or was lost with a
connection. Assumptions: the bounds are numbers.

**VifState_proofs** - for any number of VAPs, delays, queue sizes, requests and events.

    ConfInv == ForcedInv /\ \A v \in Vaps : Waited(v) /\ Followed(v)

`Waited`: while the driver has not applied a configuration, the VAP's timer runs for longer
than the driver still needs, or the update that will start it anew is under way. `Followed`:
when neither timer nor such an update is there, the row agrees with the driver or the
update has read, of what it has read so far, what the driver still has. Without `Waited` the
expiring timer would read too early; without the exception for the forced update the second
of two requests would break it. `PbcInv`: the end of a session that OpenSync sees, or an
update is about to show, is in the queue or on its way there (`Coming`); it is proved over
the concatenation of the two sequences, since a callback moves events between them.
`DelayAssumption` is needed: the driver settles before the delay is over, which is what the
delay in `vif.c` is for.

**StaConfig_proofs** - for any requests, keys, access lists and credentials, in every build
and for any list of a home AP's owner.

    ApInv == AppliedInv /\ TodoApart /\ BuildInv
    AppliedInv == ~failed => SecurityInv /\ FieldsInv /\ TriggerInv /\ AclInv /\ MeshInv

The handler is a sequence of steps; each part says of a group of fields that the handler's
copy (`Copy`: `vap_info` during a request, the driver's between two) has what was asked for,
or that the step which will set it is still to come *and the field is among the changed
ones*. `TriggerInv` is what makes leaving out `wifi_createVAP` right: without
`trigger_reconfig` the copy is what the driver has. `TodoApart` holds whatever failed, and
is why `AclKeepsCommon` needs no excuse for failures; the one step it excepts is the flush of
HAL 3 phase 2 (`Flushing`). After it, as after the removals of the other version, what the
driver has and what is still to be added (`todo`) make the new list. For the list of a home AP that is not
synchronized `AclInv` says nothing, because the handler does not look at it, and
`AclKeepsCommon` that no step takes anything off it. `AdoptionIsStable` is about the conversions alone:
the modes are enumerated. `BuildInv` keeps several keys away from the build that has only
one. Assumptions: requests are rows of `Wifi_VIF_Config` as OpenSync writes them - an open
network has no key management and no keys, and only an enterprise network may do without
keys otherwise (`VifConf`); stations' `Unset` is no value of a column.
The proofs changed the model here: `VifConf` had excluded an enterprise network without
keys, and `RequestApplied` compared the keys of every protected network, where the code
reads none back for an enterprise network. `vif_config` now has such a request.

**Bsal_proofs** - for any interfaces, stations, events and neighbors.
`GroupFollowsManager` is inductive with the types. `ThreadInv` says for `CallbackIsThere`
that a thread inside `process_event` means that the callback is set, and that cleanup
clears it only after unregistering, which waits for the thread. `InfoInv` describes the
*last* event that is under way: if the station is there and that event is an association,
it is the last one, with its capabilities; if the station is gone, it is none; and when no
event is under way the information is current, or excused. `NeighborsInv` speaks of the tree,
where the property speaks of the HAL's lists: one entry per interface and BSSID, and each
entry's report has the entry's BSSID (`OwnBssid`), so that a list made of the tree has each
BSSID once.
`UnsetAssumption` and `NoneAssumption` say that the models' values for "nothing" are not
interfaces, events or entries.

**Services_proofs** - for every service and any sizes. A step of `Next` is a step of
one service and leaves the others' variables alone (`StepOfOne`), so that each invariant is
proved on the steps of its own service.

The parse of the lease file and the report of a scan are folds over sequences. The library's
induction takes an operator, which the provers cannot instantiate; here induction is over a
*set* of numbers (`UpTo`, from `LeastOf`, from the library's well-foundedness of `<`), and a
community fold is unfolded along it: `FoldExists` builds the function that the definition of
`MapThenFoldSet` chooses, and `Folding` says what it is at each place.

- `DhcpInv`: leases are at the first server object only, an object was told what it has
  (`CachesInv`), and while nothing is due and the last parse did not fail, the first
  object has what a parse of the file gives (`FileInv`). `LeasesIn` gives each client once
  whatever the file, by induction over its lines.
- `ScanTypesInv`: results of a scan that succeeded are whole. What the two loops of
  `stats_scan_extract_neighbors_from_ssids` compute from them is an invariant of the fold:
  after *n* entries, each of the first *n* on a scanned channel has its key in the result,
  nothing else has, and no key is there twice.
- `ScanInv`: `timer` means that exactly the last request is pending, and that polls made
  and time left sum up to the whole time.
- `TrafficInv` has one line per counter (`CounterOK`): what was reported and is still to be
  reported is at most what was carried, where the difference to report is the
  driver's whole counter if that went back. The cut to 32 bits only takes away (`WordDelta`).
- `SurveyInv` relates a reading to the counters: the old reading is the counter at that time,
  cut to its width, so that the difference of two cut counters is the difference itself if that
  fits (`CutDifference`).
- `LogInv`: in a connection that was not torn the stream is a run of consecutive parts of one
  message after the other (`Runs`, `Joined`); it starts where the daemon goes on reading
  (`StartOK`), it ends where the sender goes on sending (`EndOK`), a rest that is still to be
  sent is of the message whose header was read (`EmptyOK`), and the first message of a
  connection is the registration (`FirstOK`). No two processes share a connection
  (`Owners`). Assumption: sizes are positive and a message fits the socket.
- `SyncInv`: the updates that wait for XM and are about one rule alternate between addition and
  deletion and lead from what the RDK has to what OVSDB has (`RuleOK`); a rule counts as the
  RDK's as soon as the job that writes it is under way (`Added`). The rest is what a job relies
  on in between: row numbers are unique (`TableInv`), the row to be filled or deleted still is
  that row (`RowInv`), an empty row is the one to be filled (`EmptyInv`), and a table that
  was cleaned at the start is clean (`CleanInv`). `LanInv` says the same of the
  settings that are written (`Pushed`).
  `ConnectorAssumption` says that the set of rules is finite; at the start all are replayed
  in some order, which would not exist otherwise.
- `LogMore`, `SyncMore` and `DeltasMore` add to these what only the types need, such as the
  limits on retries and positions, table rows that are numbered, and times and
  percentages within the counters' words.

Beyond the prover and left to TLC:

- all liveness, fairness and `ENABLED`: `EventuallyAccurate`, `EventuallyShown`,
  `EventuallyConnected`, `LeasesEventuallyCurrent`, `LogHeardAgain`, `EventuallyAnswered` and the
  liveness of `HalEventQueue`'s `ImplementsBox`.

No module declares a `RECURSIVE` operator, which the prover's SMT backend does not take.

## 5. Where the code disagrees with its own comments

1. **`vif.c:1332`** (`vif_sta_queue`, `EntriesAreHandled`). `sta_hal_init` initializes
   the async watcher but neither starts it nor stores the loop pointer, so that
   `vif_sta_update_async_cb` never runs; entries are queued until the queue is full. The
   comments at 1319 and 1331 describe a watcher that is started.
2. **`radio.c:905`** (`radio_two`, `ChannelsShown`). Of the CHANNELS_CHANGED events in
   one batch only the first updates a radio's state, also when the others are about
   other radios. The comment at 907 says that the channel map is read once, *after
   the last event*. The next resync repairs the row.
3. **`vif.c:813`** (`vif_config_dpp`, `UnsupportedNotHandled`). Key management is matched
   by `strstr`, and "none" is the empty string, which matches every request: one with
   only `dpp` decodes to an open network, where the comment at 822 says that
   only combinations the HAL can express are handled.
4. **`bsal.c:523`** (`bsal_group`, `IfacesAddedToGroup`). `group_add_iface` copies into the entry
  from the address of its parameter, which is a pointer already, so that the entry holds part
  of the stack; and `create_wifihal_ap_config_list` (606) copies every entry to the start of the
  list. The log messages at 765 and 769 say that the addition is postponed "until all
  radios are set" and that interfaces were "added to group"; the HAL's list does not hold
  them. `bsal_legacy.c`, the default build, does neither.

The models also show behaviour that may surprise and that no text of the repository
contradicts: the failing `setGroup` that leaves a slot taken
(`bsal_legacy.c:639`), the removal of a neighbor that, undone, leaves the tree with a
pointer to a stack variable, the time of a radar event taken from the first entry of
the batch (`radio.c:923`), a WPS mode that is never disabled (`wps.c:284`), a station that
keeps the BSSID of a parent that is not named any more (`vif.c:1755`), a netmask that
is not pushed when it changes without its address (`connector_main.c:123`), a lease time
and DHCP options whose change pushes the range of addresses instead (`connector_dm.c:151`), an
access control list that HAL 3 phase 2 flushes before it is added again, so that a station that
stays on it is off it for a while (`vif.c:586`), leases that are lost until the file changes when the first DHCP server is deleted (`osn_dhcps.c:152`) or
withdrawn when the file cannot be locked (`osn_dhcps.c:529`), a log connection
that is kept after half a message (`pl2rl.c:109`), a reconnection that waits for as long
as the wall clock was set back (`pl2rl.c:134`), and the comparison of an array with
NULL that lets events of unknown interfaces pass in `bsal.c`. Where a property
excepts one of these, the comment before it says so.

## 6. Not modelled, and what comes next

Not modelled within modelled components:

- the rows that the library writes on behalf of the Mesh-Agent
  (`vif_external_ssid_update`, `vif_external_security_update`, `vif_external_acl_update`): VifConfig has
  the conversion, but whether the two owners of the configuration end up in agreement
  depends on what WM compares a row with before it calls again, and WM is not in this
  repository;
- the registration order of `target_radio_config_init2`; multicast-to-unicast and RADIUS
  credentials, which are copied;
- RSSI, rates and histograms in the statistics;
- `CONFIG_RDK_DISABLE_SYNC`, with which no message is sent to the Mesh-Agent; what the
  owner of a home AP's list does to it while requests are handled; a value of
  `ssid_broadcast` that is neither `enabled` nor `disabled`, which would end the handler
  (`vif.c:1916`) and which no row has;
- client configuration, BTM and beacon requests (one HAL call each) and the parsing of
  association frames in Bsal; `mgmt_frame_cb` (`bsal_legacy.c:503`), an option that is off by
  default: it calls the callback without a test and is never unregistered, so that
  `CallbackIsThere`, which is about `process_event`, would not hold of it; in `bsal.c` all but the group, because it repeats
  `bsal_legacy.c`;
- allocation failures anywhere (the code aborts).

External code - HAL, libev, Mesh-Agent, data model, dnsmasq, managers - is modelled from
how this code uses it. Three assumptions about it matter: `wifi_steering_eventUnregister`
returns after a running callback has, the Stats Manager does not start a scan
while another one is pending, and dnsmasq and the library lock the lease file, so that
it is read whole.

Not modelled at all: the logger backend, unit information, `dmcli` and the diagnostics hook,
which keep no state; MAC learning, a build override; test tools, build files and data.

What could come next:

1. The parts of band steering that `Bsal` leaves out; each is one HAL call, and the
   properties would be about the parsing of association frames.
2. The loop of WM and this library over the rows of the Mesh-Agent, when WM's source is at
   hand: that both owners of a configuration end up in agreement.
3. `Clients` and `VifState` take `Accept` and `Deliver` of `AbstractEventQueue` as their queue,
   and `HalEventQueue` implements it. A composition of the six steps of the callback with
   their handlers in one module would say the same of the queue inside the component; it
   would be checked rather than proved, for the wake-ups are liveness.
