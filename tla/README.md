# Amon in TLA+

Amon is a monitoring system for a SmartOS data centre. Probes run in agents on
the machines and on the compute nodes. An event of a probe goes from the agent to
the relay on its compute node and from there to the master, which keeps alarms
and maintenance windows in redis and tells people about them. The configuration
of the probes goes the other way: from UFDS (an LDAP directory) through the
master and the relays to the agents.

This directory holds TLA+ models of the parts of Amon where order, failure and
interleaving matter, the TLC configurations that check them, and proofs for TLAPS.
`PROJECT.json` lists the runs, ties every definition to the lines it stands for,
and names the hazards each property is for.

    tlc -config AlarmsRace.cfg MCAlarms        # one run
    tlapm AlarmsProofs.tla                     # the proofs of a module

## Inventory

| Component | Where | State | Operations | What is hard | What makes it correct |
| --- | --- | --- | --- | --- | --- |
| Alarm store, events, alarms API | `master/lib/alarms.js`, `app.js`, `events.js` | redis: counter `alarmIds`, set `alarms:USER`, hashes `alarm:`, `faults:`, `maintFaults:`; the locals of every handler between two redis replies | `POST /events` (processEvent, getOrCreateAlarm, handleEvent), get, close, reopen, suppress, unsuppress, delete | handlers interleave at every redis reply; nothing is locked; a failed command may have been done | ids are unique, what was deleted stays deleted, faults land on their own alarm, an emptied alarm is closed, a fault in maintenance is silent, a change is announced |
| Maintenance windows and reaper | `master/lib/maintenances.js`, `master/main.js` | redis: `maintenanceIds`, `maintenances:USER`, `maintenancesByEnd`, hashes; `expiryTimeout` and Node's timers | create, delete, get, list, list all, isEventInMaintenance, scheduleNextMaintenanceExpiry | one timeout in memory for a queue in redis; a lost connection; a restart; a limit of setTimeout | a window is in force from its start to its end, then goes |
| UFDS models and caches | `master/lib/ufdsmodel.js`, `probes.js`, `probegroups.js`, `agentprobes.js`, `app.js` | UFDS entries; caches with and without an expiry in each master | create, put, get, list, delete of probes and groups; AgentProbes HEAD and GET; authorizeWrite | a read fills a cache after a write has emptied it; a chain of calls that each may fail | a cached entry is what UFDS has; nothing is written that was not checked |
| Relay: probe synchronisation | `relay/main.js`, `relay/lib/app.js`, `agentprobes.js`, `adminapp.js`, `utils.js` | three files per agent, their backups, two caches per App | poll the master (HEAD, GET), write the files, serve the agents, syncprobes | an md5 and data of two calls, three files for one value, two writers, crashes, a cache over many agents' files | the files converge to the master's probes, and "no change" is only said of right files |
| Relay: zone apps | `relay/main.js`, `relay/lib/app.js`, `zoneeventwatcher.js` | one App and zsock per zone | add, replace, remove, on a five-minute poll and on zone events | starts of minutes overlap closes; an open zsock blocks a halting zone | a zone that runs is served, one that halts goes down |
| Event delivery | `agent/lib/app.js`, `relay/lib/events.js`, `common/lib/relay-client.js`, `master/lib/events.js` | events in flight | send, forward, retry | loss, duplication, retries inside retries | what the agent takes for delivered was processed; a send ends |
| Agent: probe update | `agent/lib/app.js`, `zoneeventwatcher.js` | probe instances, the list and its md5 in memory and in two files, the zone watcher | poll the relay, save, stop and start probes | overlapping polls, answers out of order, a crash between two files | the instances converge to the relay's list, each probe has one |
| Probe plugins | `plugins/lib/*.js` | timers, child processes, counters | start, stop, check, reset of the counter | stop during an asynchronous start, late answers | nothing begins after stop; a failing target is told of |
| Contacts, notification plugins | `master/lib/contact.js`, `notifications/*` | none | resolve, send | formatting and outgoing I/O | not modelled |
| Errors, audit logging, constants | `*/lib/errors.js`, `audit.js`, `constants.js` | none | | | not modelled |
| Tools, boot scripts, manifests | `bin`, `boot`, `tools`, `smf` | none | | | not modelled |

Interactions: `App.processEvent` reads users, probes and groups from the UFDS
models, then works on the alarm store; `Alarm.handleEvent` calls
`isEventInMaintenance`; `deleteMaintenance` calls `App.handleMaintenanceEnd`, which is
a TODO in the code; the relay polls the master's AgentProbes endpoints and forwards
events; the agent polls the relay's App and posts events to it; `updateProbes` starts and
stops plugins, whose events go to `sendEvent`. Master, relay and agent are
single-threaded Node processes, so the unit of interleaving is a callback, never a
statement.

Each interface between two modules is one step on either side: processing an event is one
step of `EventDelivery` and the subject of `Alarms`; the master's answer to a HEAD or GET is
one step of `RelaySync` and the subject of `Directory`; the relay's list is a variable of
`Agent` and what `RelaySync` makes converge; an instance started by `Agent` is a `Plugins`;
the maintenance check is a free answer in `Alarms` and the subject of `Maintenances`.

## Modules

| Module | Is |
| --- | --- |
| `Alarms` | the alarm store of one user and every handler that touches it |
| `AlarmBook` | what the store promises: an event is bound to an open alarm and acts on it once; only an emptied alarm is closed by an event; a removed one never returns |
| `Maintenances` | the windows, the check for an event, the reaper, redis failures, restarts |
| `Directory` | probes and groups in UFDS, their API, authorization, the caches of a master |
| `RelaySync` | the relay's copy of the agents' probes: files, backups, caches |
| `ZoneApps` | the relay's Apps and the zones they serve |
| `EventDelivery` | an event's way from agent to master |
| `Agent` | the agent's copy of its probes and their instances |
| `Plugins` | one probe instance and its target |
| `AlarmsProofs`, `MaintenancesProofs`, `DirectoryProofs`, `RelaySyncProofs`, `ZoneAppsProofs`, `EventDeliveryProofs`, `AgentProofs`, `PluginsProofs` | the theorems about those modules and their proofs |
| `MCAlarms`, `MCMaintenances`, `MCDirectory`, `MCRelaySync`, `MCZoneApps`, `MCEventDelivery`, `MCAgent`, `MCPlugins` | their instances for TLC |

In every module a bound on requests, time, changes or failures is a CONSTANT that stands in a
guard, and its comment begins with "bound:". History variables are marked `history:`; no step
depends on one, but for `Agent.mixed`; they let a property name the cases it excepts.

### Alarms

Master state is one Node process, so a handler is a chain of callbacks. One action is
one redis command, or one MULTI/EXEC, with the code that leads to it.

| Action | Code |
| --- | --- |
| `Receive` | processEvent up to the age check (EVENT_DROP_SKEW_MS) |
| `Lookup` | getUser, getProbe, getProbeGroup; the branch on `groupEvents` |
| `ListAlarms` | Alarm.filter, SMEMBERS |
| `GetAlarmsNotFound`, `GetAlarmsRelated`, `GetAlarmsUnrelated` | Alarm.filter, the Alarm.gets (pipelined on one connection, hence one step), chooseRelatedAlarm, and the three ways on |
| `IncrId`, `SaveAlarm` | createAlarm, HINCRBY and MULTI |
| `CheckMaint` | isEventInMaintenance, with either answer |
| `Update` | handleEvent's MULTI: count, stamp, move the fault, count |
| `Settle` | its callback: close an emptied alarm, notify |
| `CommandFails`, `IncrReplyLost`, `SaveReplyLost`, `UpdateFails`, `CloseFails` | an error in place of a reply, with the command done or not |
| `BeginRequest`, `SetAlarm`, `DeleteAlarm`, `RequestFails` | the alarms API |

The fields kept are those that decide anything: whether the hash is whole, whom
the alarm is for, `closed`, `suppressed`, `timeLastEvent`. A hash that HSET brings back
after a deletion is "partial": the constructor rejects it. Faults are named by
their probe, as idFromFault does. Left out: `numEvents`, `timeOpened`,
`timeClosed`, the choice of contacts, the text of notifications. Redis keys hold the user, so
users do not interact and there is one.

The order in which redis runs commands of different handlers is free in the model. On
the one connection of the code it is the order of sending; every order the code can
produce is among those of the model.

### Maintenances

Here the order on the connection matters (a timeout is cleared when a query is sent
and set when it is answered), so the model has the queue of commands itself.
A command runs when it is answered, which nothing can tell from running it earlier:
redis is reached through this queue only. `fate` says what becomes of a command:
answered, run with its answer lost, not run, or left behind by a master that died.
`timers` are Node's timers; `tracked` is the variable `expiryTimeout`. A timer that
another answer replaced without clearing stays in `timers` and fires.

| Action | Code |
| --- | --- |
| `Begin` | a request or a check arrives |
| `IncrReply`, `StoreReply` | createMaintenance |
| `GetReply`, `ExpungeReply`, `CurrReply`, `RemoveReply` | Maintenance.get, its deletion of a missing window, the 404 or 410 of reqGetMaintenanceWindow, deleteMaintenance |
| `ListReply`, `FetchReply` | listMaintenances, apiListAllMaintenanceWindows, isEventInMaintenance |
| `HeadReply`, `Expire`, `ReaperGetReply`, `ReaperExpungeReply`, `ReaperRemoveReply`, `Retry` | scheduleNextMaintenanceExpiry |
| `Refuse`, `LoseRedis`, `Connect` | RedisReconnector and node_redis |
| `Crash`, `Orphan`, `Startup` | the master dies and is started again (startMaintenanceExpiry) |

A missing hash counts as an invalid window: assert-plus 0.1.5, which the master
uses, accepts null as an object, so Maintenance.get goes on to the constructor, which
throws, and the id is deleted. Only one scope of a window is tried per window.
`MinWait`, `RetryWait` and `TimeoutMax` are MAX_REAPER_FREQ, the five minutes of
rescheduleLater and 2^31 - 1 ms, in ticks.

### Directory

A handler is a chain of calls to UFDS, CNAPI and VMAPI. A call is three steps, as
the calls of different requests are answered in any order: it is sent by the step that reaches
it, runs at the service (`RunRead`, `RunWrite`, `RunErase`), and is answered later (`Answer...`).
`pc` is the call a handler waits for; a cache that hits is no step. The operators `At...` and
`After...` are the code between two calls, each named after what it is about to need or has
just learnt, so the order of the checks is the order of the code.

| Action | Code |
| --- | --- |
| `Receive` | the route's handler as far as its first call; getUser's cache |
| `AnswerUser`, `AnswerGroup`, `AnswerServers`, `AnswerOperator`, `AnswerVm`, `AnswerMachine` | userFromReq, getGroup, the checks of Probe.authorizeWrite and the caches they fill |
| `AnswerWrite` | modelCreate, modelPut and cacheInvalidateWrite |
| `AnswerFetch`, `AnswerErase` | modelDelete and cacheInvalidateDelete |
| `AnswerGet`, `AnswerList`, `AnswerHead`, `AnswerAgentProbes` | modelGet, modelList, headAgentProbes, listAgentProbes |
| `CallFails` | an error of any call, which may have run |
| `Expire`, `DropCaches` | a cache entry's age or eviction; `POST /state?action=dropcaches` |
| `ChangeOperators`, `AddServer` | what changes behind the caches |

`Inferred` and `Valid` are what Probe.validate does with `agent` and `machine`: `agent` is filled
from `machine` and back for a type that runs locally. `Modified` is ufdsModify, which
leaves attributes that it is not given. `Keys` names cached entries and `Concerned` those that a
change of an entry makes wrong. Three kinds of entry are `tainted`: read before a write and cached
after its answer; of a write whose answer was lost; the MD5 of the agent from which a put or delete
finds a probe moved, since only the new agent's is dropped. `CachesAreCurrent` says that these are the
only ones that can be wrong.

### RelaySync

An App gives its agent the probes of the guest file, the global App also those of every zone's
host file. A version stands for the content of a file, the pair of versions for its Content-MD5,
so two lists with one md5 are equal.

| Action | Code |
| --- | --- |
| `Begin`, `NextZone`, `EndRound` | updateAgentProbes, by the poll's timer or by syncprobes; its delay between zones |
| `HeadAgentProbes`, `HeadFails`, `ListAgentProbes`, `ListFails` | the two calls to the master, of which the md5 and the data are kept |
| `Backup`, `Write`, `Clean`, `Restore` | writeAgentProbes: rename to .bak, write, unlink the .bak or rename it back; the caches |
| `StageFails`, `LooseEnds` | asyncForEach calls back at the first error and leaves the rest running (`loose`) |
| `LoadCache`, `AskDownstream`, `FillDownstream` | App.start's loadCache; getDownstreamAgentProbes, which reads files and then fills its cache |
| `CreateApp`, `RemoveApp` | zoneUp, zoneDown and updateZoneApps, as far as they concern the caches |
| `Restart` | the relay dies, with any part of the file operations done |

The operations that one asyncForEach starts are one step unless one fails or the relay dies;
then any subset is done. One assumption on time is in the model: `NextZone` waits until the operations an
error left behind are over, as the code waits 50 to 500 ms there.

Exceptions: `spoiled` agents had two writers at a time, a crash that left the files torn, went back to
probes the master had before (then a HEAD answer of the first time looks right), or had a file operation fail while
the App held the md5 of what was being written. The last takes two rounds: the poll sees the md5 of one version, the probes change, a
syncprobes writes the new version, and the poll, which was given the new version too, fails to write it again. `dirty` are caches
filled with what was read before a write, or left by an operation that failed.

### ZoneApps

A zone's own life (`CreateZone`, `Boot`, `Run`, `Halt`, `GoDown`, `Destroy`) is external; a zone that halts goes
down only when no zsock is open in it, which is what the head of zoneeventwatcher.js warns of.

| Action | Code |
| --- | --- |
| `Watch`, `HandleZoneUp`, `HandleZoneDown` | the ZoneEventWatcher, zoneUp and zoneDown |
| `SelfHeal`, `ListAllZones`, `UpdateZoneApps` | updateZoneApps, at the start and every five minutes: missing, obsolete and recycled zones. A zone that had an App before the list and lost it to a zoneDown meanwhile gets an App which the same run closes and drops again, as its name is still among the obsolete ones (`Made`); the next run gives it one that stays |
| `LoadCache`, `RetrieveOwnerAndAlias`, `WaitForMultiUser`, `OpenZsock`, `Listen`, `StartFails` | the callbacks of App.start, which look at `closed` |
| `Replace` (in them) | the App's constructor and close |
| `Exit`, `Restart` | the relay exits on an error of its list or its watcher, and SMF starts it |

`failed` zones are those whose App's start failed since they booted: it stays in `zoneApps` and nothing
starts it again. In the code an App leaves `zoneApps` when it is closed, though its start goes on; `Slots`
are the Apps that exist, and a step that needs more of them than there are is not taken.

### EventDelivery

One event, two clients: `agent` is the agent's sendEvent with its backoff, `relay` the handler of the
agent's last request with its own backoff, `requests` what is on its way to the master, named by handler and try, so an
answer to a request that nobody waits for any more reaches nobody. The master processes the event (202),
drops it as too old (422), refuses it as its user, its probe or a listed alarm is not there (4xx), or fails (5xx) with the work done or not. `Foreign` events are
those the relay drops as they are of another user: the request is not answered. `Own` are the relay's own events
for the operator, which the master refuses with a 500, as it knows no such type.

| Action | Code |
| --- | --- |
| `SendEvent`, `AgentRetries`, `AgentLoses` | sendEvent, RelayClient.sendEvents, backoff |
| `SendOperatorEvent`, `RelayRetries`, `RelayLoses`, `Ages`, `RelayExits` | the relay's addEvents and sendOperatorEvent; MAX_ELAPSED |
| `Process`, `DropOldEvent`, `RefuseEvent`, `ProcessFails`, `RefuseOperatorEvent` | the master's addEvents and processEvent |

### Agent

| Action | Code |
| --- | --- |
| `Start`, `LoadProbeDataCacheSync` | start: the two files are read, and a forced update begins |
| `Poll` | the timer, whatever is under way |
| `HeadAnswer`, `RelayAnswers`, `ReceiveProbes`, `RequestFails`, `AnswerBreaksOff` | getProbeData: MD5 and list of the relay |
| `SaveData`, `SaveMD5`, `SaveFails` | saveProbeDataCache: one file, then the other |
| `HandleProbeTodos`, `UpdateProbes`, `WatcherFor` (in these) | updateProbes, handleProbeTodo, onProbesUpdated |
| `WatcherExits`, `Exit` | the child `zoneevent`; the process |

A list is read, and instances are stopped and started, in one step: nothing in it is asynchronous. `Written` is
what a file may hold when two saves overlapped. `mixed` records that saves overlapped, failed or were cut off;
`Misled` that the md5 of the files is right and the list is not, so that no poll will fetch it. A watcher is `deaf` once its
child has exited: it stays in `App.zwatcher`, so that no other is made. `InstancesAreInHand` says that there is a watcher exactly when an instance
needs one, not that it hears anything.

### Plugins

One action per callback: the timers (`Tick`, `Check`, `ResetCounter`), the end of a ping, answer, command, df (`PingEnds`, `AnswerEnds`,
`CmdEnds`, `DfEnds`, `DfFails`, `RequestTimesOut`, `LateAnswer`), log-scan's svcs and tail (`GotPaths`, `PathsFail`, `ChunkMatches`, `TailExits`),
machine-up's zone events (`Listening`, `HandleZoneEvent`, `WatcherExits`), and `Start`, `Stop`, `Exit`. All types are in one
module since they share `Probe`: state, counter and `_fail`. What a plugin looks for in an output or a log line
is one bit (`target.ok`). Of http two more things are kept apart, as they decide where its callback goes: whether the body has the pattern of
`bodyMatch`, and whether the request is refused. `Matcher.matches` returns null when nothing matches and http.js takes its length, and a refused request
emits an "error" nobody listens for: both throw (`Throws`), and the agent exits before it counts (`AnswerThrows`, `LateAnswerThrows`) and is started anew.
Nothing limits the time of a ping, df or svcs, and an http timeout may be longer than the interval, so up to `MaxChecks` checks of a probe overlap; only
cmd waits for its command. Exceptions: `astray` probes were stopped while a command or svcs was under way, and go on;
`missed` ones had their zone change while nothing listened; a tail that is `dead` looks as if it ran; an http probe whose answers throw tells of nothing.

## Runs

| Run | Shows |
| --- | --- |
| `AlarmsRace` | Three overlapping events on two probes of a group and a single probe with `groupEvents` false, in and out of maintenance, one failure. `SaveFindsFreeKey`: no alarm is written over. `FaultsBelongToAlarm`: no fault on another's alarm. `OpenAlarmsAreTended`: no alarm stays open without a fault or a handler that will see to it. `LateFaultsOverlap`: a fault is on a closed alarm only if it came while the clear that closed it was handled. |
| `AlarmsUsers` | Two events and an API call of every kind overlap, one failure, with events late and beyond the gap. `KeepsBook`: the store implements `AlarmBook`. `OneOpenAlarm`: a probe or group gets a second open alarm only for a reason of `Passes`, or from events that overlap. `IndexedAlarmsAreWhole`, `NoRelisting`: a write to a deleted alarm brings nothing back. `FilterFailsOnlyOnDelete`: an event is refused only when an alarm it listed was deleted. `ChangeAnnounced`: every change of the real faults is announced unless the alarm was suppressed when it was read. |
| `MaintReaper` | Two calls of any kind around the reaper, windows that end within and beyond the limit of setTimeout, and a refused command, a lost connection or a crash at any point. `NextEndIsWatched`: the next end is never lost, however queries and timeouts cross. `LastsUntilEndOrDelete`: no window goes early, but one that was got by its id while it was being stored or that ends beyond the limit. `WindowSilencesEvents`: no covered event gets through. `NewWindowIsNew`: no window is written over. `WindowsExpire`: without a failure every window goes. |
| `Directory` | Two requests out of twenty, by a customer, an operator and a user UFDS does not have, on probes and a group of theirs, with a failed call and a change of operators, servers or caches. `CachesAreCurrent`: a cached entry is what UFDS has, but for the named races. `WritesWereChecked`: no unchecked probe is written, whatever the caches held. `RequestsAnswered`. |
| `RelaySync` | The poll and a syncprobes over a server and a zone while the zone's probes change, with one failed call or file operation, restart, or zone that comes or goes. `NoUpdateMeansCurrent`: when a round fetches nothing, the files are right. `CleanDownstreamIsCurrent`: what is served is what the files say. `Converges`. |
| `ZoneApps` | A zone through its states, with events, the five-minute update, Apps that start and close, and one failure. `OpenAppsAreListed`: no App is lost with its zsock. `ZonesGoDown`, `RunningZonesAreServed`. |
| `EventDelivery` | An event, one of another user and one of the relay, one retry of the agent and of the handler, two of sendOperatorEvent, four troubles. `DeliveredOnceOrTrouble`: nothing is lost that was accepted, and nothing is done twice without a trouble. `SendsEnd`. |
| `Agent` | Two updates at a time over two probes and four lists, one change, two failures. `InstancesAreInHand`: one instance of each probe, those of the cache once an update has ended, and a watcher exactly when one needs it. `SavedIsTheCache`: an agent that starts while the relay is away goes on with its last list. `Converges`. |
| `Plugins` | A probe of each type, four changes of its target, three failures. `StopIsFinal`: nothing begins after stop. `FailingTargetAlarms`: a target that goes on failing is told of again and again, unless what is found of it ends the agent. `ToldIsCurrent`: the last event tells what the target is. |

Three runs show that the code does not do what a document or a comment says:

| Run | What happens |
| --- | --- |
| `AlarmsClosedFault` | a fault that arrives while a clear closes the alarm is left on a closed alarm |
| `MaintStops` | the reaper stops for good when the redis connection is lost, or not there yet at a start |
| `PluginsBody` | an http probe with a `bodyMatch` never fires for a body without the pattern: each such answer ends the agent, and with `invert` each healthy one does |

### More of what the code does not promise

These are stated in the modules and no run checks them; each fails within seconds as described.

| Property | Fails with | What happens |
| --- | --- | --- |
| `Alarms.GroupedUnderOneAlarm` | `AlarmsClosedFault.cfg` with this invariant | two events of one group leave two open alarms, though docs/index.md:146 groups them under one |
| `Maintenances.LastsUntilEndOrDelete` without `id \in early` | `MaintReaper.cfg` | a window that ends in more than 24.8 days is deleted at once |
| `Maintenances.LastsUntilEndOrDelete` without `GotTooSoon(id)` | `MaintReaper.cfg` | asking for an id that is just being created deletes the new window |
| `Maintenances.ListAllAnswered` | `MaintReaper.cfg` with this property and `Failures = {}` | a list of all windows is never answered when one of them ends meanwhile |
| `Maintenances.OneExpiryTimeout` | `MaintReaper.cfg` with this invariant | two creations leave two timeouts, of which one is forgotten |
| `RelaySync.DataIsRestorable` | `RelaySync.cfg` with this invariant, `Syncs = {}`, `Fresh = {}` | a relay that dies while it writes takes torn files for right ones until the probes change again, though its data directory "can be restored" |
| `Agent.ZoneEventsAreHeard` | `Agent.cfg` with this invariant | a zone watcher whose child has exited stays, deaf, and machine-up probes hear nothing more |
| `EventDelivery.OperatorIsTold` | `EventDelivery.cfg` with this property | no event for the operator ever gets through |

And, read off the code where `Plugins` follows it: http compares before it counts, so it
alarms one failure later than docs/index.md:1679 says, and a request that times out and is answered later counts twice; a
threshold that needs more intervals than a `period` has never alarms (the run keeps `Period` above `Threshold` times `Interval`).

### Bounds

In `Alarms` a step depends on at most two handlers and one alarm; three
events and three ids let two handlers race while a third has left an alarm behind, and two probes of a group
let an alarm have the fault of one when the other's is cleared.
Time matters in two comparisons only (age and gap): one tick without a gap, two with.
In `Maintenances` two windows, two calls, two timers and three ticks let a
second query overtake a first, a forgotten timer fire, and a window end in between.
The clock stops at `MaxTime` and every timer is due then, so the bound on time
never keeps a timer from firing. `TimeoutMax` is two ticks and one window ends after four: its timeout is set both when the end is too far away and when it is near enough. A step that would need an id or a timer beyond the bound
is not taken; with two creations and two ids that happens to no creation.

In `Directory` every race is of a read and a write, or of two writes, so two requests that overlap suffice; each of the twenty may be
first or second, and one change or failure goes with it. In `RelaySync` two writers of one agent are the poll and one syncprobes; a zone and the
server are the smallest case where one agent's file is in another's cache; `Fresh` lets the first write, without
backups, happen as well as the later ones. `ZoneApps` has three Apps for one zone: an old one in its start, its successor, and the next. `EventDelivery`
has more troubles than tries, so that both clients' retries run out. `Agent` has two updates: a third only repeats what two do to a file. `Plugins` lets a period
end with the count below the threshold (a check in each of three intervals, two needed) and two late answers arrive; two checks
(`MaxChecks`) are the fewest that overlap.

Deadlock is not checked: requests, calls, changes and failures are used up and the system then stops. Where it goes on (the agent's poll, the relay's), the state
repeats and liveness is about that.

### Fairness

`Alarms`: a handler goes on, since redis and UFDS answer every command, if
only with an error. `Maintenances`: the oldest
command is answered, due timers fire, time passes, the reconnect loop succeeds
(it goes on until it does), the master is started again (by SMF). `Directory`: services run and answer calls, if only with an error. `RelaySync`: the poll's timer fires,
calls and file operations end. `ZoneApps`: callbacks and zone events come, the interval fires, SMF restarts the relay, a zone that boots comes
to run and one that nothing holds goes down. `EventDelivery`: backoff timers fire and the master answers; a broken connection is told by `AgentLoses` and
`RelayLoses` but needs no fairness, as the master answers what it was not lost to. `Agent`: SMF starts the agent, its
interval goes on, requests are answered and writes end. `Plugins`: timers fire, children end; late answers need not come. Failures,
changes, requests and stops are never fair.

### Mutants

For every property of a passing run `PROJECT.json` names a definition and a
plausible bug of it (`...Bug` in the modules) under which TLC finds the property violated.

## Proofs

All for any number of events, calls, probes, groups, alarms, windows, zones, requests, timers and failures. Every safety property that
a passing run checks is a theorem, and so is the refinement of `AlarmBook`. The inductive invariants stand in the proof modules, before the lemmas
that say which step keeps which part.

### Alarms (`AlarmsProofs`), from `AlarmsAssumption`

- `TypeCorrect`: `Spec => []TypeOK`, with one lemma per group of
  handlers. `TypeOK` includes that a handler that holds an alarm has its id.
- `StoreIsSound`: `Spec => []StoreInv`. That listed alarms are whole
  is not inductive: SaveAlarm could write anywhere, and an update to a deleted
  alarm leaves a partial hash. `StoreInv` adds why it does not happen: an id that is
  not stored yet is known to its creator only (`FreshIdsUnknown`), its keys are unused
  and no two creators share it (`FreshIdsUnused`), a chosen alarm was stored and is for
  the handler's probe (`AlarmIsForProbe`), an event answered "not found" had listed an
  alarm that is gone for good (`NotFoundMeansDeleted`). The proof has a lemma for what a
  read, a write, a draw, a save and a field update keep (`ReadKeeps`, `WriteKeeps`,
  `DrawKeeps`, `SaveKeeps`, `SetFieldKeeps`), and each action is one of these.
- From it: `CreateIsSafe`, `IndexIsSound`, `FaultsAreTheirs`, `LookupFailsOnDelete`, and the
  action property `DeletedForGood`.
- `MaintenanceIsSilent`: `Spec => []MaintFaultIsSilent`, proved only and in no run, as it is a matter of one handler. `Silent` says of each handler that a fault in maintenance comes to its
  callback with nothing `changed`: the counts that HLEN gives before and after are of one MULTI, so no other handler comes between.
- `OpenAlarmsAreClosed`: `Spec => []OpenAlarmsAreTended`, by `TendInv`: of every stored alarm, one without an event is in
  the hand of the handler that made it, and one that is open without a fault has a handler on its way to close it (`Tended`).
  It needs no bound on what overlaps, only that nothing failed.
- `OneAlarmIsOpen`: `Spec => []OneOpenAlarm`, whatever overlaps and fails. `Hands` says what every handler knows: it has its alarm from the end of its
  search, no alarm has two makers, and the events it found answered are. `Life` says of a stored alarm that the time on it is that of an event it got, and that
  until it got one only its maker has it in hand. `PassedOver` is the core: if the event an alarm was made for was answered when another came, that other
  one lists the alarm, and if it makes one of its own, the first is closed or there was a reason of `Passes`. A reason stays one (`PassesOn`) but while
  the alarm has had no event, and then it is its maker that did not end.
- `LateFaults`: `Spec => []LateFaultsOverlap`, by `LateFault` (each fault of an alarm a clear found empty is of an event that was not answered when the clear came) and
  `ClosedByClear` (a closed alarm has such a clear, and no event that came after that was answered was ever given the alarm). That a
  closed alarm is no candidate any more is what keeps the second.
- `StoreKeepsBook`: `Spec => KeepsBook`, without any hypothesis. The book has a hand per handler: free, bound to an alarm, closing one, over. A lookup that finds a related
  alarm is `Bind`, a save `Start`, an update `Raise` or `Clear`, the second command `CloseEmptied`; what fails is one of these, done, or `GiveUp`. `StoreInv` is needed
  to see that a save starts an alarm that was not in the book, and that a deleted one does not change.

### Maintenances (`MaintenancesProofs`), from `MaintenancesAssumption`

- `TypeCorrect`: `Spec => []TypeOK`. It includes `ArgumentsSet`, what the
  code that sent a command or set a timeout gave it: without it the type of `windows` is
  not inductive, since a store writes what its call asked for.
- `IdsAreSafe`: `Spec => []NewWindowIsNew`, by `IdsAreUsedOnce`: ids stored
  or about to be are at most the counter, and no two stores under way share one. Every
  step answers the oldest command, sends commands, or changes fates (`Fresh`), and a store is
  sent only with the id just drawn.
- `WindowsLast`: `Spec => LastsUntilEndOrDelete`, for all calls, waits and failures. The property names the two ways in which the code loses a window too soon:
  `GotTooSoon`, a request by an id that is being stored, and `early`, an end beyond setTimeout's maximum. The
  invariant `LastsInv` says that no timeout is due before the end of its window, unless that is in `early`
  (`TimersWait`), and that a command by which the reaper could remove a window is for one that has
  ended or is in `early`, a call's for the one it shall delete, or for one that it got by its id and that was missing (`CommandsAreSafe`). All speak of settled
  ids only: a window whose store is still under way could appear later with another end. The assumption
  `MinWait <= TimeoutMax` says that MAX_REAPER_FREQ, a second, is a time setTimeout can wait (maintenances.js:80).
- `NextEndStaysWatched`: `Spec => []NextEndIsWatched`, by `WatchInv`: until something fails, a command is queued whose answer sets or
  asks for the next end (`Scheduled`), or every stored window has a timeout in time (`Watched`). The step that matters is the
  answer to a query (`HeadWatch`): it sets a timeout for the first end, and that is early enough for all others.
- `WindowsSilence`: `Spec => WindowSilencesEvents`, failures included. `SilenceInv` says of each command what it tells of its call
  (`Silent`): a check that reads hashes has listed all windows it began with that are still there, and one that
  removes a missing window found no cover among them. The windows a check began with are settled (`Known`), so none can
  change or come back under the same id between the list and the read.

### Directory (`DirectoryProofs`), from `DirectoryAssumption`

- `TypeCorrect`: `Spec => []TypeOK`. `DirectoryAssumption` says that there is at least one request to make (`Asks # {}`), as a handler
  that has none yet holds an arbitrary one. The caches hold misses, absent entries and failures next to answers, so types need what
  every handler has found out by the call it waits for (`Stage`, `Told`).
- `WritesAreChecked`: `Spec => []WritesWereChecked`, by the same invariant `Inv`. A cache may be out of date, so what it tells is
  not what is so but what once was: `CacheTold` says that a group, operator or server in a cache was one at some time, and the history
  variables `past` and `was` only grow. A handler that has come to its write has passed the checks of
  Probe.authorizeWrite for the probe it writes, with answers of that kind.
- `CachesStayCurrent`: `Spec => []CachesAreCurrent`, by `CurrentInv`: what a read has found, if nobody wrote since, is what there is
  (`ReadNow`); a write that ran touches only what its answer will drop, or heads (`Wrote`); and each entry is right, tainted, or
  about to be dropped (`Clean`). Without `ReadNow` a fill could put back what a write has just dropped.

### RelaySync (`RelaySyncProofs`), from `RelaySyncAssumption`

- `TypeCorrect`: `Spec => []TypeOK`.
- `NoUpdateIsCurrent`: `Spec => []NoUpdateMeansCurrent`, by `SyncInv`. For every agent, each md5 in memory, in a file or on its way
  is one the master had (`Known`), so a change to something new differs from all of them. For every agent that is not spoiled, one updater
  at a time has its files (`OneWriter`), it writes the master's probes unless the next round will see an update (`WritesMasters`), what is
  half done or being undone will be seen as out of date (`TornIsStale`), and an App whose md5 is the master's has the master's files (`Current`).
  The case of `spoiled` where a write fails under the md5 of what it writes was found by this proof: without it
  `TornIsStale` is not kept.
- `CacheIsCurrent`: `Spec => []CleanDownstreamIsCurrent`, by `CacheInv`. A zone's cache is right or its writer is about to drop it
  (`ZoneRight`). The global App's cache spans the host files of all zones, and an updater drops it only if it wrote another host file
  than there was, so `GlobalRight` compares it with what an updater has renamed away and will put back. `ReadRight` says
  that a reader no write has passed holds what the files say.

### The others

`EventDelivery` (`EventDeliveryProofs`), from `EventDeliveryAssumption`:

- `DeliveredOnce`: `Spec => []DeliveredOnceOrTrouble`, by `DeliveryInv`, which says of every event: the times it was processed, its requests on
  their way and the sends that are to come are at most one more than the troubles so far (`PaidFor`), and what the agent takes for
  accepted was processed (`AcceptedIsDone`). Each trouble buys one more request. `Told` is the lemma of what an
  answer of the master does to the handler and to the agent behind it.

`ZoneApps` (`ZoneAppsProofs`), from `ZoneAppsAssumption`:

- `NoAppIsLost`: `Spec => []OpenAppsAreListed`. It is inductive together with its converse, that the App in
  `zoneApps` exists, is its zone's and is not closed (`ListedAppsAreOpen`): else an App could free itself while it is
  listed, and its slot go to another zone. An App that updateZoneApps makes and drops at once is closed in the step that makes it and never in `zoneApps`. `GoingOnKeeps` is a callback of start, `ReplaceKeeps` every handler that closes and makes Apps.

`Agent` (`AgentProofs`), from `AgentAssumption`:

- `InstancesInHand`: `Spec => []InstancesAreInHand`; `TodosKeep` says that one run of handleProbeTodo over all probes keeps it. It states nothing of a watcher's child: one that is
  `deaf` counts as a watcher, as it does in the code.
- `FilesAreTheCache`: `Spec => []SavedIsTheCache`, by `Saved`: until updates overlap or fail to save, only one update saves, it has the cache
  to write, and has written the list when it comes to the md5. That a torn file is never taken for a list is where
  `Torn \notin {None} \cup Lists` is used.

`Plugins` (`PluginsProofs`), from `PluginsAssumption`:

- `StoppedIsStopped`: `Spec => StopIsFinal`, by `Quiet`: a probe stopped between no two callbacks of a cmd or log-scan has no timer, child
  or zone event, so every step that begins something is disabled (`NothingDue`), and those left end what was under way (`EndsQuiet`).

Each of these four modules also proves `TypeCorrect`: `Spec => []TypeOK`.

### Only model-checked

The liveness properties: `ChangeAnnounced`, `WindowsExpire`, `RequestsAnswered`, `ZonesGoDown`, `RunningZonesAreServed`, `SendsEnd`, `FailingTargetAlarms`,
`ToldIsCurrent` and the `Converges` of `RelaySync` and `Agent`. Each rests on fairness and ENABLED, which the prover does not handle. The refinement is
proved and checked for its safety part, which is all `AlarmBook` states. The three runs that show what the code does not do have nothing to prove.

## Plan

Done, in this order: `Alarms`, `AlarmBook`, `Maintenances` and their proofs; `Directory`, `RelaySync`, `ZoneApps`, `EventDelivery`, `Agent`,
`Plugins`; the proofs of the last four; the refinement of `AlarmBook`, the remaining invariants of `Alarms` and `Maintenances`, and
the proofs of `Directory` and `RelaySync`.

What is left:

- Proofs. The safety part of what liveness needs: that no handler or updater is ever where none of its steps is possible (`RequestsAnswered`,
  `SendsEnd` and `Converges` would follow by fairness). That `NoUpdateIsCurrent` of `RelaySync` and `InstancesInHand` of `Agent` together give an
  agent whose instances are the master's probes.
- Composition. `Alarms` with `Maintenances` once the code handles the end of a window (`handleMaintenanceEnd` is a TODO): the faults
  recorded in it then become real. `RelaySync` with `Agent`: both converge, each to the next one's list.

## Not modelled

Contacts, notification plugins, audit log and errors keep no state that the rest
reads. Tools, boot scripts and manifests are deployment. UFDS, redis, restify, node_redis, zones, zoneevent, SMF
and Node's timers are external and modelled as the code uses them. Within the modelled parts: invalid entries of UFDS and the wording of
validation (`Directory`), the global zone's App, which is made once (`ZoneApps`), what a check looks for in an output (`Plugins`), the batches of
the events API, as the agent sends each event by itself (`EventDelivery`).
