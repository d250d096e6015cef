# A model of the BTicino C300X integration

The repository has three programs that share one device:

- a **native agent** (`native_agent/src`, C) on the door station's display
  unit: HTTP APIs, event callbacks, media bridge, ringer, maintenance;
- a **Home Assistant integration** (`custom_components/bticino_c300x`, Python,
  one asyncio loop) that sets the agent up, subscribes to its events and shows
  its state;
- **display pages** (`device_qml`, QML) that run in the stock GUI and talk to
  the agent, and a card for the dashboard (JavaScript).

This directory holds TLA+ modules translated from that code, the TLC
configurations that check them and proofs that TLAPS checks. It aims at what is
hard to test: threads, overlapping tasks, lost and late messages, restarts. A
module keeps the control of its source (each state change, guard, early return
and error path) and abstracts the data to what the properties distinguish.

    tlc -workers 2 -config MCAgentServices.cfg MCAgentServices
    tlapm CallbackQueueProofs.tla

`PROJECT.json` maps each definition to the lines it stands for, lists the
hazards with the properties that cover them, and gives for each property of a
passing run a mutant of the code that this property refutes.

## Inventory

### Native agent

One main thread runs `c300x_run` (`http.c`): a `poll` loop over listeners,
receive slots, parked connections, pipes and timers. Handlers never overlap
each other. Beside it there are the callback worker, the media threads, and
a thread per RTSP client.

| component | state | operations | what is hard | what makes it correct | model |
|---|---|---|---|---|---|
| callback queue `callback_queue.c` | two arrays of jobs, counter, stop flag, pipe, condition variable | submit, take, discard, close; the worker's wait, post, finish, release | worker against main loop, closing during a post, a detached thread that frees the queue | each job has one owner and ends; no lost wake-up; nothing is used after the release | `CallbackQueue`, `CallbackMailbox` |
| event dispatch `http.c`, `system_metrics_monitor.c` | the subscription and its generation, delivery status, metrics sample owed | subscribe, unsubscribe, dispatch, apply a result, heartbeat | ids come back; late results; full queue; outage | status and acknowledgment belong to the subscription they are shown for; a debt is never lost | `EventDelivery` (on `CallbackQueue`) |
| media bridge `media_bridge.c`, `media_sip.c` | one session: flags, descriptors, thread handles, RTSP slots, viewers, guard, ring and home call | PLAY, disconnect, park, resume, stop, shutdown; four worker threads | the mutex is released in set-up and joins; viewers come and go meanwhile | no socket or thread is lost, a session has somebody who stops it, stops end | `MediaSession` (on-demand session) |
| ringer control `ringer_control.c`, QML | pending command, parked GUI connection, confirmed flag, deadline | request, acknowledgment, announcement, time-out, disconnect | late or foreign acknowledgments, reload of the GUI, restart | success is true, each client gets one answer, the GUI is not locked out | `RingerControl` |
| agent update `agent_update.c` | stage directory, manifests, installed files | stage, verify, apply, restart | failure or power loss between files | the manifest is written last and is true; the update is repeated | `AgentUpdate` |
| maintenance job `command_job.c` | process, deadline, waiting client | start, tick, finish | a client that gives up while the script runs | one job at a time | in `DisplayPatch` |
| RTSP adapter `video_rtsp.c` | listener, status, queue of eight events | start, stop, status writes, event wake-up | written by media threads, read by the loop | the last status wins and is seen | status in `MediaSession`, owner in `MediaDecision` |
| HTTP slots `http_clients.c`, `http_request.c` | eight receive slots | accept, receive, expire | slots full | every slot is freed by its deadline | |
| display events `ui_events.c` | revision, topic, waiters | notify, store, expire | eviction, revisions after a restart | a change is seen by each waiter | |
| device patches `device_user.c`, `device_patch_io.c`, local actions, memos, activations, MQTT, mDNS, OpenWebNet | device files, ring of markers, a connection | edit, parse, publish | | | outcomes are choices where used |
| audio, codecs, SHA-256, JSON, configuration, libc shims | | | | | not modelled |

### Home Assistant

Everything runs on one event loop: tasks interleave only at `await`, timers and
callbacks run between. A cancelled task gets its exception at the await it is
in, whatever became of the request it waited for.

| component | state | operations | what is hard | what makes it correct | model |
|---|---|---|---|---|---|
| event registration `events.py` | timers (retry, renewal, refresh, grace), task, connection state | attempt, retry, renew, refresh, unregister, rediscovery | attempts overlap at each await; requests given up may still arrive; the agent forgets | never silent; stopped is idle; what is registered ends up being what is wanted | `EventRegistration` |
| setup recovery `runtime_manager.py` | recovery timer, probe, cleanup slot | recover, reload | recovery and registration share one cleanup; the reload cancels what asked for it | the entry comes back with the agent | `SetupRecovery` |
| entry setup `runtime_manager.py`, `__init__.py` | what the entry holds, listener, buttons, startup sync | set up, reload, unload, remove | settings change at every await | the entry runs with its settings; nothing is left behind; buttons the user changed survive | `EntrySetup` |
| config flows, installer `config_flow.py`, `device_installer.py` | flows, unique ids, tokens on the device | pages, probe, SSH install | flows for one device side by side, broken-off installs | one entry per device, and it can talk to it | `SetupFlow` |
| options `config_flow*.py`, `entry_config.py` | data and options | pages, rediscovery, repair, marks | two places for a setting, two open dialogs | what was chosen last is in force | `OptionsFlow` |
| repairs `repair_issues.py`, `repairs.py` | issues, facts of the self test and of the patches | synchronize, confirm | flows act on what they read earlier; issues give way to each other | what can be repaired is offered; nothing is blamed on an offline agent | `RepairIssues` |
| agent update `agent_update.py`, `repairs.py` | update state, payload mark, issue | stage, apply, verify, reapply | every call may fail or lose its answer | the issue goes when all follows | `AgentUpdate` |
| Display patch `qml_patch.py` | lock, stored status | apply, restore, read | unlocked readers, cancelled jobs, a reload under a job, scripts that outlive the request | the status shown is the device's | `DisplayPatch` |
| metrics `system_metrics.py` | snapshot, retired instances, read under way, validity | push, read, invalidate, expire | pushes and answers overtake each other; the agent restarts its counter | the snapshot only moves forward and ends up current | `SystemMetrics` |
| camera and WebRTC `camera.py`, `camera_media/` | sessions, offer and close tasks, prepare lock | offer, close, media ended, unload | cancellation and sharing at each await | calls and locks are owned; who closes spares the others; removal ends | `CameraSessions` |
| media state, orchestrator, watchdog | the last status, ready sessions, load | derive, admit, prepare, stop | the device changes hands between status and act | nobody's session is disturbed; what is offered is admitted | `MediaDecision` |
| media cache `media_cache.py`, `media.py` | entries, bytes, pending loads, timers | get, load, expire, range | shared and serialized loads, eviction | bounded, exact, everyone is answered | `MediaCache` |
| ring capture `ring_capture.py`, `ring_ai.py`, `ring_decision.py` | capture, talkback thread, files of fixed names, used mark | capture, transcribe, decide | cancellation, files overwritten between two reads | hung up, own transcript, one unlock | `RingCapture` |
| messages and memos `message_refresh.py` | task, flag, lock, cache | schedule, refresh, delete, store | coalescing; lost posts; the runtime is replaced in an await | one fetch, never older, catches up | `StoredItems` |
| display messages `display_notifications.py` | queue, timer, wake-up job | show, dismiss, expire, wake | changes during the wake-up call | covered by a timer and by a job; the right one gives way | `DisplayNotifications` |
| alarm commands `executor.py`, `alarm_state.py` | the command, the panel | check, call, poll | the panel obeys before or after its service returned, or never, has no state, or is operated by others | the answer is true, and there is one | `AlarmCommands` |
| codec select `select.py` | shown, pending, gap | choose, signal, resolve | the choice's answer is lost; it takes effect after a restart that may pass unseen | shows what runs, ends up resolved | `CodecSelect` |
| switches, volume, forwarding | shown values, event state | read, command, push, dispatch | any order; companions | shows the device | `SwitchEntities` |
| event webhook, entities | event state, sensor, event entity | post, action, reload | a reload takes the webhook, the runtime and the entities away and back one after the other | what is pushed is shown | `PushEvents` |
| dashboard, diagnostics, services, API client, card | derived from the above | | | | not modelled, or as choices |

How they interact: Home Assistant calls the agent's HTTP API (each call may
time out and still be served); the agent posts events to Home Assistant's
webhook from the callback worker; the main loop and the worker share the queue
and its pipe; the media threads share `g_bridge` and the adapter's status under
their mutexes; the GUI's QML keeps one long poll open for the ringer; the
device's own announcements arrive at the main loop by UDP. Inside Home
Assistant the components meet in `runtime_data` of the entry, in dispatcher
signals, in the entry's locks and in its data and options.

## The modules

### CallbackQueue, CallbackMailbox

An action is one critical section of the queue's mutex or one step outside it.
Variables have the names of the fields of `struct c300x_callback_queue`;
`allocated` is the heap, so a leak or a double free is a state; `main` is where
the main loop stands between its poll and its takes. `MainNext` has `Submit`,
`DiscardPending`, `Wake`, `Take`, `TakeNone`, `Close`; `WorkerNext` has
`WorkerWait`, `WorkerBegin`, `WorkerPost`, `WorkerFinish`, `WorkerExit`.
`CallbackMailbox` says what the user of the queue relies on: jobs go out one at
a time in order, results return in that order, a job that was started is not
recalled, the rest can be discarded. `MailboxHolds` is the refinement with the
mailbox's fairness, checked by TLC; `ImplementsMailbox` proves its safety part.

### EventDelivery

Extends the queue by what `http.c` keeps around it: the subscription, its
generation, the event, callback and generation of each job, the metrics
monitor's `delivered` and `owed`. A handler that dispatches several events is a
list of calls (`calls`), between which the worker runs. `acks` is history: the
samples the present subscriber answered. `QueueSpec` says that the composition
uses the queue only through its operations; `DeliveryImplementsQueue` proves
it, so every theorem about the queue holds in it. The network is up or down per dispatch; duplicate suppression may
or may not drop an event; handlers that fail on allocation or on a bad request
change no state and are left out; the monitor is active.

### EventRegistration

`attempt` gives the stage of up to `Task` overlapping attempts (URL, extra
filters, list, call); each step is the code between two awaits. `retry`,
`renewal`, `refresh`, `grace` are the timers; `orphans` are armed timers whose
cancel function was overwritten (`events.py:301` and its like can do that);
`late` are requests that Home Assistant gave up and the agent may still serve.
`world` becomes "calm" or "dead" once, after which the environment no longer
changes: this is how the liveness properties say "eventually for good". Timers
fire at any moment. When no event is wanted, a late POST that is served after
the cleanup leaves a subscription that no timer removes: `EventuallyServed`
does not speak of that case.

### SetupRecovery

The recovery of an entry that was set up offline and the cleanup slot it
shares with the registration (`owner`), with reloads by the user and by the
recovery under the setup lock, and rediscovery by mDNS, which
`config_flow.py:466` turns into a request for registration.

### SystemMetrics

The agent's runs are numbered by the environment; the code only compares their
ids. `flight` holds the pushes under way (any order, repeated or lost), `read`
the read that all callers share with the value it found before its await,
`retired` and `shown` what the code remembers and what is history. The deque of
32 retired ids is a set: no run has that many.

### RingerControl

One action per handler of the agent, which is one thread, and the GUI's actions
in QML. `conn` has two connections: the loaded GUI's and one that a reload left
behind. Identifiers of commands are random and used once, so the command is
named by its client. A deadline that a handler discovers is `TimeOut` followed
by the handler. All refusals are one answer, "failed". `excused` is set in the
four cases in which the code keeps a state to itself: the first observation
after a start, one that a GET made first, a mute while a ring is answered, and
an announcement whose readback failed. A loss of the device's UDP
announcements is not modelled. `ReportedOrExcused` asks of every other state
that, once the announcements are read, what was last reported is the device's.

### MediaSession

Threads: each RTSP client, the HTTP thread, and relay, monitor, media and
talkback threads of each start. `pc` is where a caller stands, cut at every
release of the bridge's mutex: SIP set-up, joins, parking and resuming of
viewers, the status write of `video_rtsp.c`. A start has a number; `fd` and
`started` are the bridge's fields, `open` and `live` are what exists, so that a
socket or a thread nobody names any more is a state. A client that the agent
drops may leave at any time: its drain delay is part of the join.

`races` records which race of the code has happened, because some of them make
a property false: a stop overtook a start's set-up ("overtaken"), a start was
made over remains ("rebuilt"), the last player left beside a connection that
had not played ("bystander"), viewers left between their unparking and the end
of the start made for them ("abandoned"), a parked client lost its slot
("evicted"), a status write came late ("late"). A property names the races that
excuse it; each other one must hold in their presence. One of them is a finding
below. All but "overtaken" end: with the next full stop, or the next status
write.

`SessionTrue` is proved for any number of clients, slots and starts, and so is
`SessionTyped`, which bounds the clients with a slot by the slots there are.

Left out: ring call and home call, DESCRIBE and SETUP (a client they refuse
leaves), failure to initialise SRTP, talkback frames.

### DisplayPatch

`patchJob` has two users of a lock: the `holder` of the entry's lock, over an
action and the status read that confirms it, and the `orphan`, a job that goes
on after an unload dropped the lock it holds (`runtime_manager.py:532`). A
`reader` asks without the lock. `script` is the one maintenance script the
agent runs: it goes on when its request timed out, and a second is refused. An
action is confirmed, fails, is answered but not confirmed (which raises past
the restoring of the old status, or ends the sequence of an update), or its job
is cancelled, which `except Exception` does not see. `doubt` names the
accidents after which the stored status may lag or stay transient: a script
that changed files and whose end nobody heard of ("unreported"), an answer or a
previous status stored after a later write ("outdated"), a job cancelled or
failed between its action and its confirming read ("cut"). Without one of them
a stored status is the device's and no mark of a job is left; in particular
two jobs of two loads side by side and an unconfirmed action do no harm by
themselves. One orphan at a time is followed, and the jobs that wait for a
dropped lock are not.

### AgentUpdate

`disk` has a version per group of files; the agent replaces group after group
and the manifest last, and Home Assistant compares manifests. Between any two
steps a call may fail, its answer be lost, the device lose power or Home
Assistant restart (`MaxFailures`). `oldUpdater` is an agent whose updater does
not know the new payload paths and must be asked twice. The patches are those of
the display, of the IPv4 and the IPv6 firewall, and the schema of the device's
configuration. Three reads (`repairs.py:786-820`) say which are active, and each
fails on its own: without the display's the cached status decides, without the
IPv4 firewall's the SSH installer applies it, without the IPv6 firewall's it
passes for inactive. `unseen` has the active patches an attempt did not see and
the agent does not refresh itself (over the API it does for those that its
configuration lets it maintain, `http.c:9084-9125`; the SSH installer writes a
configuration without the IPv6 firewall, `device_installer.py:379`): the issue
can go while they keep their old version. `cut` excuses the patches
of an attempt that was broken off: its list of patches to reapply is in memory
only.

### RepairIssues

The facts (self test, patch status, user status, callback target), the
synchronization that turns them into issues, and flows that repair what they
found when they began. One check stands for each class of checks.

### EntrySetup

`async_prepare`, `async_unload` and the update listener, step by step; edits
of the settings and restarts of the agent come in between. `missed` records
that the settings changed before there was a listener: then nothing reloads the
entry until the next edit. The callback URL of the display bridge is made
outside the `try` that reports a failure (`runtime_manager.py:838-846`): where
Home Assistant has none to give, the startup sync ends with a warning, the
bridge is not set and no diagnostics say so. `unsaid` records that the last
attempt ended so, and excuses `BridgeServed`. The recovery of an entry without an agent is
`SetupRecovery`.

### SetupFlow

Two flows, two addresses, one device that may be installed, moved and switched
off. A token is a number made by an installer; `nameless` records an entry that
was made before the agent told its id, which is how a device can get two.

### OptionsFlow

`data` and `options` as the code writes and reads them, two open dialogs filled
with what held when they were shown, rediscovery, the callback repair and the
migration. `chosen` is what was last given to a setting, by whomever.

### MediaDecision

`derive_media_state`, `decide_rtsp_admission` and the rest as operators over
every answer the agent can give (its owner is computed as `video_rtsp.c` does),
`async_prepare_rtsp_stream` and the watchdog as processes between whose steps
the answer changes. `OfferHolds` compares what one function offers with what
two others admit.

### CameraSessions

Per session id an offer task, a close call, a background close and the
registered session; `lock` is the prepare lock with its owner; `media` is what
the device does; `stopping` is a service that stops an owner's media, its
sessions first. Tasks are cancelled at any await, the refresh of the ring
preview after a provider was closed among them. A Home Call that the agent
accepted and whose answer was lost has no owner in the code: `forgiven` marks
this, a stop that failed or was given up, and a call that the agent said was
over; `cut` a cleanup that was itself cancelled. One service stop runs at a
time, and counts toward `MaxEnds`; one that finds no session is `MediaChanges`.

### MediaCache

`cached` in the order of use, `loads` with their stage, one semaphore. Views
ask for a range; their answer is a status and first and last byte.

### RingCapture

Capture service, talkback thread, transcription and decision, which meet in
files of fixed names. `torn` marks a transcript whose sound was overwritten
between its two reads; `excused` a capture for which two decisions raced,
whose unlock was served while its answer was lost or its caller cancelled
(the door is open and the capture unmarked), whose mark could not be written, or
whose mark was overwritten: there is one mark for all captures, and a decision
for an earlier ring that is slow writes its own over that of the later one.

### StoredItems

The device's list as a version, the cache, three callers (refresh task, delete
button, reader) under a lock that a reload drops. `quiet` becomes true once,
after which the device's list does not change. A post that tells of a change may
be lost, and nobody repeats it: the sensors do not poll, and the snapshot that
greets a new subscription brings counters, makes the sensors available and
schedules no refresh. `missed` records that the latest change was told in vain:
its post was lost or came before the sensors listened, or its refresh failed and
a snapshot covered that up. `CatchesUp` is excused by it, since the list stays
old until the next event, update or press.

### DisplayNotifications

The queue with its one timer against a clock, and the coalesced job that wakes
the display: `wakeAsked`, `dirty` and `job` are the code's flags, `owed` is a
change the display was not yet woken for.

### AlarmCommands

One command at a time, checked against the sensors as the code does, given to a
panel that obeys while its service runs, while it is polled, after the command
was answered for (`late`), or never, or refuses. A panel that had no state when
the command came is not polled, its word is taken (`executor.py:109, 208-212`):
`OkIsTrue` does not speak of it. `meddled` records that the panel moved for
another reason while the command ran, an earlier command obeyed late among
them. A failure is judged by what the panel had done when it was reported.

### CodecSelect

What the device runs and what its file says differ until a restart. `asked` is
the choice on its way: sent, made on the device, answered, or failed before or
after it was made. After a lost answer the disk is changed with nothing pending,
and the signal handler does not look, since nothing is pending (`select.py:268`):
`lost` records it, until a read or an answer makes up for it. `crossed`
records that a choice crossed an answer under way. A ring capture publishes the
codec as well. One choice is under way at a time; the two configuration files
are one, as the agent rolls both back when one cannot be written. `NeverClaims` states a
comment of `select.py` literally; an agent too old to report both codecs
refutes it after any outage, which the code accepts, so no run asks for it.

### SwitchEntities

The switches, the volume number and the forwarding select over the device's settings. `excuse` has those a named accident
may have left behind: a change by somebody who does not report it, a lost answer
or push, a push that crossed an answer.

### PushEvents

`posts` are sent in order and may be lost; a request takes its runtime's state
before it awaits its body. `stage` follows a reload: the entities go, then the
webhook, then the new runtime has its webhook ("prepared"), several awaits
before its entities listen ("loaded"). `listed` are the event types the agent
offers, and so those the event entity and the sensor take. The event entity
hears Home Assistant's own action event too (`ActionFired`), of which the event
state knows nothing. `picture` is what the payload tells of the video: the door
view is shown, somebody else has it, or it is off. `behind` has the kinds of
state that missed a post or were replaced while the device was in them, and
"last" when the event entity and the event state took different events: an
action, a post that a reload split or that came before the entities, or one of
a type that is not offered. Stair light actions are as those of the door.

### The composite modules

`MCAgentServices`, `MCSetup`, `MCMedia` and `MCEntities` put modules that share
no variable into one run. `part` is chosen at the start; only that module
moves, the others stay at one initial state, and each module's fairness is
restated for the part that moves. Since they share nothing, the behaviours of
the composite, seen by one module, are that module's own and stuttering: the
run checks each module on its own, and adds no interleaving between them. The
safety properties are the modules' own definitions, those the theorems state: a
module that does not move keeps its initial state and they hold of it. What
must happen in the end is asked of the part that moves only.
`MCEntryServices` does the same for the registration and the display patch.
`MCMediaSession` only gives constants their values.

## Runs

| run | parts | distinct states | what it asks |
|---|---|---|---|
| agent_services | queue, update, recovery, metrics, issues | 237,498 | ownership and termination of jobs, refinement of the mailbox; truth of manifest, patches, snapshot and issues; that updates, recoveries and issues come back |
| entry_services | registration (2 overlapping attempts, 2 filters, 1 lost timer, 1 late request), display patch (3 jobs, reads or reloads) | 368,212 | liveness and silence of the registration under outages, restarts and rediscovery; truth of the patch status, and that its lock comes back |
| ha_setup | entry, flows, options, decisions, delivery | 1,251,254 | setup under changing settings, one entry per device, settings in force, whose the device is, events for the right subscriber |
| ha_media | camera, cache, capture | 414,385 | owners of sessions, locks and calls, the cache's bounds and ranges, one unlock per ring; that removal, viewers and captures end |
| ha_entities | items, notifications, alarm, codec, switches, push | 595,328 | what entities and display show is what the device and the panel do; that they catch up |
| ringer_control | 2 clients, 1 announcement, 1 reload, 1 restart | 359,206 | truth and uniqueness of answers, reachability of the GUI, reports |
| media_session | 2 clients, capacity 2, 2 starts | 2,256,328 | accounting of sockets and threads, ownership of the session, status, stop |
| media_session_full | 2 clients, capacity 1, 1 start | 196,248 | eviction of a parked client; stop and shutdown return |
| media_session_stop | 2 clients, capacity 2, 1 start | violation | that a stop lasts |
| setup_recovery_return | none | violation | that the recovery reloads the entry |
| system_metrics_rollback | 2 runs of the agent | violation | that no push goes back to an earlier run |
| options_discovery | 2 addresses | violation | that an advertised address takes effect |

Why these bounds are enough to be interesting:

- *Agent.* A queue of three with four blocks has a full queue beside a job in
  flight and a free block. Three runs of the agent are the fewest with one in
  the middle that was never shown. Two failures break off an attempt and its
  repetition.
- *Entry.* Two attempts are the fewest that overlap. Three jobs, reads or
  reloads of the display patch let a job be orphaned, the next one work beside
  it, and a third hold what they left.
- *Setup.* Three generations let a subscriber be replaced and its id come back
  while a job of the first is being posted. Two flows race for one device, two
  addresses let it move, three tokens are the one there was and one per
  install. One edit can fall at any await; two changes and two saves let each
  of two dialogs overwrite the other.
- *Media.* Two sessions share or do not; three recordings of sizes 1 and 2 in
  a cache of two entries and three bytes evict by either bound; two captures
  and two decisions meet in the files.
- *Entities.* Two items and three versions, one reload in the midst; three
  messages compete for two places and three units of weight; two commands, one
  of them obeyed late, and two moves of the panel or its sensors; two choices
  with two restarts and two failures; two commands and one change from
  elsewhere; three events around one reload.
- *Others.* Two clients of the ringer give a late acknowledgment somebody else's command to meet; two starts
  let a session meet the remains of the previous one, and capacity one lets a
  new client take a parked one's place.

The bounds stand in the guards of environment actions only (the constants whose
names begin with `Max`, and `Horizon`).

`CONSTRAINT NotOvertaken` cuts the two media runs where a stop has overtaken a
start. Every property those runs check is excused in such a state, and a state
never stops being one, so no behaviour that could violate them is cut.
`MediaSessionStop` has no such constraint: it is about that race. Symmetry is
used where all members of a set are treated alike and no liveness is checked.
Deadlock is not checked where the system may stop: a closed queue, an unloaded
entry, bounds that are used up.

### Fairness

- The callback worker is a thread and each post has a time-out: weak fairness
  of its steps. The main loop polls the pipe and takes until it is empty.
- Home Assistant's requests have time-outs (`_api_core.py`), so a task that
  awaits one goes on; an armed timer fires, and a requested reload gets the
  lock: weak fairness of each such step. An `asyncio.Lock` is first come, first
  served: strong fairness of taking it. Nothing is assumed of what was given
  up: it arrives or does not.
- A maintenance script ends, a subprocess ends or is killed by its time-out.
- The agent repeats its heartbeat while a delivery is owed: weak fairness of
  `Push` (what `EventDelivery` shows of the debt) and of arrival.
- The agent's diagnostics are read from time to time (`DiagnosticsStored`), and
  its connection is signalled (`Signal`).
- The alarm panel's service call returns or raises; the panel need not obey.
- The ringer's deadline is the loop's poll time-out; the loop reads ready
  connections; the GUI's reconnect timer runs.
- Media: set-up and joins go on, a worker that was told to end or lost its
  socket ends, a refused or dropped client leaves. Nobody need play, stop,
  activate or hang up.

## What the runs found

- **A recovery can be cancelled by the return it waits for**
  (`setup_recovery_return`). `resources.unregister_event_registration` holds
  the recovery's cleanup. mDNS rediscovery calls it before the recovery's timer
  fires and starts an ordinary registration with the empty capabilities of the
  offline setup; the entry is not reloaded.
- **A push can take the metrics back to an agent run that is gone**
  (`system_metrics_rollback`), if that run was never shown: its id is not
  retired yet. The run that is in fact current is retired instead.
- **A stop may be undone by a start** (`media_session_stop`): the stop runs
  while the start is in its SIP set-up and finds nothing to close; the start
  then clears the stop flags and goes on. The same race can let a stop wait
  for ever in its join, with flags that a second start cleared: this is why
  `StopReturns` and `ShutdownReturns` are excused by it.
- **A rediscovered address is hidden by saved options** (`options_discovery`):
  zeroconf updates the entry's data, and the options that the options flow
  saved win.

Behaviour that the models show, that is nobody's broken promise or was not worth
a run of its own, and that the properties name as an excuse:

- a session may outlive its clients: the last player leaves while a connection
  that never played is registered (`MediaSession`, "bystander");
- settings changed before the update listener is registered take effect only
  with the next reload (`EntrySetup`, `missed`);
- an update that is cut short forgets which patches it was to reapply
  (`AgentUpdate`, `cut`), and one that could not read a patch's status may leave
  the patch behind while the issue goes (`unseen`);
- a display job that is cancelled, or whose confirming read fails, leaves a
  transient status that nobody owns until the next read (`DisplayPatch`, "cut");
- a callback URL that cannot be made ends the startup sync with a warning: the
  display bridge is not set and nothing is reported (`EntrySetup`, `unsaid`);
- a Home Call whose accepting answer was lost is nobody's (`CameraSessions`,
  `forgiven`), a door opened without an answer may be opened again for the same
  ring (`RingCapture`, `excused`), and a codec choice whose answer was lost is on
  the device's disk with nothing pending (`CodecSelect`, `lost`);
- two decisions for one ring may both unlock (`RingCapture`, `excused`), since
  the mark is written after the door was opened; so may two decisions one after
  the other, when a slower one for an earlier ring has put its mark over the
  later ring's in between, which the attempt to prove `CapturesTrue` showed;
  the transcript of one ring may hold the sound of the next (`torn`);
- a list whose change was told in vain stays old until the next event or read
  (`StoredItems`, `missed`), and a state whose post was lost stays as it was until
  the next event of its kind (`PushEvents`, `behind`);
- the event entity and the event state may name different last events: one hears
  of Home Assistant's own actions, the other of posts while no entity listens
  (`PushEvents`, "last");
- a flow that ends before the agent told its id makes an entry that a later
  discovery does not recognize (`SetupFlow`, `nameless`).

## Proofs

TLAPS checks these for every value of the constants, from the named assumptions
of the modules and from nothing else: natural bounds, a capacity of at least
one, finite sets of clients, sessions, messages and flows, "none" values and
events that differ from what they are not. `NoSubAssumption` says that no
subscription is the absence of one, `DeliveryAssumption` that the metrics event
is none of the others. The safety properties of all passing runs are proved.

| theorem | says |
|---|---|
| `CallbackQueueProofs!QueueSafeHolds`: `TypeCorrect`, `AccountingHolds`, `NotifyHolds`, `OwnershipHolds`, `ResultsHold`, `ReleaseIsLast` | the safety of the queue |
| `CallbackQueueProofs!ImplementsMailbox` | every step of the queue is one of the mailbox, or none |
| `CallbackQueueProofs!DeliveryImplementsQueue`, `DeliveryTrueHolds` | the delivery of events uses the queue only through its operations, and keeps status and debts with their subscriber |
| `EventRegistrationProofs!RegistrationSafeHolds`: `NeverSilentHolds`, `StoppedIsIdleHolds`, `GraceHolds` | the safety of the registration, for any number of attempts |
| `AgentServicesProofs!RingerTrueHolds`: `RingerTypeCorrect`, `SuccessIsTrue`, `AnswersAreFinal`, `NeverForgotten`, `ReportedHolds` | the answers of the ringer channel and what is reported of the device |
| `AgentServicesProofs!SnapshotTrueHolds`: `NoReturnHolds`, `ReadMovesForwardHolds` | the metrics snapshot only moves forward |
| `AgentServicesProofs!DisplayPatchTrueHolds`, `UpdateTrueHolds`, `IssuesTrueHolds`, `RecoverySafeHolds` | patch status, manifests, issues and the recovery's cleanup |
| `SetupProofs!EntryKeptHolds`: `EntryConsistentHolds`, `ButtonsSurviveHolds` | an entry and its device, through edits and restarts |
| `SetupProofs!SetupTrueHolds`, `SettingsTrueHolds`, `DecisionsAgreeHolds` | flows side by side, the settings in force, whose the device is |
| `MediaProofs!CacheConsistentHolds`, `CapturesTrueHolds`, `CameraKeptHolds` | the cache's bounds and ranges, the captures, the camera's sessions |
| `MediaSessionProofs!SessionTrueHolds`, `SessionTyped` | the bridge's session, its threads and sockets, for any clients, slots and starts |
| `EntitiesProofs!ItemsKeptHolds`: `ItemsConsistentHolds`, `NeverOlderHolds` | one fetch, no refresh lost, never an older list |
| `EntitiesProofs!NotificationsKeptHolds`: `NotificationsConsistentHolds`, `LowestGivesWayHolds` | the display's queue, its timer and its wake-up job |
| `EntitiesProofs!AlarmTrueHolds`, `CodecTrueHolds`, `PushedTrueHolds`, `SwitchesTrueHolds` | what the entities show |

### The inductive invariants

Each was checked by TLC before it was proved. They are what the modules know
beyond the property:

- *Queue* (`IInv`). The three places of a job (`pending`, in flight, `done`)
  are sequences without repetition, pairwise disjoint, and together exactly
  `allocated` (`Pieces`, `Active`); the counters count them (`Counts`,
  `NotifyMatchesDone`); the worker's stage says whether it holds a job
  (`Stages`); results are written when it finishes (`Results`). `Accounting`
  alone is not inductive: that a discard does not take the counter below the
  job in flight needs the pieces, and that a taken job is freed once needs them
  to be disjoint. The refinement maps the mailbox's sequence to
  `done \o InFlight \o pending`: each critical section moves a border inside
  it or cuts it at an end.
- *Delivery* (`DInv`). No block names a subscriber to come (`NoneAhead`): that
  is why comparing generations is enough. A debt that is not noted is about to
  be dispatched (`DebtIsCalled`).
- *Registration* (`IInv`). `Promise`: a registration that is not stopped has an
  attempt that will arm a timer whichever way it ends, or an armed timer, or
  nothing to register. `NeverSilent` says nothing of a running attempt.
- *Ringer* (`RingerInv`, `Reports`). `Genuine`: an acknowledgment that matches
  the pending command is the GUI's own for that command, and the GUI has
  applied it; `Pending` and `Parked` tie the fields of the control to each
  other and to the connections. `Reports`: the announcements under way end with
  the device's state, and the agent knows no other state than the last it
  reported. The second part is why an announcement that changes nothing for the
  agent changes nothing for anybody.
- *Metrics* (`SnapshotInv`). Every id that was shown is retired or current,
  which makes the test for retired ids sufficient.
- *Patch* (`PatchInv`). A script belongs to a request that waits for it or to
  nobody, an answer is a status of files or none at all, and the two properties hold
  from the moment the jobs that work have reported (`Accounted`), though a job
  may still have to reload and to read.
- *Update* (`UpdateInv`). How far the files are behind the repair's step: the
  manifest follows the job's files (`FilesFollowJob`), an agent that runs an
  old version has something left to do (`OldIsAhead`), and the payload an old
  updater did not know is owed until it is there (`PayloadIsOwed`).
- *Recovery, issues, entry, flows, options, decisions.* `SetupIsFresh`; issues
  follow the facts; `ReloadsAreOfEdits` and what holds from the step on that
  establishes it (`UsedSinceSetup`, `ServedSinceBridge`, which holds but for a
  URL that could not be made); where an installer
  and the last writer of the device's token stand (`InstallPlaced`,
  `WriterPlaced`); forms that hold their pages' settings (`FormWell`,
  `SavedTogether`); a preparation knows nothing before it has its answer.
- *Cache* (`CacheInv`). Each recording is cached once and the bytes are the
  sum of the sizes of what is cached, whatever the order of arrival.
- *Captures* (`CaptureInv`). Marks are behind the captures, and a capture that
  is not excused has one decision that acts, or is marked (`Unlocked`).
- *Camera* (`CameraInv`). What a session, its offer, its close and its later
  removal say of one another (`Registered`, `Agrees`, `RemovedOf`, `OfferOf`,
  `CloseOf`), and who will end the call (`Holder`), a service's stop included. A close that is past its
  question for others has none of them left (`Spares`).
- *Media session* (`SessionInv`). Who has the bridge between two steps of a
  caller: the stop in progress (`OneStop`, with what it has taken from the
  bridge, `StopTakes`) or the start under way (`OneStart`, which owns
  `media_starting` until the relay runs, `OneRelay`, `Held`). From these follow
  that sockets and threads are accounted for (`Counted`), that the status is
  right or about to be written (`ShownSoon`), and that a session has an owner
  or a caller who is about to give it one (`OwnedSoon`). Each part is asked
  only where the races that undo it have not happened (`InOrder`, `Fresh`,
  `InTime`, `Kindly`), the same races that excuse the property. `Seated` and
  `OneStop` hold even then.
- *Entities.* `ItemsInv`: an answer under way fits the runtime that asked.
  `NotificationInv`: the queue is within its budget and its timer covers it.
  `AlarmInv`: while nobody else moves the panel it stays where the command
  found or brought it. `CodecInv`: an answer under way is recent, or something
  crossed it. `PushInv`: the last post of a kind on its way says what the
  device is in. `SwitchInv`: an available entity without an excuse shows the
  device, or a push or an operation that covers it is on its way (`Settled`).

`FiniteSums` has the lemmas on sums and smallest elements that several of them
need. The induction principles of the library take an operator as a parameter,
which the provers cannot instantiate, so each is proved from a smallest
counterexample.

Only model-checked: all liveness (`JobsResolve`, `LockComesBack`,
`UpdateReturns`, `CaughtUp`, `IssueComesBack`, `RemovalHolds`, `ViewersHold`,
`CapturesReturn`, `ItemsCatchUp`, `DisplayIsWoken`, `CommandIsAnswered`,
`CodecResolves`, `ServedOrShown`, `RingerServes`, `SessionEnds`) and the
fairness part of `MailboxHolds`: liveness under fairness and `ENABLED` are out
of the prover's reach.

## Plan

1. *Proofs.* The promises that the modules keep but no run asks for by itself:
   the refinement of an abstract specification by the cache (a bounded store),
   by the display's queue and by the sessions of the camera, each step by step
   on the invariant there is.
2. *The agent's remaining tables*: HTTP slots, display events, maintenance
   jobs, queue of media events, markers of local actions; one abstract
   specification of a table whose entries end by answer, deadline or eviction,
   which each of them implements. Ring call and home call beside the on-demand
   session of `MediaSession`.
3. *Callback transport* composed with `EventRegistration`.

## Not modelled

Of the modelled components: the agent's ring call and home call; the camera's
handling of a second offer under an id that is active and of the stop that a
preparation makes of a stale session; the change of the cpu-metrics option at
run time; the recording and upload of voice memos; ICE candidates; the
conversion of recordings; the shell script of the display patch, which is a
choice of success or failure part by part. In `RingCapture` and `AlarmCommands`
times are choices: a deadline may pass before or after any step.

Parsing, formatting, routing of requests, codecs, numeric thresholds of the
watchdogs, device files whose format is all they are about, HTTP and TLS
exchanges (their outcome is a choice), OpenWebNet requests (the same),
dashboard payloads, diagnostics, the card, and the build, check and install
scripts: they keep no state that several steps share, or none whose order
matters. The agent's HTTP slots, long poll of the display and local actions do
keep such state and are in the plan. `PROJECT.json` says this for each part.
