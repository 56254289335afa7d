# NetAuth: TLA+ models and proofs

NetAuth authenticates a machine on a wired campus network: it speaks EAP over
LAN on a chosen adapter, checks that the Internet answers, keeps the session
through renewals, and starts over when a cable, a configuration, a suspend or
an authenticator ends it. A privileged service does this; a GUI, a command line
and a notification agent are clients of its local control channel.

This directory models that program in TLA+, checks the models with TLC on small
instances, and proves theorems about them with TLAPS. Paths are relative to the
repository's copy in `src/`; the Rust sources are in `src/src/`. `PROJECT.json`
lists components, runs, mutants, the lines each definition stands for, findings,
hazards and theorems.

## The system: parts, state, interaction

| Part | State it keeps | Operations | Talks to |
| --- | --- | --- | --- |
| Authentication engine (`engine.rs`) | connection state, generation, session, probe, peer, candidates, retry counter and four deadlines, manual disconnect, suspended | one thread: `run`, `handle`, `tick`; methods `authenticate`, `next_candidate`, `failed`, `packet`, `network_changed`, `apply_config`, `connect`, `logoff`, ... | takes events from one bounded queue; owns sessions and probes |
| EAP exchange (`authentication.rs`, `protocol.rs`) | the pinned authenticator | `receive`, `answer`, `parse` | called by the engine and the CLI |
| Capture session, probe (`platform/mod.rs`, `connectivity.rs`) | a reader thread, a check thread, their cancellation | `Session::open`, `deliver`, `Probe::start`, drop = cancel and join | put events of their generation in the queue |
| Latches (`engine.rs` `Signal`, `PowerNotifier`) | one pending flag each | `notify`, `take` | called from signal, netlink, SCM and power callbacks |
| Configuration (`config.rs`) | the file, its version as last read | `load`, `save`, `atomic_write`, reload every 5 s | engine, installers, editors |
| Update check (`update.rs`) | checking, failure count, next check, last release, a cache file | `start_update`, `fetch`, `Event::Update` | a detached worker thread |
| Control channel (`ipc.rs`) | active clients, per call a reply channel, per watcher eight places | `start`, `serve`, `watch`, `publish` | clients; the engine's queue |
| Service (`service.rs`) | the instance lock, the control handler, the reported state | start, end, stop at any point | all of the above; the control manager or signals |
| Direct CLI (`bin/cli.rs`) | a handshake or a logoff without a service | `direct`, `LOGOFF` | the lock, the EAP exchange, a session, a probe |
| Notifications (`gui/notifications.rs`, `notify.rs`) | what was seen and announced, an outage, a pending request, the noted release | `observe`, `poll`, the agent's subscription, queue and timer | the control channel, the tray |
| Windows GUI (`gui.rs`) | configuration, drafts, pending changes, the last snapshot; events from two threads | `events`, `command`, the control and the subscription thread | the control channel; message boxes that run a loop of their own |
| Platforms (`platform/*`) | sockets, BPF devices, NDISUIO requests, pipes, SCM | `adapters`, `Capture`, `monitor`, `instance_lock` | the operating system |
| macOS application, scripts, diagnostics log | windows; a log file | - | the control channel |

What is hard, and what makes each part correct:

* **Engine.** Its thread against workers, notifiers and clients; queued events
  of attempts that are over; any system call failing at any point; a suspend or
  a user's disconnect between any two steps. Correct when no attempt outlives
  what ended it, what runs belongs to the configuration in force, and no state
  waits for something that cannot come.
* **EAP exchange.** A second authenticator on the wire. Correct when a handshake
  stays with its peer.
* **Configuration.** Other writers between the look at the file and the read;
  loss of power between write, rename and sync. Correct when nothing half-written
  or unread counts as the configuration.
* **Update check.** Mirrors that lag, restarts, failures. Correct when the
  release on offer is right and the checks keep their pace and never stop.
* **Control channel.** Two threads per watcher, a slow peer, a late reply.
  Correct when it keeps the promise of `Feed`, and places are given back.
* **Service and direct command.** Two processes that start, stop and die in any
  order. Correct when one works on the adapters at a time, a stop is honoured
  wherever the start is, and the next process finds its endpoint free.
* **Capture, probe.** A thread that waits for the driver, for time or for room
  in the queue while its owner joins it. Correct when every join ends, every
  frame is given once and no buffer is freed under the driver.
* **Notifications.** Dropped snapshots, broken subscriptions, retries within an
  outage. Correct when what is owed to the user is said, and once.
* **GUI.** Events of two threads, nested by message boxes. Correct when what is
  locked will be unlocked, a draft survives the news, and the window shows the
  newest state.

## Modules

| Module | Models | Run by | Proved in |
| --- | --- | --- | --- |
| `Authentication` | decisions of `receive()` over frames reduced to source, addressing and kind | through `Engine` and `Direct` | |
| `Engine` | engine thread, captures, probes, latches, clients | `MCEngine`: `Engine*.cfg` | `EngineProof` over `EngineInvariant` |
| `ConfigReload` | the file between the engine's steps, other writers, crashes | `MCConfigReload` | `ConfigSafetyProof` |
| `UpdateCheck` | scheduling, back-off, cache, retained release | `MCUpdateCheck` | `UpdateProof` |
| `Feed` | abstract: what a watcher is promised | implemented by `Ipc` | |
| `Ipc` | listener, pipe instances, client threads, subscriptions | `MCIpc` | `IpcProof` |
| `InstanceLock` | `instance_lock()` and what the system takes back | through `Host` | |
| `Service` | processes of the service: start, end, handlers, lock, endpoint | through `Host` | |
| `Direct` | the direct command with its worker threads | through `Host` | |
| `Host` | composes `Service` and `Direct` over one lock | `MCHost` | `HostProof` |
| `StateNotifications` | `observe`, `poll`: operators over its record | through `NotificationAgent` | |
| `NotificationAgent` | the agent: subscription, queue, timer, noted release | `MCNotificationAgent` | `AgentProof` |
| `Window` | the configuration window and its threads | `MCWindow`: `Window*.cfg` | `WindowProof` |
| `Bpf` | frames in the buffer of a BPF device (macOS) | through `Captures` | `CapturesProof` |
| `NativeUio` | requests to the NDISUIO driver (Windows) | through `Captures` | `CapturesProof` |
| `Captures` | composes `Bpf` and `NativeUio`: the capture of either system | `MCCaptures` | `CapturesProof` |

### Engine

The engine's fields are the record `eng`. An operator per method maps an engine
to the *set* of engines (or outcomes) it may leave, since enumeration, opening a
capture, sending and spawning may each fail (`Faults`). The actions are the
steps of `run()`: boot, take an event or time out, dispatch it (`Handle...`),
then `tick()` deadline by deadline; `pc` says where the thread is, and other
threads act between any two of these. A method runs as one step, as it does on
the engine's thread: only `eng` is touched, and what other threads see of it
(cancellation of a dropped session) is part of the step. The latches are read at
the lines where the code reads them.

* Deadlines are `off`, `armed` or `expired`. `tick()` reads the clock once, so a
  deadline armed after that reading is not due in the same tick.
* A frame is a source, whether it is addressed to this host, and a kind. The
  responses' bytes are data.
* Adapters have a total order (`Rank`) that stands for score and enumeration.
* `spill` is what a capture delivers before its first send fails, for
  `Session::open` starts the reader before `next_candidate` sends: up to
  `SpillMax` frames, and with or without them the error that ends the reader.

### ConfigReload

Stat, exists, open, apply, and write, sync, rename, sync of the directory,
apply-and-acknowledge are steps of the one engine thread; others edit, remove,
or stop the machine between them. The directory entry a loss of power may bring
back is `disk`; content that was never synced may be gone. A version (time and
length) is taken to be new with every write: two writes of the same length
within one tick of the file system's clock are outside the model. On Windows
the sync of the directory is part of the rename (`MOVEFILE_WRITE_THROUGH`).

### UpdateCheck

A version is a number, time is kept as what is left of it, and one action lets a
unit pass; only the order of the delays matters. A source that answers with
nothing usable is one that answers 0. Jumps of the wall clock and the clamp of
`engine.rs:164` are not modelled.

### Ipc and Feed

One identity per connection. The listener's check and increment are one step,
for only it increments. `publish()` is taken apart into the visit of a
subscriber and the clearing of `alive` (`engine.rs:270-272`); subscribers are
visited in any order. The peer may go at any moment, take long (a write that
fails) or send nothing. `pipes` counts the instances of the Windows pipe, of
which there is one more than clients are allowed.

`Feed` has no queues and threads: a watcher is closed, open or cut; each snapshot
after its first is shown in order (`Shows`), and the newest in the end
(`Follows`), until it is cut.
`Ipc` implements it under the mapping `Promise`: a watcher is cut as soon as
its channel is found full or its end is noticed.

### Service, Direct, Host

`Service` follows `run()` step by step and Rust's drops in reverse order; on
Windows the control manager starts no second process before STOPPED is
reported, and the handler reports before it notifies. `Direct` has the reader
and the check as threads with the points where they wait: for a frame, for a
ping, for room in the queue. Its generation is the adapter's place in the
order. `Host` gives both the same `holder` of the lock and nothing else. To
keep the instance small, the service moves only beside the commands of
`Shared`: a probe of one adapter, and a logoff.

### StateNotifications, NotificationAgent

The record has the fields of `StateNotifications`; `Observe` and `Poll` map it to
the record and the notice. Time is the age of an outage, up to `OutageDelay`. The
agent's queue drops its oldest entry when it is full; the noted release is
the only thing that survives a restart. `owed` is history: a user asked for a
connection and has not been told.

### Window

The window takes all events that wait as one batch (`TakeEvents`) and handles
them one by one (`HandleEvent`); an error opens a box, on whose loop further
batches are taken. `stack` holds the calls under way: the open boxes, each with
what is left of the batch it interrupts and whether newer news were taken since
(`overtaken`), and the batch being handled on top. A question disables the
window, the other boxes do not, but commands wait until the batch has been
handled: posted messages go before input. A command that finds the queue full
opens its box in the middle: a connect has locked the account by then and gives
it back when the box is closed, with the configuration of before, whatever came
meanwhile; a preference is shown as it was chosen until then (`Refused`). The
adapter stands for the account's fields, one preference for the six. The second
box of a connect that fails and whose follow-up finds no room in the queue is
taken together with the first.

### Bpf, NativeUio, Captures

In `Bpf` only lengths matter: a record has a header and bytes, the next begins at
a multiple of four, and a read returns whole records with or without the last
padding; `start` is a record's place among all there ever were, so that its place
in a buffer is a difference. That the kernel drops a record, or ends a
buffer inside one, is not modelled: of what can go wrong in a buffer only the
last record's missing padding is. In `NativeUio` each of the two threads makes one request at a time;
`at` says where it is in its function, `driver` what the driver makes of the
request, `pending` is the flag of `Request`.

## Runs

Every run checks deadlock unless said.

| Run | Question | Bounds and why they are enough |
| --- | --- | --- |
| `engine_lifecycle` | Does anything outlive a disconnect, suspend or change of configuration? Is a capture opened that nobody wants? | two adapters (fail-over needs two), three configurations that differ in account, adapter, `auto_auth` and completeness, power, cables, faults, one frame and an error spilled by a capture, which is what brings a failed attempt back; `MaxGen` 3 lets an attempt be replaced by another and that one fail |
| `engine_wire` | Does a handshake stay with its authenticator, is only the attempt's own probe believed, is the retry delay kept, is a session dropped without a reason? | one adapter, two authenticators, every kind of frame, configurations with and without `auto_auth` and one tied to the adapter, faults, one spilled frame, `MaxAttempt` 2, `MaxGen` 3 |
| `engine_liveness` | Does an attempt end, a latch get served, a link get used whose notification was lost, also with a full queue? | queue of one, faults, one spilled frame and the error after it |
| `engine_orphan` | finding 1 | one adapter, up to two spilled frames |
| `config_reload` | Half-written, lost or unread configurations? Does the engine end up with the file? | two values, four versions of the file: a save, edits around it (one may break it) and a crash |
| `update_check` | Is the release on offer right, announced once and never forgotten, the pace kept? Do checks go on? | three releases (old, installed, new), two mirrors that may differ; the worker thread is created |
| `ipc` | Does the channel implement `Feed`? Are clients counted and is a pipe instance left? Does every connection end? | two connections for one place, so that one is refused, or follows one whose late reply or subscription is still there; one place per watcher; three snapshots: one that finds it full and a later one. Connections are used up, so deadlock is not checked |
| `host` | Two captures at a time? A stale answer believed? An interrupt, a stop or a join lost? | two processes of the service (a process and its successor), one command over up to two adapters (a first whose events are late for the second), a queue of one. Nobody has to start anything, so deadlock is not checked |
| `notification_agent` | Is what is owed said, and once? | one request, one release, a queue of one that overflows, one snapshot on the wire, a delay of two |
| `window` | Is what is locked unlocked, a draft kept, the newest shown in order? | one adapter that is unplugged, one request at a time (so that the next finds the queue full), one box at a time, three events, one change at the service: a batch within a batch. Commands and news are bounded, so deadlock is not checked |
| `window_stale` | finding 2 | as `window` |
| `captures` | Is every frame given once, is no buffer freed under the driver, does a stop end the reader? | three records whose lengths and headers meet the alignment in every way, with one that is cut; one request per thread. A stopped session stays so, so deadlock is not checked |

Two properties name the case in which the code does something else:

* `OpenedOnlyIfWanted` lets fail-over go on after the attempt was reported as
  failed, if what is handled is the late word of its own capture (`LateWord`).
  With two adapters and automatic authentication off, a failed `connect()` leaves
  the other candidate listed and its generation current; a frame or the reader's
  error that the capture delivered before its first send failed then opens that
  candidate, though the user was told of the failure. This is finding 1 seen from
  another side.
* `ShowsNewestInOrder` excepts finding 2 (`late`), and a failure to start the
  service that is handled over a subscription that is up (`unstarted`):
  `service_control(true)` may fail while a service runs that was started another
  way (`--console`), and its error is posted behind the first snapshot
  (`gui.rs:1633`). The window then says that the service is not connected until
  the next snapshot, against `docs/WINDOWS.md:48`. In `window_stale` the start
  does not fail.

Counters are capped by `MaxGen` (no new input once that many generations have
passed), `MaxAttempt`, `QueueCap`, `SpillMax`, `MaxStamp`, `MaxVersion`,
`MaxSnapshot`, `MaxRequest`, `MaxRelease`, `MaxNest`, `MaxNews`, `MaxArrived`,
`MaxAdapters`, `Processes`; they guard inputs, never the reactions to them.
(`MaxAttempt` saturates, as the code's delay does.) Each module's `TypeOK`
documents its variables; those of `Engine`, `ConfigReload`, `Ipc`, `NotificationAgent`,
`NativeUio`, `Service`, `Direct`, `UpdateCheck` and `Window` are proved.

### Fairness

* Engine: weak for its thread, which blocks only on the queue with a timeout;
  strong for the end of a probe, whose thread tries the queue every 10 ms until
  it is cancelled; strong for each deadline being found past by a tick, since
  every event is followed by a tick. None for clients, frames, cables or power.
* ConfigReload: weak for the thread's steps; strong for the reload, whose
  deadline is looked at after every event, and for a read, which assumes that no
  one holds the file for ever. None for crashes: the property is about a process
  that lives on.
* UpdateCheck: weak for the engine, time, and the download, each of whose
  requests has a time limit of eight seconds (`platform/unix.rs:69`).
* Ipc: weak for the listener, the engine and a client's two threads: reads of a
  request, replies and writes have time limits. None for a peer to go.
* Host: weak for the steps of `run()`, the handlers, the direct command, its
  workers and its deadline. None for anybody who starts, stops or interrupts;
  the service's engine need not open a capture.
* NotificationAgent: weak for its threads, its timer and time. Nothing is
  assumed of the service, or that a subscription lasts.
* Captures: weak for the reader and the owner, and for the driver giving up a
  request that is cancelled; neither frames nor answers need ever come.
* Window: none; its properties are about safety.

## Findings

1. `engine_orphan`: after a failed first send, frames of the dropped capture
   keep the current generation and can make the engine Authenticated without a
   session (`engine.rs:395`).
2. `window_stale`: an error box in the middle of a batch lets newer events be
   handled before the older rest; the window may then show that the service is
   not connected, or an old state, until the next change (`gui.rs:1141`).

Seen while modelling, and not given a run:

* `engine.rs:229`: the reload's guard against a missing file (comment at 222) is
  on an earlier look; `load()` looks again and gives the default configuration.
* `engine.rs:543`: `checking` is set before the worker is spawned and never
  cleared if that fails; `engine.rs:531` and `744` then refuse every later check
  (`docs/ARCHITECTURE.md:43`). `SpawnFails` in `UpdateCheck` shows it.
* `ipc.rs:218`: a watcher given up as too slow may be left waiting, connected and
  out of date, instead of being disconnected (`docs/ARCHITECTURE.md:35`): it
  empties its channel and waits again before `alive` is cleared. `Feed` allows it.
* `ipc.rs:248`: a client thread that cannot be created keeps its place of the
  sixteen, for only the thread lowers the count (`ipc.rs:254`). `SpawnFails` in
  `Ipc` shows it.
* `gui.rs:902`: a connect before the first configuration was read sends the
  preferences of controls that were never filled.
* `gui.rs:1153`: the configuration asked for by a new subscription replaces the
  account under a connect in flight, and the user's draft.
* `gui.rs:1211`: a connect that finds the queue full restores, when its box is
  closed, the configuration of before, also over one that arrived meanwhile.
* `gui.rs:1633`: the failure to start the service is shown over a subscription
  that is up (`unstarted`, see above).
* `gui.rs:175`: a reply that the full event queue drops leaves the account locked
  (`lost` in `Window`; the code's 32 places make it unlikely).
* `gui.rs:1138`: the request after a failed connect is answered under the id of a
  preference change, and clears the pending mark of one made meanwhile.
* `gui.rs:1238`: the command that changes the icon's style applies the stored
  snapshot again, and with it marks the subscription as connected.
* `notify.rs`: a state file that cannot be written makes the release be announced
  with every snapshot (`told` is counted for announcements that were noted).
* The lock on Unix is per data directory; the model has one.
* `bpf.rs`: a frame longer than the filter's 2048 bytes ends the capture.

## Proofs

All are for every value of the constants that the modules' assumptions allow.

**Engine.** `EngineProof` proves `TypeOK`: one lemma per method says that from a
typed engine it leaves typed ones, one step per action carries them to the
specification. It then proves `Spec => []IInv` and from it
`ManualStaysOff`, `SuspendedIsQuiet`, `NeverStuckAuthenticating`,
`OnlineIsSettled`, `SessionIsCurrent` and `NoRetryUnasked` (with automatic
authentication off no retry is pending). None of these is
inductive: between two of its steps, and in the middle of a tick, the engine is
in states they do not describe, and a queued callback may change it later.
`IInv` (in `EngineInvariant`) therefore says of the engine that its parts fit
together (`Shape`: what a session, a probe and a timer imply of each other;
`Settled`: what must be gone online, suspended, or after a disconnect;
`SpillPast`: a spill is never of the future), and of every queued or taken
callback that it is of no later generation and was possible when it was queued
(`Fresh`). Each method has a lemma that it keeps this and never goes back in
generations (`Later`), so that callbacks stay fresh.

Four action properties follow: `PeerIsPinned`, `OnlineByOwnProbe`, `SessionKept`
and `BackoffIsKept`. Every method but three is a `Move`: it keeps the peer or
drops it, never enters Authenticated, keeps capture and probe or begins a new
generation, and shortens the wait only for a reason. Moves compose, so this is
shown of each method from the methods it calls. The three others are the frame
that is answered, the success that starts the probe (`Exchanged`), and the
probe's answer, for which `IInv` is not enough: `SInv` adds that an answer of the
current generation is the probe's own and that there is one at most, in the queue
or being handled (`AnswersOnce`).

`OpenedOnlyIfWanted` is proved from `WInv`, which adds two things. A capture, a
probe, a timer of the handshake and a probe's answer of the current generation
wherever it is each belong to an attempt that is shown (`Fit`). And adapters are
listed to fall back on only if the configuration is complete, for as long as the
attempt is shown or a word of its capture is spilled, queued or taken (`Told`,
`Word`). A method then either leaves the attempt as it is or
begins a later generation (`Goes`); what begins is allowed by the configuration
(`Runs`) or takes the place of an attempt that was authenticating (`Follows`). That
a configuration with the same account and adapter choice is as complete as the one
it replaces (`CompleteAssumption`) is needed, as `apply_config()` then keeps the
attempt; `validate_auth()` looks at nothing else that may change.

**ConfigReload.** `ConfigSafetyProof` proves `TypeOK`, `AckedSurvives`,
`VersionIsRead` and, as an action property, `OthersBreakIt`: no step of the
program makes the file a part of a configuration. The invariant adds what each
step of the thread holds (`Step`), that versions never pass the clock and a
temporary file is newer than what was looked at (`Stamps`), that what is about
to be applied is the content of the version it will be recorded under
(`Reads`), and that whatever has a name was synced (`Synced`).

**Host.** `HostProof` proves all four invariants of the run for any number of
processes and adapters. `OneCapture` rests on who may do what without the lock:
only its holder is past `instance_lock()` (`Holding`), only a running engine has
a capture (`Capturing`), and the direct command is between its first and last
step only while it holds the lock (`Commanding`). `OwnProbeOnly` is about
messages, so the invariant follows each thread of the command: it is alive only
while its adapter is tried (`Joined`), none exists for an adapter to come
(`Unspawned`), a check is started by a success (`Checked`), and its answer is
sent once, as the last thing it does (`Sending`, `Sent`); the answer that was
believed has therefore left the check of the adapter in use (`Confirmed`).
`InterruptIsPrompt` and `EndpointIsFree` need `Heeded` and `Answering`.

**Ipc.** `IpcProof` proves `PlacesKept` without assumption: no more clients are
served than `active` counts, and an instance of the Windows pipe is left for the
listener. That the count is exact (`ActiveIsServed`) is proved under
`~SpawnFails`, and false without it: a client thread that cannot be created keeps
its place (see the findings). Either follows from what each thread of a
connection holds (`Counted`, `Queued`, `Visiting`). The refinement is proved in
its safety: `Spec => Promise!Shows`, where a step of a client's threads maps to a
step of its watcher or to none. The invariant behind it (`Watched`) says that
what a watcher was shown, what waits in its channel and what the engine has still
to send are the snapshots in their order. That the newest is shown in the end
(`Follows`) stays with the run.

**NotificationAgent.** `AgentProof` proves `ConnectIsAnswered`,
`ReleaseIsToldOnce` and the action property `WarningIsFollowedUp`, with `TypeOK`,
for queues of any length. The window thread compares numbers it hears with
numbers it kept, through two queues of which one drops its oldest entries: this
works because what waits rises (`Rising`) and because the last that waits, or
else what was seen, is the newest request (`Newest`). A request that is owed an
answer is then either in the record or still to be heard of (`Owed`); a release
is announced only while the file names an older one (`Announced`); and an outage
that was warned of is of a connection that is not up and has lasted (`Sound`).
`RequestKept` and `WarningAnswered` are the lemmas about `Observe`.

**Captures.** On macOS `CapturesProof` proves `FramesInOrder` and
`FailsOnCutFrame` for any lengths of headers and frames and any division into
reads: records never overlap (`Stream`, `Consecutive`), the buffer and the kernel
hold neighbours among all that arrived (`Neighbours`), and the offset is where
the first record begins that was not handed out (`Position`); the lemma `Room`
turns this into bytes. On Windows it proves `RequestsAreJoined`: a
request under way is marked and its function still waits for it (`Marks`), and
the owner has joined the reader and ended its own requests before it closes the
device (`Order`). A step of one system leaves the state of the other alone.

**Window.** `WindowProof` proves `LockedForAReason`, `ShowsNewestInOrder` and the
action property `ChoiceKept`, with `TypeOK`, for any capacities and any depth of
boxes. `LockedForAReason` follows each request from the queue of the control
thread through the queue of events into the batches; at most one connect is
anywhere (`OneConnect`), so that the failure that gives the account back leaves
no other under way, and none at all while the box of a refused one is open
(`OneRefusal`). For the newest snapshot, `NewestFollows` says where it is:
unread, in the queue of events, in a call, or shown. It is never pushed out of
the queue: only replies can follow it there, of which there are no more than
requests (`Unanswered`), and the queue has more places than that. In a call it is
followed by older news only if those are known to be overtaken (`Ordered`), and
they are then shown as `late`. A failed start is no news: it may come behind the
newest snapshot, and is then shown as `unstarted`. `ChoiceKept` is a fact about `Refreshed`.

**UpdateCheck.** `UpdateProof` proves `ReleaseIsKept` and the action property
`BackoffHolds`, with `TypeOK`, for any number of releases, any mirrors and any
delays. That a release is announced once holds because only what is on offer was
announced, and what replaces it is not older (`Announced`); the back-off holds
because the engine's deadline is never before the time in its cache (`Waits`).
That checks go on for ever (`AutoHappens`) stays with the run.

Each of these inductive invariants was first checked by TLC as an invariant of
the module's run.

Only model-checked:

* liveness (`AttemptEnds`, `LatchesAreServed`, `Ends`, `StopEndsReader`,
  `OutageIsToldOf`, `Follows` of `Feed`, ...): fairness and `ENABLED` are beyond
  the prover.

## Plan

All planned modules and proofs are written. What is left is an abstract
specification of what a client sees of the engine, and `Engine` shown to implement
it.

## Not modelled

System calls, adapter enumeration, wire formats beyond what the engine decides
on, MD5 and GBK, HTTPS, windowing, drawing, theme and layout, the comparison with
the native EAP settings (`native_eap.rs`), the text of the diagnostics log, the
macOS application, packaging, installers and release scripts. `--console` of the
service. On Windows, a process that has reported STOPPED but has not ended yet
keeps the pipe, so that a start in that moment fails (`Service` has it;
`EndpointIsFree` is about Unix). Wall-clock jumps. Wrap-around of the 64-bit
generation.
