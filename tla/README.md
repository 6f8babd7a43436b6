# TurtleTap: a verification project

TurtleTap keeps interactive shell sessions in a resident leader process. Terminals
connect to it over a local socket, attach to sessions, drive them, and reconnect when
they or the leader die. This directory holds TLA+ models of that system, the TLC runs
that check them on small instances, and proofs that TLAPS checks for every instance.

    tlc -workers 2 -config MCLeaderCore.cfg MCLeaderCore      # a run
    tlapm HostLog_proofs.tla                                  # the proofs of a module

`PROJECT.json` lists the runs, which source lines each definition models, the hazards of
the code with the properties that cover them, and the mutants: for each property of a
passing run, a plausible bug in the code that makes TLC find the property violated.

## 1. Inventory

### The parts of the system and the state they keep

| Part | Code | State | Operations | Modelled by |
|---|---|---|---|---|
| Leader core | `src/resident/core.rs` | connected clients, sessions, name index, subscribers, driver and lease epoch, sequence, window of committed requests | connect, disconnect, create, rename, remove, attach, detach, release, authorize, commit, publish, restore, replay | `LeaderCore`, `DriverLease` |
| Host: durability | `src/resident/host.rs`, `journal.rs` | application sessions, a directory each: `manifest.json`, `checkpoint.json`, `journal-v2.log` | create, rename, stop, command, poll, shutdown, load | `HostLog` |
| Host: effects | `host.rs`, `application.rs` | pending effects, ready queue, the active effect of each session | request, schedule, dispatch, complete, time out, cancel, stop, recover | `HostEffects` |
| Host: event delivery | `host.rs` | one bounded outbound queue per connection | record and broadcast, replay or snapshot, disconnect of a full queue | `Delivery`, `EventFeed` |
| Wake and cancellation | `application.rs`, `host.rs`, `cli/src/command.rs` | a flag and a waker slot | wake, cancel, wait | `EffectWake` |
| Client | `client.rs`, `blocking.rs`, `cli/src/async_client.rs` | cursor, driver seen, pending messages, envelope in flight | exchange, receive, acknowledge, reconnect | `Delivery`; the pump's queues also in `Remote`, `Dashboard` |
| Election | `election.rs`, `supervisor.rs` | two lock files, the socket | start, probe, replace an older leader, stop | `Election` |
| Protocol, framing | `protocol.rs`, `framing.rs` | none | negotiate, encode, decode | the messages, not their bytes |
| Command worker | `cli/src/worker.rs` | current command, its record, the spool of its output, subscribers | start, release the gate, record, report, prune, interrupt, stop, recover | `CommandWorker`; what it serves and refuses also in `ShellSession` |
| Command surface | `cli/src/command.rs`, `app.rs` | the FIFO of commands, the running command, the transcript | submit, launch, outcome, cancel, recover, scroll | `ShellSession`, `CommandWorker`, `Remote` |
| Shell, surfaces | `shell.rs`, `surface.rs`, `runtime.rs`, `binding.rs` | surfaces, focus, palette and help, armed key | input, draw, tick, switch, background work | `Shell` |
| Rendering | `render.rs`, `terminal.rs`, `theme.rs`, `termosaic.rs` | frames | draw | no: drawing only |
| Remote screen | `cli/src/remote.rs` | role, takeover question, transcript, scrollback | submit, take, release, detach, scroll, reconnect | `Remote` |
| Dashboard | `cli/src/overview.rs` | list, filter, selection, mode, operations that wait, sessions that open | open, take over, create, rename, delete, refresh | `Dashboard` |
| Settings | `cli/src/settings`, `keybindings.rs` | `config.kdl`, `config.toml`, `.active-format` | locate, load, save a binding, reload, `config init` | `Settings` |
| Command line | `cli/src/main.rs`, `args.rs`, `commands.rs`, `client.rs` | none of its own | commands over the client | start and stop in `Election`, the bare command in `Dashboard` |

(Paths that begin with `cli/` are under `src/`, the others under `src/src/` or
`src/src/resident/`.)

### How they interact

One task of the leader owns all of `HostState` and handles one `Incoming` at a time:
a connection, a message, a disconnection, the completion or timeout of an effect, a
wake of a session, a tick, or a failure of the listener. So handlers do not interleave;
what interleaves is *their order*, the outbound queues, the effects that run as tasks of
their own, the clients, several leader processes on one directory, and the death of a
process between two writes. A command travels: client envelope → `authorize` → the
application's pure `handle` → `commit` in memory → one record in the journal → reply and
broadcast → effects. An application event is durable before it is sent.

### What is hard, and what makes each part correct

- **Lease fencing.** A takeover or a disconnection must invalidate whatever the former
  driver still has in flight. Correct: every applied command bears the current driver and
  epoch; an epoch has one writer; a driver always has an attached connection.
- **At-most-once commands over retries.** A client that lost the answer resends the same
  request identity, perhaps to the next leader. Correct: it is answered with its first
  sequence and not applied again for as long as the window remembers it.
- **Durability.** Journal, manifest and checkpoint are separate files. Correct: at any
  point a new leader would load exactly what the clients were told.
- **Effects.** Bounded concurrency, timeouts racing completions, at-most-once and
  at-least-once delivery over crashes.
- **Delivery.** Each client sees every event after its cursor once and in order, and ends
  with the driver the core has, although a full queue disconnects it.
- **Election.** One leader per directory, also while an old one is replaced.
- **Worker.** A command is recorded before it may run, and runs once, over deaths of the
  worker between any two writes; none survives the stop of its session; what is reported of
  its end is true, and no output is missed without notice.
- **Command FIFO.** The queue shown is the queue run; an outcome removes its own entry.
- **Shell.** Several surfaces answer one event, each with an action that moves the others.
  One surface has the focus, and nobody's background work starves.
- **Screens.** What a screen believes (its role, the question it asks, the list it shows) is
  older than what the leader knows. A takeover must be of what was asked about, one session
  must not get two screens, and both come to agree with the leader.
- **Settings.** Two files and a marker, written by several processes and the user: what the
  program writes must load, and what is on disk must come to be used.

`PROJECT.json` lists these as hazards, at the lines where they bite.

## 2. Plan

Most important first; what is done is here.

1. `DriverLease`: the abstract lease. `LeaderCore`: the control plane, shown to implement
   it (*done*; its proofs are in `HostLog_proofs`).
2. `HostLog` and `HostLog_proofs`: `LeaderCore` composed with disk, journal and restarts
   (*done*).
3. `HostEffects` and `HostEffects_proofs` (*done*, the safety properties; that every effect
   comes to an outcome stays with TLC).
4. `ShellSession` and `ShellSession_proofs`: the FIFO of commands, their launch by effects,
   the worker's answer to a repeated request (*done*).
5. `EventFeed`: what a viewer of a session is promised. `Delivery`: outbound queues, nested
   broadcasts, cursors, reconnection and new leaders, shown to implement it; `Delivery_proofs` and
   `DeliveryOnce_proofs` (*done*). It took over what was planned as `FencedLease`: a lease believed in under one leader
   and used under the next.
6. `CommandWorker` and `CommandWorker_proofs`: gate, record, spool, recovery (*done*).
7. `Election` and `Election_proofs`: locks, socket, probe and replacement by several processes
   (*done*).
8. The client's screens: `Shell`, `Dashboard`, `Remote`, `Settings`, with `Dashboard_proofs` (about
   `Remote` and `Settings` too) (*done*).
9. `EffectWake`: the coalesced wake and the waker slot of a cancellation (*done*; its proofs are in
   `HostEffects_proofs`).
10. *Left*: the negotiation of a protocol version as a pure operator; a journal whose lines are
   bytes; a proof of `FocusIsShown` of the shell and of `PlaceKept` of the remote screen.

Every module keeps the assumptions on its constants beside them, has one action per
operation, and no `RECURSIVE` operator, so that it can be proved about.

## 3. The modules

### `DriverLease`

What a session's driver lease promises, without connections, names or disk: at most one
holder, every grant opens a new epoch, and each write bears the current holder and epoch.
`Fenced` says what follows: once a session has been written under an epoch, nothing of an
older epoch is written after it, and an epoch has a single writer.

### `LeaderCore`

`core.rs`, one action per method of `LeaderCore` that changes its state. The variables
are its maps: `instance` and `attached` are the two fields of `clients[c]`; `live`,
`name`, `subscribers`, `driver`, `leaseEpoch`, `sequence`, `committed`, `commitOrder` are
`sessions[s]`; `names` is the index. `issued` keeps session identities from being reused
(`SessionId::new()` is random). `applied` is a history variable: the commands applied to a
session, with the lease each bore. A rejected call changes nothing, so its error paths are
guards. `disconnect` is one action with its loop over the attached sessions, since the
method runs without interruption; so are `attach` with its optional lease and
`Command`, which is `authorize` and `commit` as `HostState::command` calls them with a
reducer that emits `n` events.

Data: a display name is a member of `RawNames`, and `Normal` gives what trimming makes of
it (`NoName`: an error). A request is an identity with the client that numbered it.

### `HostLog`

`host.rs` over `journal.rs`, extending `LeaderCore` with `domain` (the application
session: the events reduced into it), the three files of each session, and `up`. A leader
that is down has no connections; `Restart` is `HostState::load`: base from the checkpoint,
under a new epoch, or from the manifest, then the records the checkpoint does not cover,
then both files written back. `CoreReplay` and `ReplayRecord` are the replay code, which
is not the code of `commit`: that they agree is what the runs check.

Handlers with several disk writes (`HostCreate`, `HostRename`, `HostStop`, `Shutdown`,
`Restart`) have a companion that cuts them short between writes (`CutCreate`, `CutRename`,
`CutStop`, the subset given to `Shutdown`, `CutRestart`). Each file is replaced by rename,
so it is old or new; `CutRestart` comes between the manifest and the checkpoint of a session, too. A death within an append leaves a torn line, which `load` ignores and
the next writer truncates: `Crash` stands for it. In `FaultySpec` the disk may also refuse
an append (`HostCommandFails`): the commit in memory stays, as in the code.

### `HostEffects`

The effects a transition requests: `pending`, `attempts`, `active` and `ready` are
`pending_effects`, `PendingEffect.attempts`, `active_effect` and `ready_effects` (the set
beside it is its range). `running`, `cancelled` and `timers` are the tasks the host spawns,
`completions` the messages they send. `Dispatch` is the loop of `dispatch_effects` with
`dispatch_one_effect`: it takes the first `Width` sessions that wait, since a slot it fills
stays filled until another handler frees it. `Resolve` is `complete_effect`, its
transition and the poll after it; the effects of that poll join the batch, which the loop
cannot tell apart: a session that has effects already waits for, or holds, its slot.

The disk is what the next leader would replay: a record is replayed when it is appended
(`Replayed`, `Attempted`), which is sound because replay is a left fold and `HostLog` checks
that checkpoints leave out no record and repeat none. A leader dies between handlers (`Die`,
which may have checkpointed some sessions, as a shutdown does) or after `n` of the
dispatches of a handler (`CutTransition`, `CutCompleted`, `CutTimedOut`, `CutRestart`).
`RefusedTransition` is a command whose `n`-th attempt record the disk refuses: the attempt
is counted in memory, the session has left the queue, the error goes to the client and the
leader goes on. `StopFails` is `stop_session` that fails after it has cancelled what runs: the session
keeps its effects and its slot, which it still holds until the cancelled effect answers or its deadline passes. `started`, `outcomes`, `requested`, `refused` and `faults` are history.

### `EffectWake`

One attempt of an effect that runs a command, below the grain of `HostEffects`. `queued` is the bit
of `EffectWakeState`, `channel` and `forwarder` are what `session_wake` makes, `mailbox` is what
`HostState::run` receives; `reader[r]` are the threads of `running_from_worker` and `spawn_reader`, each
between two of its accesses. A wake is one token: `Notify` makes it, `TrySend`, `Forward` and `Deliver`
pass it on, `HandleReady` clears the flag and *then* polls, line by line (`TakeLine`), so that a line may
arrive between any two of these. `Complete` drops the `Sender` and then notifies, `Break` does it the other way
round, as the code does. `cancelled` and `waker` are `CancellationState`; `Cancels` and `WakeWaiter` are
the two halves of `cancel`, with polls of the future between them. `displaced` is history: who is left
without a waker because another future registered after it. Left out: the exit of a process
that the host runs itself, which no wake tells (`try_wait` at the next tick).

### `ShellSession`

What the two durable parties of a shell session make of a command: the surface
(`command.rs`, `app.rs`), which is journaled with the leader's transitions, and the worker
(`worker.rs`), which outlives leaders. A command is known by its *ticket*, its place among
the submissions. The code compares *texts*, and so does `SameText`: two tickets may have one.

`surface` has the fields of `CommandSurface` that decide anything; `effects` are the effects
of the session that wait or execute, as the requests they will write; `launching` is the
result of the one that executes; `worker` is the stored state of the worker. `orphans` are
requests that were written to a worker by a connection that has since been dropped: the
worker still serves them, and nobody reads the answer. `env` stands for what is sent with
the text (environment, aliases, directory): it changes when a builtin runs.

Every transition ends in `start_next_external` and `resident_effects`; `StartNext(u, k)` and
`ResidentEffects(u, k)` are those, for a surface `u` with `k` builtins in front of its queue,
and `Apply` is the end of each handler. `EffectCompleted` is `effect_completed`, this end,
and the poll that the host makes after it, with its own end. `ReplaceLeader` keeps what is
journaled and loses the stream and the effect that executes, which runs again. `Serve` is
`serve_run`: refuse, subscribe to the command that runs, or run.

Left out: the `Prepare` effect, interrupts (a command ends, by itself or not), the change
of directory by a client (the CLI asks for it at creation only), the surface of one command
(`one-shot`), output and transcript, and how the worker carries a command out.

### `EventFeed` and `Delivery`

`EventFeed` is the promise: each viewer of a session shows the events so far up to some point,
none missing, repeated or out of order, and never goes back. `Delivery` is what keeps it, for
one session: `host.rs` (outbound queues, `record_and_broadcast`, `replay_or_snapshot`,
`disconnect`), `client.rs` (exchange, cursor, acknowledgement, pending queue), `blocking.rs`, and
the pump of `cli/src/async_client.rs`.

`host` is the part of `HostState` that matters, with a log in place of the domain; its handlers
are functions of a host (`HandleAttach`, `HandleCommand`, ...), for one message is handled without
interruption. `Send` to a full queue disconnects its client, which may release a lease, which
broadcasts, which may find another full queue: `Notify`, `Disconnect` and `Send` are that recursion. It is
two deep, for a lease is released once: what `Notify` closes holds none, and then the order in which
subscribers are told makes no difference. Elsewhere a set of subscribers is iterated
in an arbitrary order, the parameter `order`. `inbox[c]` holds the requests of a connection in
their order and its end; `cut` the connections that broke. A connection that broke still has
requests the leader will handle: that is how a retry meets its original. What it is sent after the break
is lost with what it had not read, and the client must not read on (`HasArrived`).

`client[i].phase` is where a client is in its code: it waits for an attachment or an answer,
is ready, has lost its connection, or failed. `ReadPush`, `ReadAnswer`, `ReadAttached`, `Consume`,
`Lost`, `Reconnect`, `TimeOut` are what it can meet there. `ReplaceLeader` loses connections,
queues and the lease, and keeps the log with the committed requests (what `HostLog` shows). The
lease epoch is not in the journal: it comes from the checkpoint, which may be older than the
last grant, so the new leader may grant an epoch again (`saved`; `forgot` is the history that it may).
`applied`, `refused` and `fenced` are history: commands applied, reported as refused, and under way when
their lease was taken over.

### `CommandWorker`

The process that runs the commands of one session, one at a time (`cli/src/worker.rs`), and the
leader's side of the running one (`RunningCommand`, `cli/src/command.rs`). `disk` is `StoredState`, with
the highest identity run, the command, its status, process group and sequence; `worker.memory` is
what the process holds of it, which differs after a failed write. `worker.thread` is how far
`dispatch_command` is: stored, spawned behind its gate, recorded with its group, released. `child`
are process groups; one passes its gate (`Execute`) when the file exists, or gives up when its worker is gone.
A step is what a thread does under the worker's lock; `CutAccept`, `CutMonitor`, `CutStart` (of a worker
that recovers) and `Crash` are deaths between the writes of one step; `AcceptFails`, `SpawnFails`, `DispatchFails`,
`CollectFails` and `MonitorFails` the failed ones. A monitor whose last write fails ignores it: the record
still says that the command runs, and a leader that was not told of its end waits until another worker recovers. The spool keeps the last `SpoolCapacity` lines; a subscriber whose
queue is full is dropped, asks again after its last sequence, and is told of what was pruned
(`Gap`). `Stop` to `CleanUp` are `stop_session`: ask, wait, kill the worker, kill the group on record.

### `Election`

How one leader comes to serve a socket: `ensure_leader`, `replace_leader` and `stop` of
`supervisor.rs`, `election.rs`, and `ResidentHost::serve`. The socket is a name: `socket` is the
leader that bound it, dead or alive, and `RemoveSocket` and `CleanUp` remove whatever is bound.
`lock` and `startLock` go with the process that holds them (`LeaderDies`, `ClientDies`). A client is at one
line of its procedure (`client[c].at`); a leader goes through bind, lock, load, serve, stop.
`orphaned` records the one event in which the procedure leaves a leader that has not bound yet
to itself, its starter having timed out or died: it may take the name later than another.

### `Shell`

`Shell` of `shell.rs` with the loops `attach` and `attach_async`. `shell` is the struct; every method
that changes it is a function of it, so that what one event does (several surfaces answer, each
answer closes, opens or focuses) is their composition, in the code's order (`DispatchToAll`). A
surface may answer anything, so nothing is assumed of it; `asked` is the surface of which an
answer is awaited and `Answer` gives it. `behind` compares what the last frame showed (`View`) with what is so, which is what
the bookkeeping of `dirty` must get right. `Highlighted` is the entry of the palette that is drawn: the selected
index, or the last entry when there are fewer by now. `WrapIndex` is `wrapping_add_signed` and `%` of the word size.

### `Dashboard`

`SessionDashboard` of `overview.rs`, the pump it gives operations to, the tasks that attach
screens, and the shell that shows them. Keys are taken as the handlers take them, one definition
per mode (`BrowseKey`, `TextKeys`, `ConfirmKey`); `pending` maps identities of requests to their
operations; `opening`, `tasks`, `opened` and `registry` are the four stations of an
attachment. `OthersAct` is every other client: it creates, renames, drives and deletes. `inputs`
bounds keys, failures and acts of others together.

### `Remote`

`RemoteSurface` of `remote.rs` and its attachment: the lease it believes in, the takeover question,
the commands it queues, and the transcript with its scrollback (`command.rs`: what a line or a
snapshot does to it; the bound `MAX_TRANSCRIPT_LINES`). `fromBottom` is the distance of the window from the end, as in the
code, so that every line that arrives must move it. The leader's part is small (`session`): what
`LeaderCore` and `Delivery` say of it. `Carried` is what the leader does with a request,
`TryAgain`, `GiveUp`, `Rejoin` and `StopPump` are the reconnection of the pump.

### `Settings`

The two configuration files, `.active-format`, and who uses them: shells with a dashboard that
reload what they see changed, the binding editor inside one and alone, `config init`, and the user. A
file sets the keys of some actions, or is torn; what it leaves out has its default (`Resolved`). `process[p].at` is the point
between two file operations where a process stands; a crash may come there. `slipped` marks that
what was loaded or saved is not of the file that was stamped, `refused` that a change was seen
whose file did not load.

## 4. The runs

| Run | Distinct states | Instance | Checks |
|---|---|---|---|
| `leader_core` | 275,942 | 3 connections, 2 clients, 2 sessions, 4 raw names (one padded, one invalid), 3 requests, window 1 | types (`TypeOK`); no lease without an attached connection of its driver; fencing; a request is applied again only after `Window` others; `LeaderCore` implements `DriverLease` |
| `host_log` | 41,374 | one session that is written (1 client, 3 requests, window 2, 0 to 2 events a command), or two sessions under 3 names and an invalid one | the next leader would load what this one has in memory; retries are answered alike; the window survives restarts; no two directories would load under one name and the index agrees |
| `host_effects` | 71,081 | 2 sessions, 1 slot, 3 effects: at most once with a deadline, at least once without, at least once with; 2 leaders that die, appends or stops that fail | at-most-once effects start once; an effect is on disk from request to one honest outcome; the limit holds and no session is stranded; what runs without a slot is cancelled; every effect comes to an outcome |
| `shell_session` | 41,121 | a command and a builtin, 2 submissions, 2 faults | a command is started once, in the order of submission; one identity is asked for in one way; the queue drains |
| `delivery` | 611,175 | a pump that asks for the lease and a blocking client that takes it, queues of 3 messages, 1 retained event, 2 pending messages, 3 connections, 2 operations or faults | a lease a settled pump believes in is held; a repeated command is applied once and a refused one never; a pump catches up; `Delivery` implements `EventFeed` |
| `command_worker` | 621,266 | 2 commands, 2 lines of output, a subscriber's queue and a spool of 1, 2 faults | a command runs once; what runs is on record and none runs after the stop; no output is missed without notice; reported ends are true; every command is seen to end |
| `election` | 35,496 | a client with an old and one with a new binary, one that stops the leader, 4 leaders, 2 faults | one leader has the state directory; the one that serves has the socket, and no client is served by an older one; undisturbed clients are served |
| `shell` | 96,085 | the async loop with coalesced frames, 3 surfaces, one with a key, one followed for background work | exactly the active surface has the focus, and the screen shows it; closing others keeps it; background work is served |
| `dashboard` | 167,150 | 2 sessions, 2 names, queues of 1, 3 inputs | one screen per session and no reply without its operation; a takeover is of the session asked about; attachments, list and selection settle |
| `remote` | 269,811 | 2 lines, transcript of 3, windows of 1 and 2, queue and reconnections of 1, 3 inputs | the takeover question never stands on a driving screen; output does not move what is read; role and end reach the screen |
| `settings` | 194,180 | a dashboard with its editor, an editor alone, 2 actions, 3 keys, 4 inputs | what the program wrote resolves; a dashboard comes to use what the files hold |
| `shell_dropped` | | as `shell_session`, no faults | *violation*: a queued command leaves the queue and is never run (section 6) |

Some properties are conjunctions of named parts: `NamesAreDistinct` (of directories, and of the
index), `EffectsAccountedFor` = `EffectsAreDurable /\ OutcomesAreHonest`, `SlotsAgree` =
`NothingStranded /\ WithinLimit`, `OneOfEach` = `ScreensAgree /\ PendingIsOnItsWay`,
`DashboardSettles` and `ScreenCatchesUp`. The type invariants of the other modules (`HostTypeOK`,
`EffectsTypeOK`, `ShellTypeOK`, `DeliveryTypeOK`, `WorkerTypeOK`, `ElectionTypeOK`, `DashboardTypeOK`,
`RemoteTypeOK`) hold on the same instances and are in no cfg: they say little beside the rest.

**Bounds.** A bound that is no constant of the code is named so where it is declared, and is a
guard of the actions that would pass it.

- `leader_core`: `MaxEpoch` and `MaxSequence` allow two grants of a session (a claim and a
  takeover, or a claim after a release) with commands before and after. Two connections of one
  client and one of another are what `disconnect` distinguishes; two sessions are what a rename
  needs to collide.
- `host_log`: four events allow two commands with a poll between, or three commands over a
  window of two, so that the window expires a request; three epochs allow two restarts.
  `MCKept` keeps one written session until its removal, or any number of sessions that are
  only created, renamed and stopped: disk and index of a session do not depend on what is
  written in another.
- `host_effects`: with one slot for two sessions every dispatch has a loser, two effects of one
  session have an order to keep, and two faults let a leader die while it recovers from the
  death of another.
- `shell_session`: two submissions have an order and may be equal in text; two faults let a
  launch fail when the leader that asked has been replaced. `CommandsRunInOrder` and `RequestsAgree`
  are proved for every number of both.
- `delivery`: a queue of three fits an attachment's answer with one event and no more, so that
  it overflows in the middle of one; one retained event makes replay and snapshot both
  happen; three connections are one each and a reconnection, and two operations or faults a
  command with its loss, a takeover with a break, or two new leaders.
- `command_worker`: two lines for a spool and a queue of one prune and drop; the second command
  is what the first must not be taken for; two faults let a worker die while it recovers.
- `election`: four leaders are the first, one that replaces it, and two started at once.
- `shell`: three surfaces have neighbours on both sides. A word size of 16 has the same
  remainders as 2^64 by all numbers that occur.
- `dashboard`, `remote`, `settings`: the inputs bound keys, failures and acts of others
  together. Three let another client act, the connection fail and a key be pressed in any order;
  four let two editors capture and save.

Symmetry: connections in `leader_core`; requests, sessions and names in `host_log`; none where
liveness is checked.

**Deadlock** is checked in the runs over `ShellSession`. Elsewhere the bounds stop the
models: there are no more identities, epochs, inputs or faults.

**Fairness** is weak, and strong where named, of the program's own steps. Of clients, other
users and faults nothing is assumed.

- `HostEffects`: the actor handles the messages in its mailbox (one loop over a channel), a
  deadline passes and its message is handled (the timer task sleeps and sends), an effect
  without a deadline returns (an application that gives none takes that on itself), and a client
  starts a leader when there is none (`ensure_leader`). `BusySpec` adds that some session has a
  transition now and then, a command or a poll with output; section 6 says why that is needed. A
  refused append or a stopped session is an exit of the property.
- `ShellSession`: the actor polls (its interval ticks every 10 ms) and handles completions, the
  first effect executes, the worker serves a connection whose stream is read, a command ends, and its
  last event arrives. That commands end is the user's part.
- `Delivery`: each client's task goes on (`Proceed`), and the leader handles what has arrived.
  Nothing is assumed of time limits.
- `CommandWorker`: the threads of a worker that is up, the commands, the reader of the stream, and
  that a leader which waits for a worker starts one (the effect does).
- `Election`: a live leader and a client in its procedure go on. Strong fairness of taking the
  start lock: clients poll for it, and the one that has it always gives it up.
- `Shell`: the loop draws, and the surface that was asked answers. Strong fairness of `Background`: `select!` chooses at
  random among the branches that are ready, and a key may take the turn any number of times.
- `Dashboard`, `Remote`: the shell ticks and polls its surfaces, the pump serves its queue and
  gives up after its attempts, tasks are run.
- `Settings`: what a process has begun goes on; strong fairness of `Tick`, which a key may
  precede any number of times but not for ever.

## 5. What is proved

For every value of the constants that satisfies `CoreAssumption`:

- `LeaseFences` (in `HostLog_proofs`, as all of this list): the abstract lease implies `Fenced`. The inductive
  invariant adds that no write bears an epoch beyond the current one, and that the last
  epoch's writes are the holder's, if there is one.
- `TypeCorrect`, `SubscriptionsCorrect`, `NamesCorrect`, `NoOrphanLease`: `TypeOK`, `SubscriptionsAgree`, `NamesAgree`, `DriverIsAttached` by one
  inductive invariant `CoreInv`. They need each other: an orphan lease is excluded only if
  subscriptions agree, and names only if records outside `live` are empty.
- `WindowHoldsLast` and `RetriesApplyOnce`: the window is exactly the last `Window` commands,
  hence a request found outside of it is not among them.
- `RefinesLease`: the initial states and every step of `LeaderCore` map to `DriverLease`
  (`holder` is the driver's owner, `epoch` is `leaseEpoch`, `writes` the leases of `applied`).
  The step of a command needs `LeaseIsCurrent`: a held lease bears the latest epoch.
  `CommandsAreFenced` then follows from `LeaseFences`.

For every value of the constants that satisfies `CoreAssumption`, `HostAssumption` and
`CheckpointAssumption`:

- `CrashesLoseNothing`, `AnswersSurviveRestarts`, `RestartsApplyOnce`, `NamesStayDistinct`
  (`HostLog_proofs`): `MemoryIsDurable`, `RetriesAnswerAlike`, `OnceAcrossRestarts` and
  `NamesAreDistinct` of `HostSpec`, by `HostInv`. The four say something of a running leader or of
  what was answered; the invariant must say what the *disk* holds while nobody runs. `OnDisk`: what
  would be loaded of any session whose removal has not begun remembers exactly the last `Window`
  commands, with the answers they got. `InMemory`: that is also what a running leader remembers.
  `Identified`: checkpoint and manifest of a live session bear its name, so that a removal cut
  short, which may leave only the manifest, still leaves that name; `DiskNames`: the names on disk
  differ. `NeverIssued`: an identity that was never given out has nothing on disk.
- The lemmas those rest on are about loading, for journals of any length: a record appended to
  the journal is loaded after all earlier ones (`LoadAppend`), records that the checkpoint
  covers are skipped (`LoadCovered`), and a record's events replay to what `commit` had made of
  them (`ReplayEmitted`). `LoadJournal` and `ReplayRecord` are recursive functions over `0 .. n`; that such
  a function exists and equals another is shown by its least counterexample (`LeastNumber`,
  `CountUp`, from the well-foundedness of `<` on the naturals), not by an induction rule.

For every value of the constants that satisfies `EffectsAssumption`:

- `StartsAtMostOnce`: `RunsAtMostOnce`, by the invariant `Ledger`: the disk and the memory of
  a running leader count at least as many attempts of an effect as were started. It is what
  the order of `dispatch_one_effect` (count, append, start) gives, and it survives a death
  after any record because a checkpoint writes the attempts in memory.
- `EffectsAreAccountedFor`, `SlotsAlwaysAgree`, `OrphansCancelled`: `EffectsAccountedFor`, `SlotsAgree`
  and `OrphansAreCancelled`, by `HostInv`. Queues on disk are in the order of the requests, each
  without the effects that have an outcome (`OnDisk`, `Requests`): so a queue holds no effect twice,
  and the effect that completes is its head. `Tracked` relates tasks and slots: what runs
  was started and holds the slot of its session or was cancelled, what is answered does not run,
  and either holds the slot while it is in its queue. `Covered` is that no session with effects is forgotten.
- `EffectsStartInOrder`: the action property `StartsInOrder`, from the same invariant.
- `EffectsTypeCorrect` and `SlotsWithinLimit`: by `EffectsInv`, which adds to `Ledger` that a
  session that waits is hosted, idle, has effects and waits once, that a busy session runs
  the head of its queue, and that every effect in a queue belongs to its session. A step
  that loses one of these would let a slot be filled twice or by a session that is gone.

For every value of the constants that satisfies `ShellAssumption` and `NoStreamAssumption`:

- `RunsInOrder` and `AsksAlike`: `CommandsRunInOrder` and `RequestsAgree`, by `ShellInv`. All
  requests there are (that wait, execute, are read, are orphans, or are the worker's) are
  ordered: of two that differ, one has the smaller identity *and* the smaller ticket. What
  waits in the queue comes after all of them, except that the started command stays in the
  queue until its launch is known. The worker's high watermark is the identity of the last
  command it ran, so a request that passes `serve_run` comes after everything that was run.
  That an environment changes only when no command is started makes a request for the
  started command the same each time; a builtin that ran earlier would break it.

For every value of the constants that satisfies `WorkerAssumption` (of which the last two
theorems need that the spool holds a line at least):

- `CommandsRunOnce` and `NoneIsLeft`: `RunsOnce` and `StoppedForGood`, by `WorkerInv`. Neither
  is inductive. The record on disk covers every command that was ever spawned (its high
  watermark is not below their identities) and names the one process whose gate is open or
  which has passed it. Why that holds depends on how far the dispatching thread has come, so
  `ThreadKnows` says for each of its places what the record says: nothing may be open up to
  `spawned`, and from `recorded` on what is open is the process that was spawned last. The worker's
  memory is ahead of the disk when a write has failed; `WorkerKnows` says in which direction. Most
  steps are of one lemma, `QuietKeeps`: nothing is recorded, no process is added, no gate opens.
- `NothingIsMissed`: `NoSilentLoss`, by `TranscriptInv`. The spool is the last `m` lines of the `n`
  written, then errors and ends (`SpoolHolds`); while a thread works it is lines only. The stream of
  a client is `Unbroken`: the line before the one it comes to is read, is earlier in the stream, or
  is told to be gone by a gap; and what the thread writes next `Follows` the stream for as long as it is
  open, for a full queue closes it. `ReplayUnbroken` is what connects the two, for spools of any length: `Replayed`
  is a recursive function, and what it keeps (`Keeps`) is shown along its least counterexample.
- `EndsAreTrue`: `OutcomesAreTrue`, by `EndsInv`. `Truths` are the ends that may be told of each command.
  Every step is `Steady`: it does not change how a process ended, spawns none but for the command of
  a thread, and takes no command that was taken before. So what is a truth stays one (`TruthsStay`), and what
  remains is that spool, stream and surface tell truths only. "Failed" is one since `ThreadKnows` and `CodesInv` say
  that a process which is not yet released has not begun and is the only one of its command.

For every value of the constants that satisfies `ElectionAssumption`:

- `OneLeaderAtATime`: `OneLeader`, by `ElectionInv`: a leader between its two uses of the lock
  is the one the lock names. Clients change leaders too (they stop them, or kill the child of
  a probe that takes too long), and a kill must take the lock along.
- `LeaderReachable`: `Reachable`, by `ReachInv`, which says for each place of a client's procedure,
  while no leader was orphaned, what is bound to the name of the socket: to clean up, the name must be
  unbound or of a dead leader; to spawn, it is unbound and stays so but for the child; to probe, it is
  the child's or nobody's. The start lock makes these clauses be about one client at a time.

For every value of the constants that satisfies `SettingsAssumption` (in `Dashboard_proofs`):

- `WritesResolve`: `SavedResolves`, by `SettingsInv`: the text that a process carries from the
  check to the rename resolves, whatever becomes of the files in between. A process writes the
  whole text it has checked; were it to write only its binding, no invariant of one process would do.

For every value of the constants that satisfies `DashboardAssumption`:

- `SessionsHaveOneScreen`: `OneOfEach`, by `DashInv`. An attachment, or its result, is of a session in
  `opening`, there is one of each at most (`Opens`), and none is of a session that has a screen; a pending
  operation is in the queue or answered among the events, once (`OnItsWay`). Inductive only with what is
  said of a session that was just created: the reply to its creation is the first that is heard of it, before
  any list that names it (`Born`, `News`), so that opening it then cannot open it twice.
- `TakeoversAreAsked`: `TakesWhatWasAsked`: the identity is kept in the mode of the question, and the list
  moves the selection only.

For every value of the constants that satisfies `RemoteAssumption`:

- `QuestionsAreOfViewers` (in `Dashboard_proofs`): `QuestionIsOpen`. A key opens the question on a screen
  that views, and each of the three ways by which a screen becomes a driver closes it.

For every value of the constants that satisfies `DeliveryAssumption`:

- `FeedIsImplemented`: `ImplementsFeed`, the refinement of `EventFeed`, and with it `ViewsStayPrefixes`;
  `LeaseIsHeld`: `LeaseSeenIsHeld`. Both by `IInv`, which is about what is on its way. A pump and its
  unbroken connection are looked at together with its queue (`Seat` is what the leader knows of the connection,
  and what is queued for it), and `Reads` says what the pump will have seen when the queue is read to its
  end. `Carries`: each message is the next event, a snapshot or nothing new to a pump that is where the messages
  before it lead (`Moves`), from the pump's cursor on, and if the connection is subscribed, to the end
  of the log. `Told`: the last message that is sure to change what the pump believes of the lease agrees with
  the leader. `Boxed`: the request for an attachment is the first of a connection, and the only one. `Answered`:
  its answer is queued once at most, for a pump that waits for it. `Attended`: a pump that uses its connection is
  subscribed, or still believes in the lease it has lost with its place, which is what makes it reconnect. `Placed`
  keeps the connections of two clients apart, also those the clients have left. Broadcasts and the events of a
  transition are recursive functions; what their runs keep is shown for one connection at a time.
  A full queue in the middle of a replay or of the broadcast of a release is where a weaker invariant fails: what
  was queued before must still be true of the log and the lease though nothing follows it.
- `CommandsApplyOnce` (`DeliveryOnce_proofs`): `AppliedOnce`, by `IInv` and `AInv`. That no command is applied twice is the memory of
  the ids (`Remembered`); the other half, that a refused command never is applied, is what the rest of `AInv`
  is for. A command is resent on a new connection while its first copy is still queued on the old one, so a
  refusal of one copy has to bar every other. `Numbered` says that the copies of an operation are of its client
  and its kind, `Joined` and `Tried` that a resent copy follows an attachment, and `Renewed` that it carries the
  lease of the first one (a pump) or a later one (the blocking client, `blocking.rs:157`). `SentOnce` is what
  holds before anything was resent: one copy, not applied, not answered. A resent id that is refused is `Barred`:
  not applied, and neither a copy that is under way nor the pump's own next one has the lease that is held. It stays
  barred because a lease that is granted has an epoch that none before had (`Granteds`). That is what a new leader
  that forgets epochs breaks, and everything from `Granteds` on is stated, like the second half of `AppliedOnce`,
  for leaders that did not; section 6 has the run in which they do.

For every value of the constants of `EffectWake` (which need no assumption; in `HostEffects_proofs`):

- `FullNeverHappens`, `WakesArrive`, `EndsArrive`: `FullIsUnreachable`, `NoWakeLost`, and, if every stream
  ends with `Completed`, `NoEndLost`; by `WakeInv`: between the flag and the acknowledgement there is one
  wake at most, and while the actor is up the flag is set exactly when there is one. `NoWakeLost` speaks of
  the wake itself and not of the flag; `UnderWayStays` is the lemma that carries it through coalescing.
- `CancellationArrives`: `LastIsTold`, for any number of futures, by `SlotIsWaiter`: whoever still waits after the
  cancellation without having been woken was displaced from the slot by the registration of another
  future. One of them is never displaced, so somebody is told, also when it registers while the actor cancels; that
  the others are not is `MCWakeCancel` of section 6.

No run has these properties. `MCWake.cfg` lets TLC check them on two threads, two futures, a mailbox of two and two
lines (`tlc -config MCWake.cfg EffectWake`, 2,989,419 states); polling no more after a completion, or clearing the
flag after the poll instead of before it, breaks them there.

`SubscriptionsAgree`, `NamesAgree`, `WindowIsRecent`, `EffectsTypeOK`, `WithinLimit` and `StartsInOrder` are
proved and are therefore in no cfg, or only as a part of another property.

**Model-checked only.** The properties of `Shell`; `PlaceKept` of `Remote`; and every
liveness property, for the prover does not reason about fairness.

## 6. Where the code differs from what it says

One run expects a violation.

- `shell_dropped` (`cli/src/command.rs:1279`). `command_launched` takes the front of the queue if
  it has the *text* of the started command. A command that is asked for again before its first
  launch completes is no longer in the queue, so when an equal one waits there, that one is
  removed and never runs (`cli/README.md:12`: "Commands submitted while another command runs
  enter a FIFO queue").

The models show more divergences. Each of these configurations is no run of `PROJECT.json`; TLC
finds its property violated within seconds (`tlc -config <cfg> <module>`; `MCShellKeys` has two, and `-continue`
shows both).

| cfg, module, property | What the code does | What is said |
|---|---|---|
| `MCHostFaulty`, `MCHostLog`, `AcceptedIsJournaled` | `apply_transition` commits before `append_log` (`host.rs:854-909`): when the append fails, the error goes to the client and its retry is answered `Accepted` while no journal holds the command | `protocol.rs:366`: "A domain command was durably accepted." |
| `MCHostLoad`, `MCHostLog`, `NextLeaderLoads` | `load` fails for all sessions when one directory has neither checkpoint nor manifest (`host.rs:400-414`); creation and removal pass through such a directory, and a leader that dies there cannot be replaced | `src/README.md:52`: sessions survive "even replacement of the background resident itself" |
| `MCEffectsQuiet`, `MCHostEffects`, `RedrivenUntilComplete` | `stop_session` frees an effect slot and does not dispatch (`host.rs:1309-1315`); in a leader without other traffic a waiting session waits for ever | `application.rs:78`: an at-least-once effect "is redriven until it completes" |
| `MCEffectsOverlap`, `MCHostEffects`, `RunSequentially` | a deadline frees the slot at once (`host.rs:1123-1132`): the next effect of the session starts while the cancelled one may still run | `src/README.md:206`: "Effects run sequentially within a session" |
| `MCShellCancelled`, `MCShellSession`, `CancelledNeverRuns` | a started command stays in the queue until its launch is known (`command.rs:684`, 1294): `:cancel` takes it out, says so, and it runs | `src/README.md:59`: a queue "you can inspect and cancel" |
| `MCDeliveryFenced`, `MCDelivery`, `OldDriverIsFenced` (a minute) | lease epochs are in the checkpoint and not in the journal, and a checkpoint is written when a host starts and when a session is created or renamed (`core.rs:316`, `host.rs:924-927`): a leader that dies after a takeover is replaced by one that grants the epochs since then again. A pump that had a command under way, and attaches again with force, gets the number its command bears, resends it (`async_client.rs:349`), and `authorize` lets it pass, though another client has driven in between | `cli/README.md:42`: "Forced takeover increments the lease epoch; input buffered by the former driver cannot mutate the session afterward." As long as no leader forgets epochs, `AppliedOnce` says that it cannot |
| `MCDeliveryWedged`, `MCDelivery`, `NoneInFlightWhenReady` | a request of the blocking client that times out twice stays in flight after its reconnection, and bars every other (`blocking.rs:145-189`) | `blocking.rs`: a request whose "delivery becomes ambiguous" is resent |
| `MCSettingsAtomic`, `MCSettings`, `SavedAtomically` | `.active-format` is truncated and written in place (`settings/mod.rs:686`): who loads meanwhile fails | `cli/README.md:146`: a binding is saved atomically |
| `MCShellKeys`, `MCShell`, `PreviousCycles` | `wrap_index` adds to a `usize` modulo 2^64 before `%` (`shell.rs:1394`): with three surfaces, going back from the first leads to the first | `src/README.md`: "cycle surfaces" |
| `MCShellKeys`, `MCShell`, `EnterRunsHighlighted` | the palette draws its highlight on `selected.min(item_count - 1)` (`render.rs:479`), and Enter takes entry `selected` itself (`shell.rs:908-915`). Select the last entry and let another surface close in the background: the frame after it highlights what is now the last entry, and Enter runs nothing | `render.rs:418`, in the palette's title: "↑/↓ select · Enter run" |
| `MCWakeBroken`, `EffectWake`, `NoEndLost` | a stream that breaks, and each stream of `spawn_reader`, notifies before its `Sender` is dropped (`command.rs:1424`, 1994): a poll in between sees no end, and the end waits for the tick. `Completed` drops it first (`command.rs:1405`) | `host.rs:976`: a wake "cannot be lost behind the periodic fallback tick" |
| `MCWakeCancel`, `EffectWake`, `CancellationIsTold` | the slot holds one waker (`application.rs:164`): of two futures that wait, the first is never woken | `application.rs:133`: "Resolves when cancellation is requested" |
| `MCWakeCoalesced`, `EffectWake`, `NeverStuckCoalesced` | a wake in the mailbox when the actor ends is dropped and its flag stays set | `host.rs:1409`: "must not leave a retained wake handle permanently coalesced" |

Less sharp, and seen while modelling; no property states these.

- Blocking client: a message that finds the pending queue full (`client.rs:274`, 389) is dropped
  behind a cursor that has passed it. `LeaseSeenIsHeld` and `EventFeed` are of pumps for that reason.
- Worker: a failed write in `serve_run` or `record_output` leaves the command without a thread,
  and one in `finish` its end untold, until the worker dies (`IsStuck`, an exit of `CommandsEnd`); an interrupt carries no identity and may meet the
  next command; a worker that dies between appending the end and storing it reports the end
  twice, differently; a stream that ends because the subscriber lagged is told from the end of
  the command only by asking again.
- Dashboard: the reply to a deletion sets the mode to browsing while the user types, and that to
  a creation clears what is typed; a second `y` sends a second deletion; with the pump stopped the
  dashboard always has background work to report.
- Remote: the screen's own lines (`fail`, the leader's shutdown) do not move the scrolled view with
  them; input is cleared before the command is refused by a full queue; a command refused by the
  leader is repeated through reconnections; a driver that reconnects while another drives stops
  its pump.
- Settings: an empty `.active-format` makes every load fail until `config init --activate`; a refused reload
  is not tried again (`overview.rs:504`); an edit between the load at the start (`commands.rs:629`) and the
  first stamp (`overview.rs:147`) is missed; of two editors one loses its update.

## 7. What is not modelled

- Bytes: framing, JSON, KDL and TOML, checksums, and therefore a torn line in the journal after an I/O error
  that the process survives; the negotiation of a protocol version.
- Legacy storage (host versions before 2), journal compaction (never called), loss of flushed
  data when the machine fails under `Durability::Flush`, activity timestamps.
- Of the shell session: the `Prepare` effect, a change of directory (the command line asks for it at
  creation only), the one-shot command without a worker, and the prompt: input line,
  history, completion, paste.
- Of the settings: theme and chrome, `TURTLETAP_CONFIG`, errors of the file system; the creation of
  a file by `config init` and its content are one step.
- Of the blocking client: a time limit that passes inside a reconnection (`blocking.rs:288-292`), after which
  `request` returns with the attachment in flight, and an answer that `receive` reads when nobody asks for it any
  more (`client.rs:538`). `TimeOut` of `Delivery` is of a request that waits for its answer only; the properties
  of that run speak of pumps and of what becomes of commands; neither case sends a copy of a command.
- Two writes of a configuration file within one tick of its modification time: `config_stamp` (`overview.rs:1062`)
  would take them for one, and a dashboard that has loaded the first would keep it. In `Settings` each write
  has a time of its own (`StampOf`), so `EditsAreLoaded` is of files whose times differ.
- Several attachments of one client; the public subscription by channels; screens the dashboard is
  opened over other than itself; argument parsing and the one-shot commands of the command line.
- Drawing, themes and terminal modes.
