# Formal models of sysinspect

sysinspect is a master/minion system for configuration checks. A *master* sends
model commands to *minions* over TCP connections with an authenticated session;
a minion executes a model and reports its results. In the default mode of a
minion (`offline: independent`) both directions are durable: the master queues a
command until the minion acknowledged it, the minion queues what it accepted and
journals what it has to report. The modules here model that durable core, the
connections it runs over (sessions, secure channel, key rotation) and the
minion's supervisor, check them with TLC and prove part of them with TLAPS.
Paths are relative to the repository.

## 1. Inventory

| component | state | operations | interacts with | what makes it correct |
|---|---|---|---|---|
| job queue `libdpq/src/lib.rs` | sled trees meta, jobs, pending, inflight | `add`, `fetch`, `ack`, `nack`, `recover`, `start_ack` | protocol reader and reactor add; the runner fetches | no accepted job lost, no id reused, an acked job never runs again, none is overtaken, every job runs in the end |
| outgoing journal `libsysinspect/src/journal.rs` | sled trees for entries with a byte total, sequence numbers, acked and completed cycles | `append`, eviction, `ack_cycle`, `mark_cycle_locally_complete`, `pending` | callbacks and runner append, protocol reader acks and replays | an entry stays until acked or evicted, the budget caps, an ack frees, calls return |
| inbound ledger `sysminion/src/inbound_cmd.rs` | command state by replay key | `claim`, `set_state`, `remove` | protocol reader, runner | a cycle gets one job |
| minion, command path `sysminion/src/minion.rs`, `callbacks.rs` | the three stores above, task handles | `do_proto`, runner, `dispatch`, `launch_sysinspect`, callbacks, `send_model_ack`, `replay_pending` | master | what was accepted is executed and reported |
| minion, supervisor `sysminion/src/minion.rs`, `proto.rs` | instance, streams under locks, reconnect channel, watchdogs, runner | `minion`, `_minion_instance`, `reconnect_transport`, drain | the stores, the master | one model run at a time, the main loop always watched, a lost master is found again |
| master, command path `sysmaster/src/master.rs` | registries, broadcast channel | one task per received frame, `bcast_master_msg`, replay task | all registries, minions | a command is forgotten only after it ran, an event recorded once |
| command queue `sysmaster/src/registry/cmdq.rs` | sled trees of queued commands | `enqueue`, `set_state`, `remove_by_replay_key`, `pending_for_minion` | master | at-least-once delivery |
| replay identities and wire protocol `libsysproto/src` | none | build identities, frames | both sides | two frames with one identity are one delivery |
| secure channel and bootstrap `libsysinspect/src/transport/secure_channel.rs`, `secure_bootstrap.rs` | session keys, one counter per direction | `seal`, `open`, bootstrap | both peers | frames opened in the order of sealing, no counter used twice |
| peer transport and sessions `sysmaster/src/transport.rs`, `registry/session.rs` | secure peers, address map, direct senders and cancel watches, sessions with age | bootstrap, replacement, ehlo, pong, bye, disconnect, expiry | reader and writer of each connection | one channel per minion, the maps cleaned together, nobody taken over, the last process gets in |
| transport state and key rotation `libsysinspect/src/transport/mod.rs`, `rsa/rotation.rs` | key records of each side, staged rotation | upsert, stage, execute, retire, promote | console, ehlo, bootstrap | both sides agree on a key, a request is not lost, the newest takes effect |
| task registry `sysmaster/src/registry/taskreg.rs`, counter `sysminion/src/ptcounter.rs` | tasks by cycle and minion; count and done list | register, deregister, flush; inc, dec, pong | ModelAck, pong, console, drain | a task is forgotten in the end, a counter at zero means all ended |
| events registry `libeventreg/src/kvdb.rs` with its IPC | trees of sessions, minions, events, replay keys | `claim_replay_key`, `open_session`, `ensure_minion`, `add_event`, `trim_data`, `purge_all_data` | tasks of the master, the user interface over IPC | an event recorded once and reachable, a dropped replay not needed, the newest sessions kept |
| cluster, minion registries, hopstart, console, data services | records | select, register, remove, serve | master | see section 6 |
| data store, module repository, scheduler, web API | files, sessions | put, get, sync, login | minion, clients | see section 6 |
| model interpreter, reactor, sensors, modules, tools | configuration | evaluate, listen, run | minion | see section 6 |

Hard behaviours. Several threads of one process work on sled trees without a
lock, in sequences of single-tree operations, and a crash keeps any prefix of
them that contains what was flushed. The master handles every frame in a task of
its own, so frames are handled in any order. Connections drop with frames in
flight; a reconnect replays both directions and so duplicates deliveries. Either
process can be restarted at any step. The minion replaces stream and channel
under tasks that send, and its reconnect channel keeps one signal. `PROJECT.json`
lists the hazards at their lines, with the properties that watch them.

## 2. Modules

| module | models | its state in the code |
|---|---|---|
| `DiskPersistentQueue` | `libdpq/src/lib.rs`, one step per tree operation | `mem`/`disk` the trees (`next` the meta counter, the payloads, the two marker trees); `addPc`, `runPc` the place inside `add` and the runner loop; `accepted`, `finished`, `settled`, `acked` histories |
| `JobQueue` | what users of the queue rely on | abstract: which jobs are owed, running, done, closed |
| `Journal` | `journal.rs`, one step per tree operation | `mem`/`disk` the trees with the byte total; `pc`, `op`, `cur`, `target`, `keys` the callers' local variables; `kept`, `freed`, `due`, `overlap`, `torn` histories |
| `DurableDelivery` | the command path of `master.rs`, `cmdq.rs`, `minion.rs`, `inbound_cmd.rs` with queue and journal, one minion | `cmdq`, `claimed`, `recorded` on the master's disk; `ledger`, `jobs`, `inflight`, `journal`, `completed` on the minion's; `toMaster`, `tasks`, `direct`, `bcast` the connection |
| `CommandContract` | what the command path promises | abstract: submitted, started, running, ran, cleared |
| `PeerSessions` | `transport.rs`, `session.rs`, the peer handling of `master.rs`, and the minion's side of a connection | `peers`, `connToMid`, `wired` (`peer_direct_tx` and `peer_cancel_tx`), `toDrop`, `session` as in the code; `reader`, `writer`, `tasks` the tokio tasks; `proc`, `owner`, `open` the processes and their sockets |
| `KeyRotation` | `transport/mod.rs`, `rotation.rs` and their callers on both sides | `master`, `minion` the key records with `active_key_id`, `last_key_id` and states; `pending` the staged context, `rotation` the status saved with it; `link`, `offered`, `inbox` the connection |
| `SecureLink` | `try_request`, `write_frame`, `reconnect_transport`, `secure_channel.rs` and the master's reader | `chan`, `tx` the minion's channel and counter, `stream` its stream, `held` the frame between seal and write; `peer`, `rx` the master's channel |
| `OrderedChannel` | what the senders promise the reader | abstract: per session the messages sealed and opened |
| `MinionSupervisor` | `minion()`, `_minion_instance`, `reconnect_transport`, the tasks of the instance, both offline modes | `offline`, `freq`, `reconnect` the configuration; `sup`, `inst`, `next` the place in the code; `supRx`, `instRx` unread signals; `runner`, `runs` the queue's task and its blocking run; `rlock` the queue of the stream's lock; `link` the socket |
| `TaskTracking` | `taskreg.rs`, `ptcounter.rs` and the handlers that call them | `ongoing` as in the registry; `count`, `done` as in the counter; `run` the runner's place; `acks`, `pongs` frames not yet handled |
| `EventsRegistry` | `kvdb.rs`, `ipcs.rs`, the tasks of the master for `Event` and `ModelEvent` | `mem`/`disk` the trees; `task` the holder of the master's lock and its next call; `call`, `trimlock`, `sweep` the IPC call that holds the registry's lock; `sent`, `replays` what tasks were spawned for |
| `*_proofs` | theorems about the module they are named after; `Registries_proofs` about `EventsRegistry` and `TaskTracking` | |
| `MC*` | instances for TLC | symmetry sets, functions over model values |

`DurableDelivery` composes queue, ledger and journal at a coarser grain: an
operation of the queue or the journal is one step there. For the queue
`DeliveryUsesQueue` proves that this is what `JobQueue` allows. `TaskTracking` repeats the command path coarser still, since
its subject is who is counted when. `PeerSessions`, `SecureLink` and
`KeyRotation` look at one connection from three sides: who may have one, what
flows through it, and which key opens it; `DurableDelivery` takes from them only
that a connection delivers in order until it is cut. `MinionSupervisor` justifies
two things others assume: that one runner executes at a time (`SingleRunner` of
the queue's theorems, `OneRun` here) and that a minion reconnects for ever
(`ServesAgain`). The component modules contain operators whose comment begins
with `Mutant:`; each is an operation as a plausible bug would leave it, to show
that a property notices that bug. They take no part in a specification.

Disk model. sled appends to a log and flushes it in the background or when
asked. `mem` is what the process reads, `disk` the content a crash would leave.
`Persist` makes `disk` equal to `mem` at any moment, a flush does so before the
call returns, `Crash` makes `mem` equal to `disk`. That keeps every prefix of
the operations not yet flushed.

`DurableDelivery` in more detail. The handlers of `do_proto` become `Receive*`,
`ClaimCommand`, `DuplicateCommand`, `AddJob`; `send_model_ack` is four steps that
the runner and the reader share; the runner's closure is `CheckCompleted`,
`Dispatch`, `StartModel`, `ActionEvent`, `EndModel`. The master's tasks are the
`Handle*` actions and pick any frame that was read. A task that holds the
master's lock across awaits (recording an event) excludes the others by `Lock`.
`CutConnection` loses the frames in flight except those already read.
`AddFails` and `RefuseLaunch` are the local steps that can fail.

Three steps of `DurableDelivery` join what the code does in several, where nothing
can tell. `HandleTraits` is `on_traits` and the read of the queue by the task it
spawns (`master.rs:1320`, `1475`): a later read is a later `HandleTraits`, and
`on_traits` changes nothing else of the model. `ReplayCommand` is the send and the
`set_state` after it (`master.rs:1481`): every queued command is replayed whatever
its state, and a command cleared in between has no record to change. `RecordEvent`
is the three writes of an event, which `EventsRegistry` has one by one.

`PeerSessions` in more detail. A process of a minion is its own session id, so a
restart is one process that dies and another that connects. Each step under the
master's lock is one action: `DecodeHello` is the bootstrap with its replacement
of connections without an ehlo, `HandleEhlo` the three branches of
`on_ehlo_request`'s caller, `Handle` of `gone` the disconnect task. The writer
prefers direct frames, and a failed write ends the task as in the code.
`AgeSession` is the lifetime of a session without pings; `GC` runs where the
keeper calls it.

`MinionSupervisor` in more detail. A broadcast receiver that is two signals
behind gets `Lagged`, which is the value 2. The lock of the read half is a FIFO
queue of the reader, the recovery, and the second reader that a recovery at
startup leaves. `Orphaned` names the states in which a task of an instance that
ended keeps the stores locked. `HelloRefused` is a diagnostic instead of the
master's ack, to a duplicate for example; it counts as a fault.

`KeyRotation` in more detail. A received rotation is executed by the protocol reader
itself (`minion.rs:1206`, `1982`), as every internal command, and never waits in the
minion's durable queue: `Disconnect` discards the ones not yet read.
`RotationIsDue` is `pending_rotation_message_for`.

`EventsRegistry` in more detail. A task keeps the master's lock over its four
calls of the registry, and a call of the user interface needs only the lock of
the registry: so calls come between two steps of a task, and never between two
removals of a call. `get_sessions` and `trim_data` call each other: `BeginTrim` is
the `try_lock` of `trimlock` that succeeds, `TrimData` the inner one that fails,
after which the inner call only lists. Rotation is on. A task that waits for the
master's lock has done nothing, so that it begins with `TakeLock`. The clock is
read in `TrimData`. The fields `unlisted`, `unnamed` and `purged` of a registry remember
what calls removed, so that the properties can say what the tasks themselves
guarantee.

## 3. Runs

| run | question | bounds | result |
|---|---|---|---|
| `DpqSafety` | is the queue crash-safe, in order and live | 2 adders, 1 runner, 2 jobs, 2 crashes, 1 abort | holds |
| `DpqRunners` | what survives a second runner | 2 adders, 2 runners, 2 jobs, 1 crash | ids stay unique |
| `JournalConcurrent` | durability, acks, byte total and budget until something drifts, termination | 2 callers, 1 cycle, 2 entries, budget 1, 1 crash | holds |
| `DeliveryFaults` | does the path keep its contract, does a claim keep its job | 1 command, 1 drop, 1 minion crash, 1 failing step | holds |
| `DeliveryLive` | is something always under way that clears a command, is it cleared, the journal freed | 1 command, a direct channel of 1 frame, 1 drop, 1 master crash | holds |
| `PeerSessions` | do connections of one minion disturb each other, who may take a served one, is the end of one always reported | 2 processes of 1 minion, 2 addresses, one may die, the other has 1 fault | holds |
| `KeyRotation` | do both sides agree, is no request lost | 5 keys, 3 faults, 1 overlap window | holds |
| `SecureLink` | is the link ordered, does it recover | 2 senders, 4 connections, 3 messages | holds |
| `MinionSupervisor` | one run, watched, serving again | both modes, reconnect on and off, its limit 0 and 1, 2 faults | holds |
| `TaskTracking` | does the drain wait, is every task forgotten | 1 minion, 1 model and 1 internal command, 2 pongs, 3 faults | holds |
| `EventsRegistry` | can every stored event be found, are duplicates idle, does rotation keep the newest | 3 events of 2 minions in 2 cycles, 1 model event, limit 1, 1 replay, 1 call, 1 crash | holds |
| `EventsLocks` | are the locks of registry and master released | the same, 2 calls, no crash | holds |

Why the bounds are enough. Two jobs and two adders let ids interleave and a
crash roll the counter back under one of them; two crashes let the second hit a
recovery. Only the second runner of
`DpqRunners` reaches the branch of `fetch` that drops a marker without a payload. Two entries above a budget of
one make both callers evict what the other appends or acks. The four invariants of the
journal were also checked with two cycles of one entry each (1.4 million states), and
those of bytes and acks with two of two (21.5 million). One drop makes both replays run with the first deliveries still in
progress, so that every frame can be a duplicate; commands of different cycles
share only the queue, whose order `DpqSafety` checks, and the direct channel. That
channel holds 4 frames in `DeliveryFaults`, which never fill it, and 1 in
`DeliveryLive`, where a replayed command fills it and the `try_send` of a `CycleAck`
fails.
Two processes are a minion and its restart, or two copies of one minion; what
one leaves behind (address, session, channel, queued frames, late tasks) meets
the other. Five keys are the first ones of both sides and three rotations, so
that a request replaces a staged one that replaced an applied one. Four
connections allow a recovery that fails twice under a send that began on the
first. Two faults let the second hit the recovery from the first. In
`TaskTracking` the faults are spent in any mix of lost connections, restarts
and refused launches; its invariants were also checked with two models, two
pongs and two faults. In `EventsRegistry` two minions share a session and two
sessions compete for a limit of one; the call is a purge or a rotation at every
place of a task, and a second call finds nothing the first one left that a first
call could not meet. Liveness is checked apart, with two calls and no crash, which
would release every lock. `CHECK_DEADLOCK` is off because the systems rest when all
bounds are used up and all work done.

Where TLAPS proves the type invariant of a module, most runs leave it out. It
stays in `MinionSupervisor`, where it also says that each reader waits once.

Two invariants are the safety side of a liveness property, and were also checked
on larger instances than the runs'. `NothingStranded` (`DurableDelivery`) says that
as long as the minion neither crashes nor fails locally, a command the master has
queued never waits for nothing; with 3 drops and 2 restarts of the master it holds
in 1.25 million states. `NoDeadEnd` (`PeerSessions`) says that a channel for which
hellos are refused has a reader that reports its end, or that the report waits; with
both processes mortal and faulty and two faults it holds in 4.5 million states.

### Fairness

Queue: recovery, an `add` that began and the runner loop go on (the loop polls
every 500 ms), and an execution repeated for ever succeeds at some point, which
strong fairness of `ExecOk` says; the code retries without limit. Journal: a
call that began goes on. Delivery: the tokio tasks and loops go on and the minion
reconnects without limit, the default of `reconnect_freq`. Peers: the runtime
schedules every reader, writer and handler, what is written is delivered, an
unpinged session ages, and a process connects again. Rotation: the same, as
bootstrap, handlers and reconnect. Link: the recovery, the master's reader and
a write that was sealed go on. Supervisor: tasks that can run do, timers fire, a
stopped master is started again; strong fairness of `HandleTraits` and
`HandleReply` says that a message sent on a connection that stays up is
delivered although the reader has other frames. Tasks: handlers, the runner, the
five-second ping and the reconnect go on. Events registry: a call of the registry
has no await, and its lock and the master's are fair queues. Submissions, requests, failures,
drops and crashes are nowhere fair.

Five properties exclude what the code does not prevent, and name it.
`GetsIn` excludes a write of the master that fails: the writer cancels the
reader, which ends without a report, and the minion is a duplicate for ever
(`master.rs:1605`). `ServesAgain` excludes a first registration that is never
accepted, a process that exited, `Orphaned` stores, a peer that stays mute where
the minion waits without a timeout, a second reader that stays alive, and, as
`Watched` does in independent mode, a minion that may not reconnect or has a limit of
attempts. `NewestTakesEffect` excludes a `Shelved` context. `ClaimedHasJob` excludes
the time after a crash of the minion and a `Refused` launch. `JournalIsFreed` speaks
of a command that is alone: in a channel full of other commands' frames its
`CycleAck` is lost until the next connection.

### Also visible in the models

Each of these is a property or bound in the modules that does not hold, kept
here as an observation about the code.

- Queue: with two runners `NoLostJob` and `AckedNeverRestarts` fail; one fetch
  and retry takes the marker from the other.
- Journal: the byte total drifts for ever when two removals of a cycle overlap
  and both subtract an entry, or a crash comes between an insert and its total
  (`Drifted`); `TotalIsExact` and `BudgetCaps` hold until then and fail after. An ack
  can free nothing: `append` removes the acked marker first and inserts later, an ack
  in between sets it again, and the next ack returns at it. With 59 entries
  `PendingIsComplete` fails: sequence number 58 is the byte `:`, the key is
  misread and the entry never replayed (`journal.rs:57`).
- Lost events: `NoLostEvent` fails with one drop. Events fail to send while the
  connection is down, it comes back, and the runner's `ModelAck` goes out before
  the replay; the master's `CycleAck` then frees the events (`minion.rs:1471`).
- Reruns: `CompletedNeverReruns` fails with one crash. `CycleAck` clears the
  completion marker before the queue's own ack of the job (`minion.rs:1188`).
- Stranded commands: with `MaxCrashes = 1` in `DeliveryLive`, `SubmittedIsCleared`
  fails. A crash after the claim and before the add leaves a claim without a job,
  and every redelivery is dropped as a duplicate (`minion.rs:1222`;
  `docs/global_config.rst:959` promises at-least-once delivery).
- With `MaxFailures = 1` in `DeliveryLive`, `SubmittedIsCleared` fails: a refused
  launch never sends `ModelAck` (`minion.rs:1848`), and its claim stays `running`.
- Peers: a delayed ehlo maps an address that is gone, and the replay's lookup
  (`master.rs:1454`) may pick it (`docs/global_config.rst:960`). The hello of an
  unregistered minion is never answered and its read has no timeout. The end of
  an older connection, when a late ehlo mapped it after a hello had replaced it,
  removes the session of a process that is served (`master.rs:772`); a second late
  ehlo of the older process then takes the session, and a third one drops the served
  connection. The run's two addresses are too few for that; with four it happens, so
  that `NoTakeover` names an ehlo of the session's holder as the one other process
  that can take a connection. Two copies
  of one minion can keep each other out for ever. Rejected connections leave
  entries in the maps. `ByeAck` and `AlreadyConnected` are broadcast and obeyed
  by minions they are not meant for.
- Rotation: `OverlapIsKept` fails. The window of a retiring key is counted from
  its activation (`rotation.rs:449`), so that a key that was active longer than
  the window is purged by the rotation that retires it;
  `docs/genusage/secure_transport.rst:354` says that the previous key stays for
  30 minutes. `PendingIsSent` fails too. The master saves the executed rotation with
  the status Idle before it clears the staged context (`rotation.rs:369`,
  `transport.rs:289`); when it stops in between and the minion comes back with another
  key, the context stays and is not sent again, because `pending_rotation_message_for`
  wants the status Pending (`master.rs:1431`). `secure_transport.rst:312` says that the
  master stores the requested rotation and sends it when the minion reconnects.
- Link: while the channel is `None` during a recovery, `try_request` writes in
  the clear (`minion.rs:585`). Two senders that invert their frames cost a
  healthy connection. `Recovers` says that it comes back.
- Supervisor: `ExecutionContinues` fails. `CONNECTION_TX` keeps one signal,
  watchdog and reader may both signal, and the instance then ends in independent
  mode too (`minion.rs:2373`; `docs/global_config.rst:911`). In independent mode with
  reconnect disabled, or after the last attempt, the main loop goes on with neither
  transport nor watchdog (`minion.rs:2341`). A recovery at
  startup runs `do_proto`, the watchdog and the stats task a second time
  (`minion.rs:2287`) and leaves an extra reader, an extra watchdog, and a stats
  task without a handle that keeps the stores locked. Early returns with `?`
  detach runner and reader the same way. An exit during autosync skips the
  cleanup. In follow mode a rejected registration is retried for ever. The
  count of reconnects is never reset. The drain aborts a runner whose job stays
  inflight until a restart.
- Tasks: `TrackedUntilAck` fails. `flush` ignores the list of a pong and forgets
  all tasks of the minion (`taskreg.rs:62`), so a pong during a run makes a busy
  minion look idle to the cluster's selection (`cluster.rs:348`); without that,
  internal commands and early acknowledgements would leave tasks for ever. The
  console registers after it broadcast (`console.rs:1070`); web API and
  scheduler never register. The early returns of `launch_sysinspect` never
  decrement, so that completed tasks are not reported again and a drain runs
  into its timeout. The list of completed tasks is flushed before the pong is
  sent and lost with it.
- Events registry: `EventsReachable` and `DuplicatesAreIdle` name exceptions, and
  all of them happen. A purge or rotation between `open_session` and `add_event`
  leaves an event without a session. A `ModelEvent` that overtakes the events of
  its minion finds no session, has claimed its key and is not repeated
  (`master.rs:1129`); so is every one of a model without events. After a crash
  between claim and `add_event` the replay of the event is dropped as a duplicate.
  `TrimsTheData` fails: a rotation removes sessions only (`kvdb.rs:427`); the
  trees of minions and events and the replay keys stay until a purge, and nothing
  lists them any more ("Trim the database data to the specific amount of records",
  `kvdb.rs:416`).

## 4. Proofs

Every theorem is about `Spec` for all values of the constants that satisfy the
named assumptions: bounds are natural numbers, `MaxKeys` is at least two, callers
of the journal are finitely many, `Internal` is a set of commands. Some theorems
assume more, in their statement. Those about the queue, other than `TypeCorrect`,
assume `SingleRunner`: the minion starts one runner per instance, and `RunsAlone`
proves that two never execute at once. Those reached through an instance repeat the assumptions of that
module (`TasksBounded`).

`DiskPersistentQueue_proofs`. `NoLostJob` speaks of the disk and is not
inductive: a flush copies memory to disk in the middle of any operation.
`Consistent` says the same of memory and disk (`Stored`), relates the counters of
both (`Counters`), and says where an adder's and a runner's job is at each
program counter (`AddersOK`, `RunnersOK`): only then does a runner that removes a
marker know that the job ran, and an adder that returns know that its job is
marked or done. `NoJobIsLost`, `IdsAreUnique` and `AckIsFinal` follow. The
refinement `QueueKeepsPromise` (`ImplementsJobQueue`) needs one fact more,
`SettledOK`: a job that ended since the last restart has a marker only in the hands
of the runner that is about to acknowledge it. `StepIsPromised` then takes the
tree operations one by one; most are stutters. `JobsAreServedInOrder`
(`ServedInOrder`) says that nothing overtakes an accepted job, whether it failed or
was recovered. That `fetch` takes the first pending key says nothing of jobs that
are inflight; `InflightIsHeld` says that a marker stays inflight between two jobs
only after an abort. The same order lets a job that always fails keep the others
waiting (`lib.rs:398`).

`Journal_proofs`. `JournalKeeps` (`NoLostEntry`) needs that entries differ: `Below`
(numbers in use are below their counter, also after a crash), `Distinct` (no two
appends work on one entry, an entry not yet inserted is in nobody's key list),
`Found` (an unflushed entry is in the tree or somebody found it, and then it
counts as freed) and `Kept`. The type invariant itself is not inductive, as the
sequence counter is bounded: `Room` counts the callers about to take a number
by `Cardinality` and needs the theorems on finite sets. The other three hold for any
number of callers. Two histories say where the code goes wrong: `overlap` has the
cycles in which a scan found an entry another call was still adding or removing, or
which were marked although an append had begun; `torn` says that a crash interrupted a
call. `AckFrees` needs no more than where an ack stands and what it found.
`TotalStaysExact` and `BudgetIsKept` count, until the total drifted: the entries some
call has inserted and not added, and those it has subtracted and not removed, are the
difference between the total and the tree, and an append that is not evicting leaves
the budget kept.

`KeyRotation_proofs`. `KeysAgree` needs what the minion names in a hello
(`HelloNamesActive`) and what the master has when it answers (`AckMatches`);
`StagedIsKept` needs that the minion learns a staged key only by executing its
rotation (`Staged`), which rests on keys being numbered in order of creation
(`Bounded`). The lemmas on `UpsertKey`, `RetireElapsed` and `ExecuteRotation` say
what each leaves of the active and last key, and `Unambiguous` carries
`ActiveKeyIsUnique`.

`SecureLink_proofs`. `LinkIsOrdered` is a refinement: `OrderedChannel!Spec` is
implemented, each step being one of its steps or a stutter. It needs that a frame
carries the message its counter names (`FramesOK`) and that the master's counter
is what it opened (`OpenedOK`), with the phase of the recovery (`PhaseOK`,
`SealedOK`). `NothingIsRefused` needs more, and only while no send overlapped:
`Lockstep` says that one frame at most is between seal and write and that the
wire carries the next counters without a gap.

`MinionSupervisor_proofs`. `RunsAlone` rests on `JobOK`: the runner's state
determines the number of runs, except after an abort, when only a locked store
keeps the next runner away. `AlwaysWatched` rests on `WatchOK`: where the main
loop is entered, the channel is set or a watchdog was armed, and no signal
lowers what the instance has to receive; it is about a `Persistent` minion, one that
is in follow mode or may reconnect without limit. `SupervisorTyped` is more than types:
`TypeOK` says that each reader is in the queue of the stream's lock or has a frame
in hand, and at most once, which is why `RemoveFirst` may drop the one occurrence
it meets. For that, `ReadersOK` says which readers can exist at each place of the
instance and that the recovery waits for the lock exactly at `r.clear`.

`Registries_proofs`. For `EventsRegistry`: `TaskOK` says what a task has already
stored at each of its steps, or which call took it away since; with it
`EventsAreReachable` holds in memory and on disk, across crashes. `SweepOK` and
`RotationOK` say what a rotation has still to remove and that the sessions it
spares are within the limit and the newest, whence `RotationKeeps`. `PurgeOK` (a
purged event loses its replay key before a task can ask for it) and `ClaimsOK`
(only the task at work has a claimed key without an effect) give
`DuplicatesHadEffect`; a crash between claim and event breaks both, so that they
hold until the first one. `RotatesOnce` says that `trimlock` is held exactly from the
entry into `trim_data` to the return, which is why the recursion ends. For `TaskTracking`, instantiated as `Tracking`:
`IdleIsCompleted` rests on `HasJob` (a runner at work has a job at the head of the
queue) and `Counted` (what was dispatched is counted or completed, and is completed
before it is decremented).

`DurableDelivery_proofs`. The type invariant needs `Named` (every frame that carries
a cycle names a command), and is proved in two parts, the connection (`WireOK`) and
the rest (`LocalOK`), most steps touching one. `Underway` is what the master has not
processed yet and `Traffic` says where it comes from. `Justified` and `Backed` say
that what clears a command (a `ModelAck` on its way, a completed ledger) was
executed before, whence `ClearedHasRun`. `ClaimFirst` says that a replay key is
claimed before an event is recorded, whence `RecordedOnce`. `Held`, `Line` and
`Enlisted` say who may still add a job for a cycle, whence `QueuedOnce`. `ClaimKept`
(`ClaimedHasJob`) holds until the minion crashes, also when the add to the queue fails;
`Tended` is its invariant, and relates a job that is finished to a completed ledger or
a refused launch. The refinement `DeliversContract` needs that only submitted commands are
sent, claimed and executed (`Asked`), and a lemma per program that its steps are
steps of `CommandContract` or leave what it speaks of alone.

`NeverStranded` (`NothingStranded`) holds until the minion crashes or a local step of
it fails (`Unbroken`). What clears a
command passes through every part of the two programs (the broadcast, the wire, the
ledger, the queue, `ModelAck`, the handlers of the master and the replay after a
reconnect), and `Pledged` lists the places where it can be. It rests on `Claims`,
the invariant behind `ClaimKept`: a claimed command has its job until it is
completed, so that a duplicate the minion drops was not needed, and the duplicate of
a completed command is answered again. `SendReaches`, `ProcessLeaves` and
`ReceiveLeaves` say that a frame leaves a stream only by being handled,
`PledgeStays` that a step which touches neither keeps the pledge, and `PledgeNext`
takes the steps one by one: a lost connection, which discards frames, leaves the
replay of the next one due.

A second refinement joins the two levels. `DurableDelivery` has an operation of the
queue in one step; `DeliveryUsesQueue` proves that what it does with the queue is a
behaviour of `JobQueue`, which `QueueKeepsPromise` proves the tree operations to
implement. Which jobs ended, ever and since the last start, is not in the state of
`DurableDelivery`: `ObservedSpec` adds the two as histories (`Observe`), which
restrict nothing. `Ended` says that what ended is not claimed anew and waits again
only after a restart. Both levels promise the same; that the queue also serves jobs
in order is in `DurableDelivery` and in `DiskPersistentQueue`, and not in `JobQueue`.

`PeerSessions_proofs`. Neither `OneChannel` nor `ChannelIsWired` is inductive: a
clean-up that was spawned for a dead connection could hit one that has just been
accepted. `HelloFirst` excludes that: a hello is the first thing on its connection,
and until it is read no map, session or waiting request refers to that address
(`Unused`); `Owned` says that what is read or waits belongs to a process.
`ServedIsKept` (`NoTakeover`) needs `Linked` besides: a connected process owns its
address, which is not given to another one while it is open. `TaskTakes` then goes
through the handlers. The attempt to prove the stricter statement, that no ehlo of
another process takes a served connection, led to the sequence described in section 3.

`NobodyLockedOut` (`NoDeadEnd`) needs to know which readers return without a report: those
somebody cancelled. `Reported` says that a cancelled connection has lost its channel, or is
one that `to_drop` named, which is unmapped and stays so. That it stays so is `Once`: a
connection has one ehlo, which its process has still to send (`Greeting`), or which waits
in the stream (`Holds`) or for its handler (`Waiting`), and which is gone (`Spent`) by the
time the connection is mapped or named in `to_drop`. No other request maps an address; the
mutant of the run is a pong that does. `SendMoves` and `ReadMoves` say what a request
does to a stream, `TrackStays` what a step must leave of one connection, and a lemma per
task takes its steps.

Only model-checked: every liveness property; they are out of the prover's reach. `OneRun`, `Watched` and
the other proved properties stay in their runs, where a mutant shows that they
notice a bug.

## 5. Abstractions

A payload is one byte long; a message is its kind and cycle, and the identity of
an event is its cycle; a model emits one event before it ends, with a
`ModelEvent` or a failure event. `ModelEvent` is kept in the journal and not
followed on the wire. Errors of the disk are not modelled apart from `AddFails`: one
between the claim and the record of an event (`master.rs:1066` to `1087`) loses the
event as a crash there does. Nor are a receiver of the broadcast that lags by more
than 100 frames (`master.rs:1579`) and loses commands until the next replay, so that
`NothingStranded` excludes it, and the early returns of `dispatch` for a command that
no longer matches the minion or cannot be decoded (`minion.rs:2107`, `2132`), which
end like a refused launch without its event. In `PeerSessions` frames decode and encode
(`transport.rs:144`, `master.rs:1591`); one that does not ends its reader, as a lost
connection does, or its write, as a failed write does.
`DurableDelivery` assumes that the journal stays within its budget
(`journal.size`): an eviction, which `Journal` has, drops results by design.
`DurableDelivery` has one minion and one connection at a time, and the mode
`independent`. In `PeerSessions` a frame that already waits for a minion is not
queued again, since every handler of it has the same effect once or twice.
`KeyRotation` has one bit of time per record. An event is stored under its identity, so that storing it twice is storing
it once; timestamps of `EventsRegistry` are small numbers. Session keys, signatures and
timestamps do not appear; `SecureLink` has the direction to the master only,
because the other one has a single writer. In `MinionSupervisor` the frames that
`do_proto` handles are grouped by their effect on transport and tasks. A failing
execution that is retried is an execution of the queue; in `DurableDelivery` it
ends as a model that failed. `DiskPersistentQueue::start`, a wrapper around
`start_ack` for examples, is left out.

## 6. Not modelled

- Virtual minion cluster: selection of a member by floating-point load.
- Minion registries of the master: records by minion id. Only registration has
  an effect on the models, as `Registered` in `PeerSessions`.
- Events registry: the queries, which only read, and the copies made by `clone`,
  which nothing calls.
- Hopstart, console, data services, telemetry, web API: request and reply code
  around the registries, with terminal, ssh or HTTP on the other side.
- Data store and module repository: files addressed by content; each operation
  is one call of the file system. The minion's sync is a step of
  `MinionSupervisor`.
- Scheduler and sensors: wrappers of external libraries.
- Model interpreter, constraints and actions: sequential evaluation of one
  model; to the other parts an execution that emits events and ends.
- Modules, setup and command line tools, user interface: no concurrent state.
  They are by far the larger part of the source, so that the modules cover the
  protocol code of `master.rs`, `minion.rs` and the transport in depth and a
  small share of all lines.

Left for later: more commands and a second minion in the runs of
`DurableDelivery`; an abstract specification of the journal that `DurableDelivery`
can be shown to use as it does `JobQueue`.
