--------------------------- MODULE DurableDelivery ---------------------------
(***************************************************************************)
(* The durable command path between the master and one minion: how a model *)
(* command is queued, delivered, executed and acknowledged, and how its    *)
(* results travel back, while connections drop and either side restarts.   *)
(*                                                                         *)
(* Master: sysmaster/src/master.rs, registry/cmdq.rs.  Minion, in its      *)
(* default mode offline = independent: sysminion/src/minion.rs,            *)
(* inbound_cmd.rs, with the queue of DiskPersistentQueue.tla and the       *)
(* journal of Journal.tla, whose operations are single steps here.         *)
(*                                                                         *)
(* A connection carries two FIFO streams to the minion (the direct channel *)
(* and the broadcast), which the peer's writer merges.  The master spawns  *)
(* a task for each frame it reads and these tasks run in any order, so     *)
(* what travels to the master is a set.  In the journal a payload that is  *)
(* appended again to the same cycle counts once: the master sees the same  *)
(* replay identity.                                                        *)
(***************************************************************************)
EXTENDS Integers, Sequences, FiniteSets

CONSTANTS
    Cycles,           \* model commands, one per cycle id
    NoCycle,          \* the cycle of a frame, or of an actor, that has none
    DirectCap,        \* capacity of a peer's direct channel (32)
    MaxDrops,         \* bound: connections lost
    MaxCrashes,       \* bound: crashes of the minion
    MaxMasterCrashes, \* bound: crashes of the master
    MaxFailures       \* bound: local steps that fail, see AddFails and RefuseLaunch

ASSUME DeliveryAssumption ==
    /\ NoCycle \notin Cycles
    /\ DirectCap \in Nat
    /\ MaxDrops \in Nat
    /\ MaxCrashes \in Nat
    /\ MaxMasterCrashes \in Nat
    /\ MaxFailures \in Nat

VARIABLES
    cmdq,      \* master, on disk: state of the queued command of each cycle
    toBcast,   \* master: commands queued and about to be broadcast
    replaying, \* master: queued commands a replay task has still to send
    claimed,   \* master, on disk: cycles whose event's replay identity was claimed
    recorded,  \* master, on disk: how often each cycle's event was recorded
    recording, \* master: cycles whose event was claimed and not yet recorded
    ledger,    \* minion, on disk: the inbound command ledger
    jobs,      \* minion, on disk: cycles of the pending jobs of the queue, by id
    inflight,  \* minion, on disk: cycles of the inflight jobs
    journal,   \* minion, on disk: kinds of the entries of each cycle
    completed, \* minion, on disk: locally completed cycles
    pc,        \* minion: where the runner and the protocol reader stand
    cyc,       \* minion: the cycle each of them works on
    todo,      \* minion: what replay_pending has still to send
    link,      \* the connection, as the minion sees it
    toMaster,  \* frames of the minion the master has not read
    tasks,     \* master: frames it read and whose task has not run
    direct,    \* direct frames to the minion
    bcast,     \* broadcast frames to the minion
    started,   \* history: cycles started since the minion's last start
    ran,       \* history: cycles whose execution came to its end
    cleared,   \* history: cycles the master cleared
    emitted,   \* history: cycles whose event was journaled
    faults     \* drops, crashes, masterCrashes and failures so far

masterVars == <<cmdq, toBcast, replaying, claimed, recorded, recording>>
storeVars == <<ledger, jobs, inflight, journal, completed>>
actorVars == <<pc, cyc, todo>>
linkVars == <<link, toMaster, tasks, direct, bcast>>
historyVars == <<started, ran, cleared, emitted>>
vars == <<cmdq, toBcast, replaying, claimed, recorded, recording, ledger, jobs, inflight, journal, completed,
          pc, cyc, todo, link, toMaster, tasks, direct, bcast, started, ran, cleared, emitted, faults>>

Kinds == {"event", "modelEvent", "modelAck"}
Actors == {"runner", "reader"}

Nothing == [c \in Cycles |-> {}]

Init ==
    /\ cmdq = [c \in Cycles |-> "none"]
    /\ toBcast = {}
    /\ replaying = {}
    /\ claimed = {}
    /\ recorded = [c \in Cycles |-> 0]
    /\ recording = {}
    /\ ledger = cmdq
    /\ jobs = <<>>
    /\ inflight = <<>>
    /\ journal = Nothing
    /\ completed = {}
    /\ pc = [runner |-> "idle", reader |-> "off"]
    /\ cyc = [runner |-> NoCycle, reader |-> NoCycle]
    /\ todo = Nothing
    /\ link = "down"
    /\ toMaster = <<>>
    /\ tasks = {}
    /\ direct = <<>>
    /\ bcast = <<>>
    /\ started = {}
    /\ ran = {}
    /\ cleared = {}
    /\ emitted = {}
    /\ faults = [drops |-> 0, crashes |-> 0, masterCrashes |-> 0, failures |-> 0]

-----------------------------------------------------------------------------
(* Frames.  A write on a dead connection fails and the frame is gone; a    *)
(* task of the master that outlives its connection has a frame that is not *)
(* live.  ModelEvent, which only feeds the master's telemetry, is kept in  *)
(* the journal and not followed on the wire.                               *)

Msg(kind, c) == <<[kind |-> kind, cycle |-> c]>>
SendToMaster(frames) == toMaster' = IF link = "down" THEN toMaster ELSE toMaster \o frames

Room == Len(direct) < DirectCap
SendDirect(kind, c) == direct' = direct \o Msg(kind, c)

Broadcast(kind, c) == bcast' = IF link = "down" THEN bcast ELSE bcast \o Msg(kind, c)

-----------------------------------------------------------------------------
(* Master: submission (bcast_master_msg).                                  *)

\* A task holds the master's lock to its end, so also while it records an event.
Lock == recording = {}

Enqueue(c) ==
    /\ Lock
    /\ cmdq[c] = "none" /\ c \notin cleared
    /\ cmdq' = [cmdq EXCEPT ![c] = "pending"]
    /\ toBcast' = toBcast \cup {c}
    /\ UNCHANGED <<replaying, claimed, recorded, recording, storeVars, actorVars, linkVars, historyVars, faults>>

BroadcastCommand(c) ==
    /\ c \in toBcast
    /\ toBcast' = toBcast \ {c}
    /\ Broadcast("command", c)
    /\ UNCHANGED <<cmdq, replaying, claimed, recorded, recording, storeVars, actorVars,
                   link, toMaster, tasks, direct, historyVars, faults>>

(* Master: the tasks spawned for incoming frames.                          *)

Task(frame, live) == [kind |-> frame.kind, cycle |-> frame.cycle, live |-> live]
Tasks(read, live) == {Task(read[i], live) : i \in 1..Len(read)}
Spawned == tasks \cup Tasks(toMaster, TRUE)

\* Frames are read in order, at the latest when a task of a later one runs.
Process(task) ==
    /\ Lock
    /\ \/ task \in tasks /\ tasks' = tasks \ {task} /\ toMaster' = toMaster
       \/ \E i \in 1..Len(toMaster) :
            /\ task = Task(toMaster[i], TRUE)
            /\ tasks' = tasks \cup Tasks(SubSeq(toMaster, 1, i - 1), TRUE)
            /\ toMaster' = SubSeq(toMaster, i + 1, Len(toMaster))

\* on_ehlo_request asks for fresh traits.
HandleEhlo(frame) ==
    /\ frame.kind = "ehlo"
    /\ Process(frame)
    /\ Broadcast("traits", NoCycle)
    /\ UNCHANGED <<masterVars, storeVars, actorVars, link, direct, historyVars, faults>>

\* Mutant: fresh traits start no replay.
HandleTraitsOnly(frame) ==
    /\ frame.kind = "traits"
    /\ Process(frame)
    /\ UNCHANGED <<masterVars, storeVars, actorVars, link, direct, bcast, historyVars, faults>>

\* Mutant: a command that was replayed once is not replayed again.
HandleTraitsPending(frame) ==
    /\ frame.kind = "traits"
    /\ Process(frame)
    /\ replaying' = replaying \cup {c \in Cycles : cmdq[c] = "pending"}
    /\ UNCHANGED <<cmdq, toBcast, claimed, recorded, recording, storeVars, actorVars,
                   link, direct, bcast, historyVars, faults>>

\* on_traits starts replay_pending_commands_task, which reads the whole queue first.
HandleTraits(frame) ==
    /\ frame.kind = "traits"
    /\ Process(frame)
    /\ replaying' = replaying \cup {c \in Cycles : cmdq[c] # "none"}
    /\ UNCHANGED <<cmdq, toBcast, claimed, recorded, recording, storeVars, actorVars,
                   link, direct, bcast, historyVars, faults>>

\* tx.send waits for room; a replay ends when its connection does.
ReplayCommand(c) ==
    /\ Lock
    /\ c \in replaying
    /\ Room
    /\ SendDirect("command", c)
    /\ cmdq' = [cmdq EXCEPT ![c] = IF @ = "none" THEN @ ELSE "replayed"]
    /\ replaying' = replaying \ {c}
    /\ UNCHANGED <<toBcast, claimed, recorded, recording, storeVars, actorVars,
                   link, toMaster, tasks, bcast, historyVars, faults>>

\* Mutant: a duplicate event is recorded again.
HandleEventAgain(frame) ==
    /\ frame.kind = "event"
    /\ Process(frame)
    /\ recording' = {frame.cycle}
    /\ claimed' = claimed \cup {frame.cycle}
    /\ UNCHANGED <<cmdq, toBcast, replaying, recorded, storeVars, actorVars,
                   link, direct, bcast, historyVars, faults>>

\* claim_replay_key, then the event is recorded; a duplicate is dropped.
HandleEvent(frame) ==
    /\ frame.kind = "event"
    /\ Process(frame)
    /\ recording' = {frame.cycle} \ claimed
    /\ claimed' = claimed \cup {frame.cycle}
    /\ UNCHANGED <<cmdq, toBcast, replaying, recorded, storeVars, actorVars,
                   link, direct, bcast, historyVars, faults>>

RecordEvent(c) ==
    /\ c \in recording
    /\ recording' = recording \ {c}
    /\ recorded' = [recorded EXCEPT ![c] = @ + 1]
    /\ UNCHANGED <<cmdq, toBcast, replaying, claimed, storeVars, actorVars, linkVars, historyVars, faults>>

\* Mutant: a duplicate ModelAck is dropped like any other duplicate.
HandleModelAckOnce(frame) ==
    /\ frame.kind = "modelAck"
    /\ Process(frame)
    /\ cmdq' = [cmdq EXCEPT ![frame.cycle] = "none"]
    /\ cleared' = cleared \cup {frame.cycle}
    /\ IF frame.live /\ Room /\ frame.cycle \notin cleared
       THEN SendDirect("cycleAck", frame.cycle) ELSE direct' = direct
    /\ UNCHANGED <<toBcast, replaying, claimed, recorded, recording, storeVars, actorVars,
                   link, bcast, started, ran, emitted, faults>>

\* First or duplicate, it clears the queued command and returns CycleAck (try_send).
HandleModelAck(frame) ==
    /\ frame.kind = "modelAck"
    /\ Process(frame)
    /\ cmdq' = [cmdq EXCEPT ![frame.cycle] = "none"]
    /\ cleared' = cleared \cup {frame.cycle}
    /\ IF frame.live /\ Room THEN SendDirect("cycleAck", frame.cycle) ELSE direct' = direct
    /\ UNCHANGED <<toBcast, replaying, claimed, recorded, recording, storeVars, actorVars,
                   link, bcast, started, ran, emitted, faults>>

-----------------------------------------------------------------------------
(* Minion: the protocol reader (do_proto).                                 *)

ReaderTo(state, c) ==
    /\ pc' = [pc EXCEPT !.reader = state]
    /\ cyc' = [cyc EXCEPT !.reader = c]

\* The next frame, from either stream.
Receive(frame) ==
    /\ pc.reader = "idle"
    /\ \/ direct # <<>> /\ frame = Head(direct) /\ direct' = Tail(direct) /\ bcast' = bcast
       \/ bcast # <<>> /\ frame = Head(bcast) /\ bcast' = Tail(bcast) /\ direct' = direct

\* Mutant: the claim is not written to the ledger.
ClaimUnrecorded(frame) ==
    /\ frame.kind = "command"
    /\ ledger[frame.cycle] = "none"
    /\ Receive(frame)
    /\ ReaderTo("add", frame.cycle)
    /\ UNCHANGED <<masterVars, storeVars, todo, link, toMaster, tasks, historyVars, faults>>

\* claim_inbound_command: a new command is claimed and then added to the queue.
ClaimCommand(frame) ==
    /\ frame.kind = "command"
    /\ ledger[frame.cycle] = "none"
    /\ Receive(frame)
    /\ ledger' = [ledger EXCEPT ![frame.cycle] = "accepted"]
    /\ ReaderTo("add", frame.cycle)
    /\ UNCHANGED <<masterVars, jobs, inflight, journal, completed, todo, link, toMaster, tasks, historyVars, faults>>

\* Mutant: a duplicate of a command that is not completed is queued again.
DuplicateQueued(frame) ==
    /\ frame.kind = "command"
    /\ ledger[frame.cycle] # "none"
    /\ Receive(frame)
    /\ ReaderTo(IF ledger[frame.cycle] = "completed" THEN "ack" ELSE "add", frame.cycle)
    /\ UNCHANGED <<masterVars, storeVars, todo, link, toMaster, tasks, historyVars, faults>>

\* A completed duplicate makes the reader send ModelAck again, any other is dropped.
DuplicateCommand(frame) ==
    /\ frame.kind = "command"
    /\ ledger[frame.cycle] # "none"
    /\ Receive(frame)
    /\ IF ledger[frame.cycle] = "completed" THEN ReaderTo("ack", frame.cycle) ELSE UNCHANGED <<pc, cyc>>
    /\ UNCHANGED <<masterVars, storeVars, todo, link, toMaster, tasks, historyVars, faults>>

AddJob ==
    /\ pc.reader = "add"
    /\ jobs' = Append(jobs, cyc.reader)
    /\ ReaderTo("idle", NoCycle)
    /\ UNCHANGED <<masterVars, ledger, inflight, journal, completed, todo, linkVars, historyVars, faults>>

\* Mutant: the claim of a job that could not be stored is kept.
AddFailsClaimed ==
    /\ pc.reader = "add"
    /\ faults.failures < MaxFailures
    /\ faults' = [faults EXCEPT !.failures = @ + 1]
    /\ ReaderTo("idle", NoCycle)
    /\ UNCHANGED <<masterVars, storeVars, todo, linkVars, historyVars>>

\* The queue could not store the job: the claim is given back.
AddFails ==
    /\ pc.reader = "add"
    /\ faults.failures < MaxFailures
    /\ faults' = [faults EXCEPT !.failures = @ + 1]
    /\ ledger' = [ledger EXCEPT ![cyc.reader] = "none"]
    /\ ReaderTo("idle", NoCycle)
    /\ UNCHANGED <<masterVars, jobs, inflight, journal, completed, todo, linkVars, historyVars>>

ReceiveCycleAck(frame) ==
    /\ frame.kind = "cycleAck"
    /\ Receive(frame)
    /\ journal' = [journal EXCEPT ![frame.cycle] = {}]
    /\ completed' = completed \ {frame.cycle}
    /\ UNCHANGED <<masterVars, ledger, jobs, inflight, actorVars, link, toMaster, tasks, historyVars, faults>>

\* send_traits; if it was sent, replay_pending reads the whole journal.
ReceiveTraitsRequest(frame) ==
    /\ frame.kind = "traits"
    /\ Receive(frame)
    /\ SendToMaster(Msg("traits", NoCycle))
    /\ todo' = journal
    /\ ReaderTo(IF journal = Nothing THEN "idle" ELSE "replay", NoCycle)
    /\ UNCHANGED <<masterVars, storeVars, link, tasks, historyVars, faults>>

\* Mutant: whatever the journal still holds of a cycle gets a ModelAck.
ReplayAcksAll(c) ==
    /\ pc.reader = "replay"
    /\ todo[c] # {}
    /\ todo' = [todo EXCEPT ![c] = {}]
    /\ ReaderTo("ack", c)
    /\ UNCHANGED <<masterVars, storeVars, link, toMaster, tasks, direct, bcast, historyVars, faults>>

\* One cycle of the snapshot; a ModelEvent without a ModelAck gets one.
ReplayCycle(c) ==
    /\ pc.reader = "replay"
    /\ todo[c] # {}
    /\ SendToMaster((IF "event" \in todo[c] THEN Msg("event", c) ELSE <<>>)
                    \o (IF "modelAck" \in todo[c] THEN Msg("modelAck", c) ELSE <<>>))
    /\ todo' = [todo EXCEPT ![c] = {}]
    /\ IF "modelEvent" \in todo[c] /\ "modelAck" \notin todo[c]
       THEN ReaderTo("ack", c)
       ELSE ReaderTo(IF todo' = Nothing THEN "idle" ELSE "replay", NoCycle)
    /\ UNCHANGED <<masterVars, storeVars, link, tasks, direct, bcast, historyVars, faults>>

-----------------------------------------------------------------------------
(* Minion: send_model_ack, by the runner or by the reader.                 *)

AckStep(a, from, to) ==
    /\ pc[a] = from
    /\ pc' = [pc EXCEPT ![a] = to]
    /\ UNCHANGED <<masterVars, jobs, inflight, todo, link, tasks, direct, bcast, historyVars, faults>>

JournalAck(a) ==
    /\ AckStep(a, "ack", "mark")
    /\ journal' = [journal EXCEPT ![cyc[a]] = @ \cup {"modelAck"}]
    /\ UNCHANGED <<ledger, completed, cyc, toMaster>>

MarkComplete(a) ==
    /\ AckStep(a, "mark", "ledger")
    /\ completed' = completed \cup {cyc[a]}
    /\ UNCHANGED <<ledger, journal, cyc, toMaster>>

\* Mutant: the ledger is not told that the command is completed.
LedgerForgotten(a) ==
    /\ AckStep(a, "ledger", "send")
    /\ UNCHANGED <<ledger, journal, completed, cyc, toMaster>>

\* set_state leaves a missing record alone.
LedgerComplete(a) ==
    /\ AckStep(a, "ledger", "send")
    /\ ledger' = [ledger EXCEPT ![cyc[a]] = IF @ = "none" THEN @ ELSE "completed"]
    /\ UNCHANGED <<journal, completed, cyc, toMaster>>

AckSent(a) == IF a = "runner" THEN "finish" ELSE IF todo = Nothing THEN "idle" ELSE "replay"

SendModelAck(a) ==
    /\ AckStep(a, "send", AckSent(a))
    /\ SendToMaster(Msg("modelAck", cyc[a]))
    /\ cyc' = IF a = "reader" THEN [cyc EXCEPT !.reader = NoCycle] ELSE cyc
    /\ UNCHANGED <<ledger, journal, completed>>

-----------------------------------------------------------------------------
(* Minion: the runner, its closure, dispatch and launch_sysinspect.        *)

RunnerTo(from, to) ==
    /\ pc.runner = from
    /\ pc' = [pc EXCEPT !.runner = to]
    /\ UNCHANGED <<masterVars, todo, link, tasks, direct, bcast, cleared>>

FetchJob ==
    /\ RunnerTo("idle", "check")
    /\ jobs # <<>>
    /\ cyc' = [cyc EXCEPT !.runner = Head(jobs)]
    /\ jobs' = Tail(jobs)
    /\ inflight' = Append(inflight, Head(jobs))
    /\ UNCHANGED <<ledger, journal, completed, toMaster, started, ran, emitted, faults>>

\* is_cycle_locally_complete: what finished before a restart is not executed again.
CheckCompleted ==
    /\ RunnerTo("check", IF cyc.runner \in completed THEN "finish" ELSE "dispatch")
    /\ UNCHANGED <<storeVars, cyc, toMaster, started, ran, emitted, faults>>

\* dispatch marks the ledger before it launches the model.
Dispatch(to) ==
    /\ RunnerTo("dispatch", to)
    /\ ledger' = [ledger EXCEPT ![cyc.runner] = IF @ = "none" THEN @ ELSE "running"]
    /\ UNCHANGED <<jobs, inflight, completed, cyc, ran>>

JournalAndSend(kind) ==
    /\ journal' = [journal EXCEPT ![cyc.runner] = @ \cup {kind}]
    /\ IF kind = "event"
       THEN SendToMaster(Msg("event", cyc.runner)) /\ emitted' = emitted \cup {cyc.runner}
       ELSE UNCHANGED <<toMaster, emitted>>

\* A failure before the model runs is reported as an event and nothing else.
RefuseLaunch ==
    /\ Dispatch("finish")
    /\ faults.failures < MaxFailures
    /\ faults' = [faults EXCEPT !.failures = @ + 1]
    /\ JournalAndSend("event")
    /\ UNCHANGED started

StartModel ==
    /\ Dispatch("actions")
    /\ started' = started \cup {cyc.runner}
    /\ UNCHANGED <<journal, toMaster, emitted, faults>>

\* send_callback, for the actions of the model.
ActionEvent ==
    /\ RunnerTo("actions", "model")
    /\ JournalAndSend("event")
    /\ UNCHANGED <<ledger, jobs, inflight, completed, cyc, started, ran, faults>>

\* The model ends with send_fin_callback, or with a failure event when it failed.
EndModel ==
    /\ RunnerTo("model", "ack")
    /\ ran' = ran \cup {cyc.runner}
    /\ JournalAndSend("modelEvent") \/ JournalAndSend("event")
    /\ UNCHANGED <<ledger, jobs, inflight, completed, cyc, started, faults>>

\* The queue's ack removes the job that is being run, the last one fetched.
AckJob ==
    /\ RunnerTo("finish", "idle")
    /\ inflight' = SubSeq(inflight, 1, Len(inflight) - 1)
    /\ cyc' = [cyc EXCEPT !.runner = NoCycle]
    /\ UNCHANGED <<ledger, jobs, journal, completed, toMaster, started, ran, emitted, faults>>

-----------------------------------------------------------------------------
(* The connection, and the crashes.                                        *)

\* Frames the master has read are already tasks and may survive the connection.
CutConnection ==
    /\ link' = "down"
    /\ toMaster' = <<>>
    /\ \E i \in 0..Len(toMaster) :
        tasks' = {Task(f, FALSE) : f \in {g \in tasks \cup Tasks(SubSeq(toMaster, 1, i), FALSE) : g.kind \in Kinds}}
    /\ replaying' = {}
    /\ direct' = <<>>
    /\ bcast' = <<>>

LinkDrop ==
    /\ link # "down"
    /\ faults.drops < MaxDrops
    /\ faults' = [faults EXCEPT !.drops = @ + 1]
    /\ CutConnection
    /\ UNCHANGED <<cmdq, toBcast, claimed, recorded, recording, storeVars, actorVars, historyVars>>

\* reconnect_transport aborts the old reader at an await, bootstraps and starts a new one.
Connect ==
    /\ link = "down"
    /\ pc.reader \in {"off", "idle", "replay", "send"}
    /\ link' = "secured"
    /\ ReaderTo("idle", NoCycle)
    /\ todo' = Nothing
    /\ UNCHANGED <<masterVars, storeVars, toMaster, tasks, direct, bcast, historyVars, faults>>

SendEhlo ==
    /\ link = "secured"
    /\ link' = "live"
    /\ SendToMaster(Msg("ehlo", NoCycle))
    /\ UNCHANGED <<masterVars, storeVars, actorVars, tasks, direct, bcast, historyVars, faults>>

\* The minion dies and starts again: open moves the inflight jobs back to pending.
MinionCrash ==
    /\ faults.crashes < MaxCrashes
    /\ faults' = [faults EXCEPT !.crashes = @ + 1]
    /\ CutConnection
    /\ jobs' = inflight \o jobs
    /\ inflight' = <<>>
    /\ pc' = [runner |-> "idle", reader |-> "off"]
    /\ cyc' = [runner |-> NoCycle, reader |-> NoCycle]
    /\ todo' = Nothing
    /\ started' = {}
    /\ UNCHANGED <<cmdq, toBcast, claimed, recorded, recording, ledger, journal, completed, ran, cleared, emitted>>

MasterCrash ==
    /\ faults.masterCrashes < MaxMasterCrashes
    /\ faults' = [faults EXCEPT !.masterCrashes = @ + 1]
    /\ toBcast' = {}
    /\ replaying' = {}
    /\ recording' = {}
    /\ link' = "down"
    /\ toMaster' = <<>>
    /\ tasks' = {}
    /\ direct' = <<>>
    /\ bcast' = <<>>
    /\ UNCHANGED <<cmdq, claimed, recorded, storeVars, actorVars, historyVars>>

-----------------------------------------------------------------------------

Submission == \E c \in Cycles : Enqueue(c) \/ BroadcastCommand(c)
MasterTask ==
    \/ \E frame \in Spawned :
        HandleEhlo(frame) \/ HandleTraits(frame) \/ HandleEvent(frame) \/ HandleModelAck(frame)
    \/ \E c \in Cycles : ReplayCommand(c) \/ RecordEvent(c)
Frames == {direct[i] : i \in 1..Len(direct)} \cup {bcast[i] : i \in 1..Len(bcast)}
ModelAckBy(a) == JournalAck(a) \/ MarkComplete(a) \/ LedgerComplete(a) \/ SendModelAck(a)
Reader ==
    \/ \E frame \in Frames :
        \/ ClaimCommand(frame) \/ DuplicateCommand(frame)
        \/ ReceiveCycleAck(frame) \/ ReceiveTraitsRequest(frame)
    \/ AddJob
    \/ \E c \in Cycles : ReplayCycle(c)
    \/ ModelAckBy("reader")
Execute ==
    \/ FetchJob \/ CheckCompleted \/ StartModel
    \/ ActionEvent \/ EndModel \/ ModelAckBy("runner") \/ AckJob
Connection == Connect \/ SendEhlo

Next ==
    \/ Submission \/ MasterTask \/ Reader \/ Execute \/ AddFails \/ RefuseLaunch \/ Connection
    \/ LinkDrop \/ MinionCrash \/ MasterCrash

Spec == Init /\ [][Next]_vars

\* Every task and every loop of the two programs goes on, and the minion reconnects for ever
\* (master.reconnect); a command is submitted and a fault happens only if somebody wants.
Fairness ==
    /\ WF_vars(\E c \in Cycles : BroadcastCommand(c))
    /\ WF_vars(MasterTask)
    /\ WF_vars(Reader)
    /\ WF_vars(Execute)
    /\ WF_vars(Connection)

FairSpec == Spec /\ Fairness

-----------------------------------------------------------------------------
(* Properties.                                                             *)

FrameTo(kinds) == [kind : kinds, cycle : Cycles \cup {NoCycle}]

\* The types of the state.
TypeOK ==
    /\ cmdq \in [Cycles -> {"none", "pending", "replayed"}]
    /\ toBcast \subseteq Cycles
    /\ replaying \subseteq Cycles
    /\ claimed \subseteq Cycles
    /\ recorded \in [Cycles -> Nat]
    /\ recording \subseteq Cycles
    /\ ledger \in [Cycles -> {"none", "accepted", "running", "completed"}]
    /\ jobs \in Seq(Cycles)
    /\ inflight \in Seq(Cycles)
    /\ journal \in [Cycles -> SUBSET Kinds]
    /\ completed \subseteq Cycles
    /\ pc.runner \in {"idle", "check", "dispatch", "actions", "model", "ack", "mark", "ledger", "send", "finish"}
    /\ pc.reader \in {"off", "idle", "add", "replay", "ack", "mark", "ledger", "send"}
    /\ cyc \in [Actors -> Cycles \cup {NoCycle}]
    /\ todo \in [Cycles -> SUBSET Kinds]
    /\ link \in {"down", "secured", "live"}
    /\ toMaster \in Seq([kind : {"ehlo", "traits", "event", "modelAck"}, cycle : Cycles \cup {NoCycle}])
    /\ tasks \subseteq [kind : {"ehlo", "traits", "event", "modelAck"}, cycle : Cycles \cup {NoCycle}, live : BOOLEAN]
    /\ direct \in Seq(FrameTo({"command", "cycleAck"}))
    /\ bcast \in Seq(FrameTo({"command", "traits"}))
    /\ UNION {started, ran, cleared, emitted} \subseteq Cycles

Queued == {jobs[i] : i \in 1..Len(jobs)} \cup {inflight[i] : i \in 1..Len(inflight)}

\* The master forgets a queued command only after the minion executed it to its end, through
\* every replay, duplicate, reordering and restart ("the Master clears one durable outbound
\* command only after the Minion sends ModelAck for that cycle", docs/global_config.rst).
ClearedOnlyAfterRun == cleared \subseteq ran

\* Replays of a command and restarts never put a second job for its cycle into the minion's
\* queue ("duplicate local execution is suppressed on the Minion", docs/global_config.rst).
OneJobPerCycle ==
    LET all == inflight \o jobs IN \A i, j \in 1..Len(all) : all[i] = all[j] => i = j

\* However often the journal is replayed, the master records an event once.
EventRecordedOnce == \A c \in Cycles : recorded[c] <= 1

\* The launch of c was refused: a failure was reported and the model not started.  (After a
\* crash `started` begins anew.)
Refused(c) == c \in emitted \ started

\* While the minion does not crash, a command it claimed and did not complete is in its queue
\* or on its way there, also when the add to the queue fails: no later duplicate, all of which
\* are dropped, has to bring it back.  Only a refused launch leaves a claim without a job.
ClaimedHasJob ==
    faults.crashes = 0 =>
        \A c \in Cycles :
            ledger[c] \in {"accepted", "running"} =>
                c \in Queued \/ (pc.reader = "add" /\ cyc.reader = c) \/ Refused(c)

Unbroken == faults.crashes = 0 /\ faults.failures = 0

\* What makes the master replay its queue: the ehlo of a connection that is not up yet, or one
\* of the frames that follow it.
ReplayDue ==
    \/ link # "live"
    \/ \E frame \in Spawned : frame.kind \in {"ehlo", "traits"}
    \/ \E frame \in Frames : frame.kind = "traits"

\* The command of c waits in the minion's queue for the end of its execution.
ToRun(c) ==
    \/ c \in Queued /\ ~(pc.runner = "finish" /\ cyc.runner = c)
    \/ pc.reader = "add" /\ cyc.reader = c

\* The ModelAck of c is written, or is on its way to the master.
AckDue(c) ==
    \/ \E a \in Actors : pc[a] \in {"ack", "mark", "ledger", "send"} /\ cyc[a] = c
    \/ \E frame \in Spawned : frame.kind = "modelAck" /\ frame.cycle = c

\* What will bring a ModelAck of c to the master, or the command to the minion once more.
Pledged(c) ==
    \/ ReplayDue
    \/ c \in toBcast \cup replaying
    \/ \E frame \in Frames : frame.kind = "command" /\ frame.cycle = c
    \/ ToRun(c)
    \/ AckDue(c)

\* While the minion neither crashes nor fails locally, a queued command never waits for nothing:
\* it is about to be sent or on its way, it waits for its execution, its ModelAck is due, or the
\* replay is that starts it again (bcast_master_msg, on_traits, claim_inbound_command).
NothingStranded == Unbroken => \A c \in Cycles : cmdq[c] # "none" => Pledged(c)

\* The journal keeps an event until the master has it ("no data is lost when the network
\* connection drops", journal.path in docs/global_config.rst).
NoLostEvent ==
    \A c \in emitted :
        \/ "event" \in journal[c] \/ c \in recording \/ recorded[c] > 0
        \/ \E frame \in Spawned : frame.kind = "event" /\ frame.cycle = c

\* "After this point a hard restart may replay delivery, but must not re-run the model
\* locally" (send_model_ack): a completed cycle is not dispatched again.
CompletedNeverReruns ==
    [][\A c \in Cycles : StartModel /\ cyc.runner = c => ledger[c] # "completed"]_vars

\* A queued command is executed and cleared in the end, although connections drop and the
\* master restarts ("delivery is at-least-once", docs/global_config.rst).
SubmittedIsCleared == \A c \in Cycles : (cmdq[c] # "none") ~> (cmdq[c] = "none")

\* No other command than c was submitted.
Alone(c) == \A d \in Cycles \ {c} : cmdq[d] = "none" /\ d \notin cleared

\* A result in the journal is acknowledged and freed in the end, although its CycleAck is lost
\* with a connection or finds the direct channel full ("replay all pending results once the
\* transport recovers", docs/global_config.rst).  A channel full of other commands' frames can
\* swallow it until the next connection.
JournalIsFreed ==
    \A c \in Cycles : (journal[c] # {} /\ Alone(c)) ~> (journal[c] = {} \/ ~Alone(c))

Contract == INSTANCE CommandContract WITH
    submitted <- {c \in Cycles : cmdq[c] # "none"} \cup cleared,
    running <- IF pc.runner \in {"actions", "model"} THEN {cyc.runner} ELSE {}

\* The two programs implement the contract of CommandContract.tla.
ImplementsContract == Contract!Spec

=============================================================================
