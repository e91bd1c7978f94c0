---------------------------- MODULE TaskTracking ----------------------------
(***************************************************************************)
(* Who is busy with what: the master's task registry (sysmaster:           *)
(* registry/taskreg.rs), which selects members of a cluster, and the       *)
(* minion's counter of tasks (sysminion: ptcounter.rs), which a drain      *)
(* waits for.  The console registers a command after it was broadcast; a   *)
(* ModelAck and every pong forget; both arrive in tasks of their own.      *)
(*                                                                         *)
(* Queue, ledger and journal are as in DurableDelivery, at a coarser       *)
(* grain.  An internal command (cmd://) is called by the reader of the     *)
(* minion, is not counted and has no ModelAck.                             *)
(***************************************************************************)
EXTENDS Naturals, Sequences, FiniteSets, SequencesExt

CONSTANTS
    Minions,
    Commands,     \* commands of the console, by their cycle
    Internal,     \* those that are internal
    MaxPongs,     \* bound on the pongs of a minion on their way
    MaxFaults     \* bound on lost connections, restarts and failed launches

ASSUME InternalAssumption == Internal \subseteq Commands
ASSUME BoundsAssumption == MaxPongs \in Nat \ {0} /\ MaxFaults \in Nat

VARIABLES
    sent,         \* per command: where broadcast_console_messages is
    ongoing,      \* TaskRegistry.ongoing: minions per command, {} for no entry
    cmdq,         \* per command: minions it is queued for
    up,           \* minions with a connection
    inbox,        \* per minion: commands on their way to it
    claimed,      \* per minion: commands in its ledger
    queue,        \* per minion: its jobs, the head is the one in progress
    run,          \* per minion: where the runner is with that job
    count,        \* per minion: PTCounter.tasks
    done,         \* per minion: PTCounter.done
    acks,         \* ModelAcks on their way to their handler
    pongs,        \* pongs on their way to their handler
    dispatched,   \* history: commands this process of a minion counted
    completed,    \* per minion: commands whose completion it recorded
    faults

masterVars == <<sent, ongoing, cmdq>>
jobVars == <<claimed, queue, run, count, done, dispatched>>
netVars == <<up, inbox, acks, pongs>>
vars == <<masterVars, jobVars, netVars, completed, faults>>

Models == Commands \ Internal
Pongs == [mid : Minions, completed : SUBSET Commands]
Acks == [mid : Minions, cycle : Models]
Each(x) == [m \in Minions |-> x]

TypeOK ==
    /\ sent \in [Commands -> {"no", "broadcast", "registered"}]
    /\ ongoing \in [Commands -> SUBSET Minions]
    /\ cmdq \in [Commands -> SUBSET Minions]
    /\ up \subseteq Minions
    /\ inbox \in [Minions -> SUBSET Commands]
    /\ claimed \in [Minions -> SUBSET Models]
    /\ queue \in [Minions -> Seq(Models)]
    /\ run \in [Minions -> {"idle", "count", "model", "uncount", "finish"}]
    /\ \A f \in {count, done, dispatched, completed} : f \in [Minions -> SUBSET Models]
    /\ acks \subseteq Acks /\ pongs \subseteq Pongs
    /\ faults \in 0 .. MaxFaults

Init ==
    /\ sent = [c \in Commands |-> "no"]
    /\ ongoing = [c \in Commands |-> {}] /\ cmdq = [c \in Commands |-> {}]
    /\ up = Minions /\ inbox = Each({})
    /\ claimed = Each({}) /\ queue = Each(<<>>) /\ run = Each("idle")
    /\ count = Each({}) /\ done = Each({})
    /\ acks = {} /\ pongs = {}
    /\ dispatched = Each({}) /\ completed = Each({})
    /\ faults = 0

Fault == faults < MaxFaults /\ faults' = faults + 1

-----------------------------------------------------------------------------
(* The master: broadcast, then register; the handlers.                     *)

\* bcast_master_msg queues a model for every targeted minion, connected or not.
Broadcast(c) ==
    /\ sent[c] = "no"
    /\ sent' = [sent EXCEPT ![c] = "broadcast"]
    /\ cmdq' = [cmdq EXCEPT ![c] = IF c \in Models THEN Minions ELSE {}]
    /\ inbox' = [m \in Minions |-> IF m \in up THEN inbox[m] \cup {c} ELSE inbox[m]]
    /\ UNCHANGED <<ongoing, jobVars, up, acks, pongs, completed, faults>>

\* register_broadcast_targets takes the minions with a live session by now,
\* which may differ from those with a connection for a while.
Register(c) ==
    /\ sent[c] = "broadcast"
    /\ sent' = [sent EXCEPT ![c] = "registered"]
    /\ \E alive \in SUBSET Minions : ongoing' = [ongoing EXCEPT ![c] = alive]
    /\ UNCHANGED <<cmdq, jobVars, netVars, completed, faults>>

(* Mutant: only what the pong lists as completed is forgotten.             *)
FlushCompleted(m, cs) ==
    [c \in Commands |-> IF c \in cs THEN ongoing[c] \ {m} ELSE ongoing[c]]

\* The list is only logged: flush forgets every task of the minion.
Flush(m, cs) == [c \in Commands |-> ongoing[c] \ {m}]

HandlePong(p) ==
    /\ p \in pongs
    /\ pongs' = pongs \ {p}
    /\ ongoing' = Flush(p.mid, p.completed)
    /\ UNCHANGED <<sent, cmdq, jobVars, up, inbox, acks, completed, faults>>

HandleModelAck(a) ==
    /\ a \in acks
    /\ acks' = acks \ {a}
    /\ cmdq' = [cmdq EXCEPT ![a.cycle] = @ \ {a.mid}]
    /\ ongoing' = [ongoing EXCEPT ![a.cycle] = @ \ {a.mid}]
    /\ UNCHANGED <<sent, jobVars, up, inbox, pongs, completed, faults>>

-----------------------------------------------------------------------------
(* The minion: the reader, the runner and the ping handler.                *)

AckOf(m, c) == [mid |-> m, cycle |-> c]
Send(m, frames) == IF m \in up THEN frames ELSE {}

\* A model that the minion's profiles exclude is dropped, as a duplicate is;
\* the duplicate of a completed one makes the ModelAck go out again.
Receive(m, c) ==
    /\ c \in inbox[m]
    /\ inbox' = [inbox EXCEPT ![m] = @ \ {c}]
    /\ \/ /\ c \in Models \ claimed[m]
          /\ claimed' = [claimed EXCEPT ![m] = @ \cup {c}]
          /\ queue' = [queue EXCEPT ![m] = Append(@, c)]
          /\ UNCHANGED acks
       \/ /\ c \in claimed[m] \cap completed[m]
          /\ acks' = acks \cup Send(m, {AckOf(m, c)})
          /\ UNCHANGED <<claimed, queue>>
       \/ /\ c \notin claimed[m] \cap completed[m]
          /\ UNCHANGED <<acks, claimed, queue>>
    /\ UNCHANGED <<masterVars, run, count, done, dispatched, up, pongs, completed, faults>>

\* The runner takes the head; a job that completed before a restart is over,
\* unless a CycleAck cleared its completion marker.
Fetch(m) ==
    /\ run[m] = "idle" /\ queue[m] # <<>>
    /\ \/ run' = [run EXCEPT ![m] = "count"]
       \/ Head(queue[m]) \in completed[m] /\ run' = [run EXCEPT ![m] = "finish"]
    /\ UNCHANGED <<masterVars, claimed, queue, count, done, dispatched, netVars,
                   completed, faults>>

At(m, where) == run[m] = where
Job(m) == Head(queue[m])

Inc(m) ==
    /\ At(m, "count")
    /\ run' = [run EXCEPT ![m] = "model"]
    /\ count' = [count EXCEPT ![m] = @ \cup {Job(m)}]
    /\ dispatched' = [dispatched EXCEPT ![m] = @ \cup {Job(m)}]
    /\ UNCHANGED <<masterVars, claimed, queue, done, netVars, completed, faults>>

(* Mutant: the early return decrements, but sends no ModelAck.             *)
RefuseLaunchCounted(m) ==
    /\ At(m, "model") /\ Fault
    /\ run' = [run EXCEPT ![m] = "finish"]
    /\ count' = [count EXCEPT ![m] = @ \ {Job(m)}]
    /\ UNCHANGED <<masterVars, claimed, queue, done, dispatched, netVars, completed>>

\* launch_sysinspect returns early: neither a ModelAck nor a dec.
RefuseLaunch(m) ==
    /\ At(m, "model") /\ Fault
    /\ run' = [run EXCEPT ![m] = "finish"]
    /\ UNCHANGED <<masterVars, claimed, queue, count, done, dispatched, netVars, completed>>

\* The end of the model: send_model_ack, and only then dec.
SendModelAck(m) ==
    /\ At(m, "model")
    /\ run' = [run EXCEPT ![m] = "uncount"]
    /\ completed' = [completed EXCEPT ![m] = @ \cup {Job(m)}]
    /\ acks' = acks \cup Send(m, {AckOf(m, Job(m))})
    /\ UNCHANGED <<masterVars, claimed, queue, count, done, dispatched, up, inbox, pongs, faults>>

Dec(m) ==
    /\ At(m, "uncount")
    /\ run' = [run EXCEPT ![m] = "finish"]
    /\ count' = [count EXCEPT ![m] = @ \ {Job(m)}]
    /\ done' = [done EXCEPT ![m] = @ \cup {Job(m)}]
    /\ UNCHANGED <<masterVars, claimed, queue, dispatched, netVars, completed, faults>>

FinishJob(m) ==
    /\ At(m, "finish")
    /\ run' = [run EXCEPT ![m] = "idle"]
    /\ queue' = [queue EXCEPT ![m] = Tail(@)]
    /\ UNCHANGED <<masterVars, claimed, count, done, dispatched, netVars, completed, faults>>

\* A ping every five seconds: while a task is counted the pong lists nothing.
IsDone(m) == count[m] = {}

Ping(m) ==
    /\ m \in up /\ Cardinality({p \in pongs : p.mid = m}) < MaxPongs
    /\ pongs' = pongs \cup {[mid |-> m, completed |-> IF IsDone(m) THEN done[m] ELSE {}]}
    /\ done' = IF IsDone(m) THEN [done EXCEPT ![m] = {}] ELSE done
    /\ UNCHANGED <<masterVars, claimed, queue, run, count, dispatched, up, inbox, acks,
                   completed, faults>>

-----------------------------------------------------------------------------
(* Connections and restarts.                                               *)

Of(m, frames) == {f \in frames : f.mid = m}

\* Frames the master has read stay with their handlers.
Disconnect(m) ==
    /\ up' = up \ {m}
    /\ inbox' = [inbox EXCEPT ![m] = {}]
    /\ \E lost \in SUBSET Of(m, acks) : acks' = acks \ lost
    /\ \E lost \in SUBSET Of(m, pongs) : pongs' = pongs \ lost

LoseConnection(m) ==
    /\ m \in up /\ Fault
    /\ Disconnect(m)
    /\ UNCHANGED <<masterVars, jobVars, completed>>

\* Both sides replay, the minion what no CycleAck has freed.
Reconnect(m) ==
    /\ m \notin up
    /\ up' = up \cup {m}
    /\ inbox' = [inbox EXCEPT ![m] = {c \in Commands : m \in cmdq[c]}]
    /\ \E journal \in SUBSET completed[m] : acks' = acks \cup {AckOf(m, c) : c \in journal}
    /\ UNCHANGED <<masterVars, jobVars, pongs, completed, faults>>

\* The counter is memory; ledger, queue and journal are not.
Restart(m) ==
    /\ Fault
    /\ Disconnect(m)
    /\ run' = [run EXCEPT ![m] = "idle"]
    /\ count' = [count EXCEPT ![m] = {}] /\ done' = [done EXCEPT ![m] = {}]
    /\ dispatched' = [dispatched EXCEPT ![m] = {}]
    /\ UNCHANGED <<masterVars, claimed, queue, completed>>

Runner(m) == \/ Fetch(m) \/ Inc(m) \/ SendModelAck(m) \/ Dec(m) \/ FinishJob(m)

Next ==
    \/ \E c \in Commands : Broadcast(c) \/ Register(c)
    \/ \E p \in pongs : HandlePong(p)
    \/ \E a \in acks : HandleModelAck(a)
    \/ \E m \in Minions :
        \/ \E c \in Commands : Receive(m, c)
        \/ Runner(m) \/ RefuseLaunch(m)
        \/ Ping(m) \/ LoseConnection(m) \/ Reconnect(m) \/ Restart(m)

Spec == Init /\ [][Next]_vars

(* Every task of the two programs goes on, the heartbeat included, and the *)
(* minion reconnects without limit.                                        *)
Fairness ==
    /\ \A c \in Commands : WF_vars(Register(c))
    /\ WF_vars(\E p \in pongs : HandlePong(p)) /\ WF_vars(\E a \in acks : HandleModelAck(a))
    /\ \A m \in Minions :
        /\ WF_vars(\E c \in Commands : Receive(m, c))
        /\ WF_vars(Runner(m)) /\ WF_vars(Ping(m)) /\ WF_vars(Reconnect(m))

FairSpec == Spec /\ Fairness

-----------------------------------------------------------------------------
(* Properties                                                              *)

(* When the counter is empty, which is what a drain waits for before it    *)
(* stops the runner, everything that was dispatched has recorded its       *)
(* completion: no refused launch, duplicate, restart or order of the last  *)
(* steps makes a drain end inside a run.                                   *)
IdleMeansCompleted == \A m \in Minions : IsDone(m) => dispatched[m] \subseteq completed[m]

(* A task that is registered for a minion is forgotten in the end: also    *)
(* one whose ModelAck came before the registration, one refused by the     *)
(* minion and an internal command, which has no ModelAck.                  *)
EveryTaskIsForgotten ==
    \A c \in Commands, m \in Minions : (m \in ongoing[c]) ~> (m \notin ongoing[c])

(* A task is forgotten when its ModelAck comes ("ModelAck is the first     *)
(* point where the master may safely forget one per-minion command",       *)
(* master.rs:1224-1226).  A pong that arrives during the run forgets it.   *)
TrackedUntilAck ==
    [][\A c \in Models, m \in Minions :
         m \in ongoing[c] /\ m \notin ongoing'[c] => AckOf(m, c) \in acks]_vars
=============================================================================
