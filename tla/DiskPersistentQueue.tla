------------------------- MODULE DiskPersistentQueue -------------------------
(***************************************************************************)
(* The disk-backed job queue of libdpq (src/libdpq/src/lib.rs).            *)
(*                                                                         *)
(* The queue keeps four sled trees: the id counter, the job payloads and   *)
(* two marker trees, pending and inflight.  Every operation is a short     *)
(* sequence of single-tree operations that ends in a flush, and the code   *)
(* takes no lock around the sequence, so this module makes every tree      *)
(* operation a step of its own.  sled writes its log in operation order    *)
(* and a crash keeps a prefix of it that contains at least what was        *)
(* flushed: "mem" is the content the process sees, "disk" the prefix that  *)
(* would survive a crash now, and Persist (sled's background flusher) may  *)
(* bring disk up to date at any time.                                      *)
(***************************************************************************)
EXTENDS Integers, FiniteSets

CONSTANTS
    Adders,     \* tasks that call add: the protocol reader, the reactor's pipeline handler
    Runners,    \* runner loops of start_ack over the queue; sysminion starts one at a time
    MaxId,      \* bound: the largest job id handed out
    MaxCrashes, \* bound: process crashes
    MaxAborts   \* bound: runners aborted by the minion while a job executes

ASSUME BoundsAssumption ==
    /\ MaxId \in Nat \ {0}
    /\ MaxCrashes \in Nat
    /\ MaxAborts \in Nat

VARIABLES
    mem,      \* the trees as the process sees them
    disk,     \* the trees as a crash would leave them
    phase,    \* "recovering" while open runs recover, "open" afterwards
    addPc,    \* where each adder stands in add
    addId,    \* the id add assigned
    runPc,    \* where each runner stands in fetch / exec / ack / nack
    runId,    \* the job a runner holds
    accepted, \* history: jobs whose add returned Ok
    finished, \* history: jobs whose execution succeeded
    settled,  \* history: the jobs of finished that this process finished itself
    acked,    \* history: jobs whose ack returned Ok
    crashes,  \* crashes so far
    aborts    \* aborts so far

queueVars == <<mem, disk>>
adderVars == <<addPc, addId>>
runnerVars == <<runPc, runId>>
historyVars == <<accepted, finished, settled, acked>>
outcomeVars == <<finished, settled, acked>>
faultVars == <<crashes, aborts>>
vars == <<mem, disk, phase, addPc, addId, runPc, runId,
          accepted, finished, settled, acked, crashes, aborts>>

JobId == 1..MaxId
Trees == [next : 1..(MaxId + 1), jobs : SUBSET JobId, pending : SUBSET JobId, inflight : SUBSET JobId]
AddPc == {"idle", "store", "mark", "flush"}
RunPc == {"idle", "claim", "unmark", "moved", "load", "exec", "ack", "ackJob", "ackFlush",
          "nack", "nackDone", "nackFlush", "drop", "dropPending", "dropFlush"}

(* The key pending.iter().next() yields: big-endian keys, so the least id. *)
IsHead(S, id) == id \in S /\ \A other \in S : id <= other

Init ==
    /\ mem = [next |-> 1, jobs |-> {}, pending |-> {}, inflight |-> {}]
    /\ disk = mem
    /\ phase = "recovering"
    /\ addPc = [a \in Adders |-> "idle"]
    /\ addId = [a \in Adders |-> 1]
    /\ runPc = [r \in Runners |-> "idle"]
    /\ runId = [r \in Runners |-> 1]
    /\ accepted = {}
    /\ finished = {}
    /\ settled = {}
    /\ acked = {}
    /\ crashes = 0
    /\ aborts = 0

-----------------------------------------------------------------------------
(* add: next_id, store_task, the pending marker, flush.                    *)

AddStep(a, from, to) ==
    /\ phase = "open"
    /\ addPc[a] = from
    /\ addPc' = [addPc EXCEPT ![a] = to]
    /\ UNCHANGED <<phase, runnerVars, outcomeVars, faultVars>>

\* Mutant: the counter is read and not advanced.
NextIdKept(a) ==
    /\ AddStep(a, "idle", "store")
    /\ mem.next <= MaxId
    /\ addId' = [addId EXCEPT ![a] = mem.next]
    /\ UNCHANGED <<queueVars, accepted>>

\* fetch_and_update on meta assigns an id atomically; a crash may roll it back.
NextId(a) ==
    /\ AddStep(a, "idle", "store")
    /\ mem.next <= MaxId
    /\ addId' = [addId EXCEPT ![a] = mem.next]
    /\ mem' = [mem EXCEPT !.next = @ + 1]
    /\ UNCHANGED <<disk, accepted>>

StoreTask(a) ==
    /\ AddStep(a, "store", "mark")
    /\ mem' = [mem EXCEPT !.jobs = @ \cup {addId[a]}]
    /\ UNCHANGED <<disk, addId, accepted>>

MarkPending(a) ==
    /\ AddStep(a, "mark", "flush")
    /\ mem' = [mem EXCEPT !.pending = @ \cup {addId[a]}]
    /\ UNCHANGED <<disk, addId, accepted>>

\* Mutant: add returns before its writes are flushed.
AddUnflushed(a) ==
    /\ AddStep(a, "flush", "idle")
    /\ accepted' = accepted \cup {addId[a]}
    /\ UNCHANGED <<queueVars, addId>>

AddFlush(a) ==
    /\ AddStep(a, "flush", "idle")
    /\ disk' = mem
    /\ accepted' = accepted \cup {addId[a]}
    /\ UNCHANGED <<mem, addId>>

-----------------------------------------------------------------------------
(* fetch: the least pending key, pending -> inflight, flush, load_task.    *)

RunStep(r, from, to) ==
    /\ phase = "open"
    /\ runPc[r] = from
    /\ runPc' = [runPc EXCEPT ![r] = to]
    /\ UNCHANGED <<phase, adderVars, accepted, crashes>>

\* Mutant: last() in the place of iter().next(), the youngest job first.
FetchNewest(r) ==
    /\ RunStep(r, "idle", "claim")
    /\ \E id \in mem.pending : (\A other \in mem.pending : other <= id) /\ runId' = [runId EXCEPT ![r] = id]
    /\ UNCHANGED <<queueVars, outcomeVars, aborts>>

FetchPick(r) ==
    /\ RunStep(r, "idle", "claim")
    /\ \E id \in mem.pending : IsHead(mem.pending, id) /\ runId' = [runId EXCEPT ![r] = id]
    /\ UNCHANGED <<queueVars, outcomeVars, aborts>>

FetchClaim(r) ==
    /\ RunStep(r, "claim", "unmark")
    /\ mem' = [mem EXCEPT !.inflight = @ \cup {runId[r]}]
    /\ UNCHANGED <<disk, runId, outcomeVars, aborts>>

FetchUnmark(r) ==
    /\ RunStep(r, "unmark", "moved")
    /\ mem' = [mem EXCEPT !.pending = @ \ {runId[r]}]
    /\ UNCHANGED <<disk, runId, outcomeVars, aborts>>

FetchFlush(r) ==
    /\ RunStep(r, "moved", "load")
    /\ disk' = mem
    /\ UNCHANGED <<mem, runId, outcomeVars, aborts>>

LoadTask(r) ==
    /\ RunStep(r, "load", IF runId[r] \in mem.jobs THEN "exec" ELSE "drop")
    /\ UNCHANGED <<queueVars, runId, outcomeVars, aborts>>

(* A marker without a payload: "dropping markers (queue corruption or race)". *)
DropInflight(r) ==
    /\ RunStep(r, "drop", "dropPending")
    /\ mem' = [mem EXCEPT !.inflight = @ \ {runId[r]}]
    /\ UNCHANGED <<disk, runId, outcomeVars, aborts>>

DropPending(r) ==
    /\ RunStep(r, "dropPending", "dropFlush")
    /\ mem' = [mem EXCEPT !.pending = @ \ {runId[r]}]
    /\ UNCHANGED <<disk, runId, outcomeVars, aborts>>

DropFlush(r) ==
    /\ RunStep(r, "dropFlush", "idle")
    /\ disk' = mem
    /\ UNCHANGED <<mem, runId, outcomeVars, aborts>>

-----------------------------------------------------------------------------
(* The runner loop: execute, then ack or nack.                             *)

ExecOk(r) ==
    /\ RunStep(r, "exec", "ack")
    /\ finished' = finished \cup {runId[r]}
    /\ settled' = settled \cup {runId[r]}
    /\ UNCHANGED <<queueVars, runId, acked, aborts>>

\* Mutant: the loop acks a job that failed.
ExecErrAcked(r) ==
    /\ RunStep(r, "exec", "ack")
    /\ UNCHANGED <<queueVars, runId, outcomeVars, aborts>>

ExecErr(r) ==
    /\ RunStep(r, "exec", "nack")
    /\ UNCHANGED <<queueVars, runId, outcomeVars, aborts>>

\* The minion gives up draining (RUNNER_DRAIN_TIMEOUT), aborts the runner at an await
\* of the closure and starts another one on the queue that is still open.
Abort(r) ==
    /\ RunStep(r, "exec", "idle")
    /\ aborts < MaxAborts
    /\ aborts' = aborts + 1
    /\ UNCHANGED <<queueVars, runId, outcomeVars>>

AckInflight(r) ==
    /\ RunStep(r, "ack", "ackJob")
    /\ mem' = [mem EXCEPT !.inflight = @ \ {runId[r]}]
    /\ UNCHANGED <<disk, runId, outcomeVars, aborts>>

AckJob(r) ==
    /\ RunStep(r, "ackJob", "ackFlush")
    /\ mem' = [mem EXCEPT !.jobs = @ \ {runId[r]}]
    /\ UNCHANGED <<disk, runId, outcomeVars, aborts>>

\* Mutant: ack returns before its removals are flushed.
AckUnflushed(r) ==
    /\ RunStep(r, "ackFlush", "idle")
    /\ acked' = acked \cup {runId[r]}
    /\ UNCHANGED <<queueVars, runId, finished, settled, aborts>>

AckFlush(r) ==
    /\ RunStep(r, "ackFlush", "idle")
    /\ disk' = mem
    /\ acked' = acked \cup {runId[r]}
    /\ UNCHANGED <<mem, runId, finished, settled, aborts>>

NackPending(r) ==
    /\ RunStep(r, "nack", "nackDone")
    /\ mem' = [mem EXCEPT !.pending = @ \cup {runId[r]}]
    /\ UNCHANGED <<disk, runId, outcomeVars, aborts>>

NackInflight(r) ==
    /\ RunStep(r, "nackDone", "nackFlush")
    /\ mem' = [mem EXCEPT !.inflight = @ \ {runId[r]}]
    /\ UNCHANGED <<disk, runId, outcomeVars, aborts>>

NackFlush(r) ==
    /\ RunStep(r, "nackFlush", "idle")
    /\ disk' = mem
    /\ UNCHANGED <<mem, runId, outcomeVars, aborts>>

-----------------------------------------------------------------------------
(* Crash, open and recover; sled's background flusher.                     *)

Persist ==
    /\ disk # mem
    /\ disk' = mem
    /\ UNCHANGED <<mem, phase, adderVars, runnerVars, historyVars, faultVars>>

Crash ==
    /\ crashes < MaxCrashes
    /\ crashes' = crashes + 1
    /\ mem' = disk
    /\ phase' = "recovering"
    /\ addPc' = [a \in Adders |-> "idle"]
    /\ runPc' = [r \in Runners |-> "idle"]
    /\ settled' = {}
    /\ UNCHANGED <<disk, addId, runId, accepted, finished, acked, aborts>>

RecoverStep ==
    /\ phase = "recovering"
    /\ UNCHANGED <<adderVars, runnerVars, historyVars, faultVars>>

RecoverPending ==
    /\ RecoverStep
    /\ \E id \in mem.inflight \ mem.pending :
        /\ IsHead(mem.inflight, id)
        /\ mem' = [mem EXCEPT !.pending = @ \cup {id}]
    /\ UNCHANGED <<disk, phase>>

RecoverInflight ==
    /\ RecoverStep
    /\ \E id \in mem.inflight \cap mem.pending :
        /\ IsHead(mem.inflight, id)
        /\ mem' = [mem EXCEPT !.inflight = @ \ {id}]
    /\ UNCHANGED <<disk, phase>>

\* Mutant: open leaves the inflight jobs where they are.
RecoverSkipped ==
    /\ RecoverStep
    /\ phase' = "open"
    /\ UNCHANGED queueVars

RecoverFlush ==
    /\ RecoverStep
    /\ mem.inflight = {}
    /\ disk' = mem
    /\ phase' = "open"
    /\ UNCHANGED mem

-----------------------------------------------------------------------------

Add(a) == NextId(a) \/ StoreTask(a) \/ MarkPending(a) \/ AddFlush(a)
Fetch(r) == FetchPick(r) \/ FetchClaim(r) \/ FetchUnmark(r) \/ FetchFlush(r) \/ LoadTask(r)
Drop(r) == DropInflight(r) \/ DropPending(r) \/ DropFlush(r)
Ack(r) == AckInflight(r) \/ AckJob(r) \/ AckFlush(r)
Nack(r) == NackPending(r) \/ NackInflight(r) \/ NackFlush(r)
Recover == RecoverPending \/ RecoverInflight \/ RecoverFlush

Next ==
    \/ \E a \in Adders : Add(a)
    \/ \E r \in Runners : Fetch(r) \/ Drop(r) \/ ExecOk(r) \/ ExecErr(r) \/ Abort(r) \/ Ack(r) \/ Nack(r)
    \/ Recover
    \/ Persist
    \/ Crash

Spec == Init /\ [][Next]_vars

\* The runner loop and open never stop by themselves (the loop polls every 500 ms), an add
\* that began returns, and an execution that is retried for ever succeeds at some point.
Fairness ==
    /\ WF_vars(Recover)
    /\ \A a \in Adders : WF_vars(StoreTask(a) \/ MarkPending(a) \/ AddFlush(a))
    /\ \A r \in Runners : WF_vars(Fetch(r) \/ Drop(r) \/ Ack(r) \/ Nack(r)) /\ SF_vars(ExecOk(r))

FairSpec == Spec /\ Fairness

-----------------------------------------------------------------------------
(* Invariants.                                                             *)

\* The types of the state.
TypeOK ==
    /\ mem \in Trees
    /\ disk \in Trees
    /\ phase \in {"recovering", "open"}
    /\ addPc \in [Adders -> AddPc]
    /\ addId \in [Adders -> JobId]
    /\ runPc \in [Runners -> RunPc]
    /\ runId \in [Runners -> JobId]
    /\ accepted \subseteq JobId
    /\ finished \subseteq JobId
    /\ settled \subseteq JobId
    /\ acked \subseteq JobId
    /\ crashes \in 0..MaxCrashes
    /\ aborts \in 0..MaxAborts

Marked(trees) == trees.pending \cup trees.inflight

\* A job whose add returned and that has not run yet is on disk with its payload and
\* a marker in every state, in the middle of any operation: no crash loses it
\* ("move all inflight items back to pending ... to avoid losing them", recover).
NoLostJob == accepted \ finished \subseteq disk.jobs \cap Marked(disk)

\* An id that some add returned or some runner executed is never handed out a second
\* time, even when a crash rolls the id counter back to what was flushed (next_id:
\* "each job gets a unique ID even in concurrent scenarios").
NoIdReuse == \A id \in accepted \cup finished : id < disk.next

\* A job whose ack returned never runs again, whatever crashes, aborts and retries
\* follow (ack: "the job is done and can be removed from the queue").
AckedNeverRestarts == \A r \in Runners : runPc[r] = "exec" => runId[r] \notin acked

-----------------------------------------------------------------------------
(* The inductive invariant of the queue as the minion uses it: with one runner. *)

SingleRunner == \A r, s \in Runners : r = s

\* What holds of the trees in memory and of those on disk.
Stored(trees) ==
    /\ Marked(trees) \subseteq trees.jobs
    /\ \A id \in trees.jobs : id < trees.next
    /\ accepted \ finished \subseteq trees.jobs \cap Marked(trees)
    /\ acked \cap Marked(trees) = {}

Counters ==
    /\ disk.next <= mem.next
    /\ \A id \in accepted \cup finished : id < disk.next
    /\ acked \subseteq finished

AddersOK ==
    /\ \A a \in Adders : addPc[a] # "idle" => phase = "open" /\ addId[a] < mem.next
    /\ \A a, b \in Adders : addPc[a] # "idle" /\ addPc[b] # "idle" /\ addId[a] = addId[b] => a = b
    /\ \A a \in Adders : addPc[a] \in {"store", "mark"} => addId[a] \notin Marked(mem) \cup finished
    /\ \A a \in Adders : addPc[a] = "mark" => addId[a] \in mem.jobs
    /\ \A a \in Adders : addPc[a] = "flush" => addId[a] \in finished \cup (mem.jobs \cap Marked(mem))

\* Where the marker of the job is while a runner works on it.
RunnersOK ==
    \A r \in Runners :
        /\ runPc[r] # "idle" => phase = "open"
        /\ runPc[r] \notin {"drop", "dropPending", "dropFlush"}
        /\ runPc[r] \in {"claim", "nackDone"} => runId[r] \in mem.pending
        /\ runPc[r] \in {"unmark", "moved", "load", "exec", "nack"} => runId[r] \in mem.inflight
        /\ runPc[r] \in {"moved", "load", "exec", "nack"} => runId[r] \notin mem.pending
        /\ runPc[r] \in {"load", "exec", "nack"} => runId[r] < disk.next
        /\ runPc[r] \in {"ack", "ackJob", "ackFlush"} => runId[r] \in finished /\ runId[r] \notin mem.pending
        /\ runPc[r] \in {"ackJob", "ackFlush"} => runId[r] \notin mem.inflight

\* Every marker has a payload, every id was handed out, and what add accepted is marked
\* or done, in memory and on disk alike; runners and adders agree with the trees.
Consistent == Stored(mem) /\ Stored(disk) /\ Counters /\ AddersOK /\ RunnersOK

-----------------------------------------------------------------------------
(* The order of service.                                                   *)

\* What a runner fetches is older than every other job whose add returned and that has
\* not run, retried and recovered ones included, but for one that an aborted runner left
\* inflight (fetch takes the first of the big-endian keys): a job that was nacked or
\* recovered comes back to the head, and no younger one overtakes it.
ServedInOrder ==
    [][\A r \in Runners : runPc[r] = "idle" /\ runPc'[r] = "claim" =>
        \A id \in accepted \ finished :
            runId'[r] <= id \/ (aborts > 0 /\ id \in mem.inflight)]_vars

\* A marker stays inflight between two jobs only when a runner was aborted: with one runner,
\* every other way out of fetch, ack, nack and recover takes it away.
InflightIsHeld ==
    phase = "open" /\ aborts = 0 =>
        \A id \in mem.inflight : \E r \in Runners :
            runId[r] = id /\ runPc[r] \in {"unmark", "moved", "load", "exec", "ack", "nack", "nackDone"}

-----------------------------------------------------------------------------
(* Liveness.                                                               *)

\* A job whose add returned is executed in the end, across crashes of the process
\* (recover), unless a runner was aborted with a job inflight.
EveryAcceptedJobFinishes == \A id \in JobId : (id \in accepted) ~> (id \in finished \/ aborts > 0)

-----------------------------------------------------------------------------
(* What the queue promises its users.                                      *)

Running(r) == IF runPc[r] = "exec" THEN {runId[r]} ELSE {}

Promise == INSTANCE JobQueue WITH
    Jobs <- JobId,
    owed <- accepted \ finished,
    done <- finished,
    running <- [r \in Runners |-> Running(r)],
    closed <- acked

\* The queue implements the job queue of JobQueue.tla: every sequence of tree
\* operations, crashes and recoveries looks like offers, starts and ends of jobs.
ImplementsJobQueue == Promise!Spec

=============================================================================
