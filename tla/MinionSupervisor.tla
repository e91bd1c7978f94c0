-------------------------- MODULE MinionSupervisor --------------------------
(***************************************************************************)
(* The life of a minion process (sysminion: minion.rs): the supervisor     *)
(* loop minion(), the instance it spawns, the tasks of the instance, and   *)
(* the recovery of the transport under them.                               *)
(*                                                                         *)
(* Tasks ask for a reconnect through a broadcast channel that keeps one    *)
(* signal: a receiver that is two behind gets Lagged.  Every task holds    *)
(* the SysMinion, whose journal and ledger are locked on disk, so there    *)
(* is one SysMinion at a time and the next one cannot be made while a      *)
(* task of the last one is left.                                           *)
(***************************************************************************)
EXTENDS Naturals, Sequences, SequencesExt

CONSTANTS
    Modes,       \* values of cfg.offline() considered
    Freqs,       \* values of cfg.reconnect_freq() considered, 0 for no limit
    MaxFaults    \* bound on faults and on requests to reconnect

ASSUME FreqsAssumption == Freqs \subseteq Nat /\ MaxFaults \in Nat

VARIABLES
    offline, freq,    \* the configuration
    reconnect,        \* whether it lets the minion reconnect (cfg.reconnect())
    fp,               \* started to register, with a pinned fingerprint
    trusted,          \* the master's identity is stored
    sup,              \* where minion() is
    supRx,            \* signals the supervisor has not received, 2 for Lagged
    ra,               \* its count of reconnects
    inst,             \* where _minion_instance or reconnect_transport is
    next,             \* what follows the recovery, or the drain
    instRx,           \* signals the instance has not received, 2 for Lagged
    attempts,         \* recovery attempts so far
    runner,           \* the task of start_ack
    runs,             \* blocking model runs in progress
    rlock,            \* FIFO queue of the lock rstm, its head holds it
    inhand,           \* readers with a frame not yet opened, in reading order
    stale,            \* the extra reader's frame is of an older connection
    pings,            \* live watchdogs of do_ping_update
    leaked,           \* a stats task without a handle is left
    link,             \* the socket in rstm and wstm
    secure,           \* the channel is set
    owed,             \* the master owes Traits for an ehlo
    recovered,        \* the recovery epoch was signalled
    outcome,          \* minion.registration
    master,           \* the master accepts connections
    faults            \* faults so far

config  == <<offline, freq, reconnect>>
supVars == <<fp, trusted, sup, supRx, ra>>
jobVars == <<runner, runs>>
taskVars == <<rlock, inhand, stale, pings, leaked>>
linkVars == <<link, secure, owed, recovered>>
env == <<master, faults>>
vars == <<config, supVars, inst, next, instRx, attempts, jobVars, taskVars, linkVars, outcome, env>>

Readers == {"tracked", "extra"}
AtTransport == {"r.clear", "r.connect", "r.boot", "r.hello", "r.wait"}
Ended == {"none", "ok", "err"}

\* There are at most two readers, a second one that was left behind and the
\* one with a handle, and each has its turn or has a frame.
EachOnce == IsInjective(rlock) /\ IsInjective(inhand) /\ ToSet(rlock) \cap ToSet(inhand) = {}

TypeOK ==
    /\ offline \in Modes /\ freq \in Freqs /\ reconnect \in BOOLEAN
    /\ fp \in BOOLEAN /\ trusted \in BOOLEAN
    /\ sup \in {"spawn", "watch", "stop", "exited"}
    /\ supRx \in 0 .. 2 /\ instRx \in 0 .. 2
    /\ ra \in 0 .. freq + 1 /\ attempts \in 0 .. freq
    /\ inst \in {"open", "register", "await", "boot", "recover", "proto", "sync",
                 "announce", "main", "drain"} \cup AtTransport \cup Ended
    /\ next \in {"proto", "main", "ok", "err"}
    /\ runner \in {"off", "idle", "busy"} /\ runs \in 0 .. 2
    /\ rlock \in Seq(Readers \cup {"recovery"}) /\ inhand \in Seq(Readers)
    /\ EachOnce
    /\ pings \subseteq Readers
    /\ stale \in BOOLEAN /\ leaked \in BOOLEAN /\ secure \in BOOLEAN
    /\ owed \in BOOLEAN /\ recovered \in BOOLEAN /\ master \in BOOLEAN
    /\ link \in {"none", "up", "eof", "mute"}
    /\ outcome \in {"pending", "accepted", "rejected"}
    /\ faults \in 0 .. MaxFaults

(* The process has just been started, with or without a fingerprint; a     *)
(* minion without one registered before.                                   *)
Init ==
    /\ offline \in Modes /\ freq \in Freqs /\ reconnect \in BOOLEAN
    /\ fp \in BOOLEAN /\ trusted = ~fp
    /\ sup = "spawn" /\ supRx = 0 /\ ra = 0
    /\ inst = "none" /\ next = "ok" /\ instRx = 0 /\ attempts = 0
    /\ runner = "off" /\ runs = 0
    /\ rlock = <<>> /\ inhand = <<>> /\ stale = FALSE /\ pings = {} /\ leaked = FALSE
    /\ link = "none" /\ secure = FALSE /\ owed = FALSE /\ recovered = FALSE
    /\ outcome = "pending" /\ master \in BOOLEAN /\ faults = 0

---------------------------------------------------------------------------
(* Signals, readers and the locked stores.                                 *)

(* Mutant: a receiver keeps every signal.                                  *)
BehindForEver(n, k) == n + k

Behind(n, k) == IF n + k > 2 THEN 2 ELSE n + k

\* emit_reconnect_signal, k times.  Without a receiver a signal is dropped;
\* the supervisor's is only read in follow mode.
Signal(k) ==
    /\ instRx' = IF inst \in Ended THEN instRx ELSE Behind(instRx, k)
    /\ supRx' = IF offline = "follow" THEN Behind(supRx, k) ELSE supRx

Quiet == UNCHANGED <<instRx, supRx>>

Waiting(r) == r \in ToSet(rlock)
Alive(r) == Waiting(r) \/ r \in ToSet(inhand)
SomeReader == \E r \in Readers : Alive(r)

StoresFree ==
    /\ ~SomeReader /\ pings = {} /\ ~leaked
    /\ runner = "off" /\ runs = 0

Sends == link \in {"up", "mute", "eof"}
FailsToSend == link \in {"none", "eof"}

\* do_proto.  The handle is replaced: a reader that is left runs without one.
DoProto ==
    LET renamed(s) == [i \in DOMAIN s |-> IF s[i] = "tracked" THEN "extra" ELSE s[i]]
    IN  /\ rlock' = Append(renamed(rlock), "tracked")
        /\ inhand' = renamed(inhand)

\* do_ping_update followed by do_stats_update, whose handles are replaced too.
DoWatch ==
    /\ pings' = (IF "tracked" \in pings THEN {"extra"} ELSE {}) \cup (pings \cap {"extra"}) \cup {"tracked"}
    /\ leaked' = (leaked \/ "tracked" \in pings)

\* stop_background aborts the tasks that have a handle.
StopBackground ==
    /\ rlock' = RemoveFirst(rlock, "tracked")
    /\ inhand' = RemoveFirst(inhand, "tracked")
    /\ pings' = pings \ {"tracked"}

---------------------------------------------------------------------------
(* The supervisor.                                                         *)

\* An instance subscribes before it does anything else.
Spawn ==
    /\ sup = "spawn"
    /\ sup' = "watch" /\ inst' = "open" /\ instRx' = 0
    /\ UNCHANGED <<config, fp, trusted, supRx, ra, next, attempts, jobVars, taskVars, linkVars, outcome, env>>

\* The select of follow mode took the signal: wait for the instance to end.
SupervisorSignal ==
    /\ sup = "watch" /\ offline = "follow" /\ supRx > 0
    /\ sup' = "stop" /\ supRx' = supRx - 1
    /\ UNCHANGED <<config, fp, trusted, ra, inst, next, instRx, attempts, jobVars, taskVars, linkVars, outcome, env>>

\* The instance ended.  Its error ends a registration, but is dropped when
\* the supervisor is waiting after a signal.  The process exits when it may
\* not reconnect, or not once more.
Joined ==
    /\ sup \in {"watch", "stop"} /\ inst \in {"ok", "err"}
    /\ inst' = "none"
    /\ IF fp /\ inst = "err" /\ sup = "watch"
       THEN sup' = "exited" /\ UNCHANGED <<fp, ra>>
       ELSE LET n == IF freq = 0 THEN 0 ELSE ra + 1
            IN  /\ fp' = (fp /\ ~trusted)
                /\ ra' = n
                /\ sup' = IF ~reconnect \/ n > freq THEN "exited" ELSE "spawn"
    /\ UNCHANGED <<config, trusted, supRx, next, instRx, attempts, jobVars, taskVars, linkVars, outcome, env>>

---------------------------------------------------------------------------
(* The instance, up to its main loop.                                      *)

OpenFails ==
    /\ inst = "open"
    /\ \/ ~StoresFree
       \/ ~master /\ (offline = "follow" \/ fp)
    /\ inst' = "err"
    /\ UNCHANGED <<config, supVars, next, instRx, attempts, jobVars, taskVars, linkVars, outcome, env>>

\* SysMinion::new, then start_ack.
NewMinion ==
    /\ inst = "open"
    /\ master \/ (offline = "independent" /\ ~fp)
    /\ link' = IF master THEN "up" ELSE "none"
    /\ secure' = FALSE /\ owed' = FALSE /\ recovered' = FALSE /\ stale' = FALSE
    /\ outcome' = "pending" /\ attempts' = 0
    /\ runner' = "idle"
    /\ inst' = IF fp THEN "register" ELSE "boot"
    /\ UNCHANGED <<config, supVars, next, instRx, runs, rlock, inhand, pings, leaked, env>>

(* Mutant: the stores are opened while tasks of the last SysMinion use them. *)
OpenShared == NewMinion

Open == StoresFree /\ NewMinion

\* A failed send returns at once: the runner and the reader are left.
Register ==
    /\ inst = "register"
    /\ DoProto
    /\ \/ Sends /\ inst' = "await" /\ Quiet
       \/ FailsToSend /\ inst' = "err" /\ Signal(1)
    /\ UNCHANGED <<config, fp, trusted, sup, ra, next, attempts, jobVars, stale, pings, leaked, linkVars, outcome, env>>

\* After Lagged only the runner is stopped.
Registered ==
    /\ inst = "await" /\ instRx > 0
    /\ instRx' = instRx - 1
    /\ runner' = "off"
    /\ IF instRx = 2 THEN inst' = "err" /\ UNCHANGED <<rlock, inhand, pings>>
       ELSE /\ inst' = IF outcome = "accepted" THEN "ok" ELSE "err"
            /\ StopBackground
    /\ UNCHANGED <<config, supVars, next, attempts, runs, stale, leaked, linkVars, outcome, env>>

\* bootstrap_secure fails without a connection, and when the master answers
\* the hello with a diagnostic, as it does to a duplicate.
HelloFails == link \in {"none", "eof"} /\ UNCHANGED faults
HelloRefused == link = "up" /\ faults < MaxFaults /\ faults' = faults + 1

\* bootstrap_secure at startup.  A mute peer is waited for.
Bootstrap ==
    /\ inst = "boot"
    /\ \/ link = "up" /\ secure' = TRUE /\ inst' = "proto" /\ UNCHANGED <<next, faults>>
       \/ /\ HelloFails \/ HelloRefused
          /\ secure' = FALSE
          /\ IF offline = "independent" THEN inst' = "recover" /\ next' = "proto"
             ELSE inst' = "drain" /\ next' = "err"
    /\ UNCHANGED <<config, supVars, instRx, attempts, jobVars, taskVars, link, owed, recovered, outcome, master>>

\* do_proto and send_ehlo, again after a recovery at startup.
StartProto ==
    /\ inst = "proto"
    /\ IF secure
       THEN /\ DoProto
            /\ \/ Sends /\ inst' = "sync" /\ owed' = TRUE /\ Quiet
               \/ FailsToSend /\ inst' = "err" /\ Signal(1) /\ UNCHANGED owed
       ELSE inst' = "main" /\ Quiet /\ UNCHANGED <<rlock, inhand, owed>>
    /\ UNCHANGED <<config, fp, trusted, sup, ra, next, attempts, jobVars, stale, pings, leaked, link, secure, recovered, outcome, env>>

\* The module sync of the startup, raced by a signal: the instance is then
\* left without stop_background.
Autosync ==
    /\ inst = "sync"
    /\ \/ inst' = "announce" /\ UNCHANGED <<next, instRx, rlock, inhand, pings>>
       \/ instRx > 0 /\ instRx' = instRx - 1 /\ inst' = "drain" /\ next' = "ok" /\ UNCHANGED <<rlock, inhand, pings>>
       \/ ~master /\ inst' = "drain" /\ next' = "err" /\ StopBackground /\ UNCHANGED instRx
    /\ UNCHANGED <<config, supVars, attempts, jobVars, stale, leaked, linkVars, outcome, env>>

Announce ==
    /\ inst = "announce"
    /\ \/ Sends /\ inst' = "main" /\ DoWatch /\ Quiet
       \/ FailsToSend /\ inst' = "err" /\ Signal(1) /\ UNCHANGED <<pings, leaked>>
    /\ UNCHANGED <<config, fp, trusted, sup, ra, next, attempts, jobVars, rlock, inhand, stale, linkVars, outcome, env>>

---------------------------------------------------------------------------
(* The main loop, the end of an instance, and the recovery.                *)

\* A signal starts the recovery in independent mode and ends the instance in
\* follow mode; Lagged ends it in both.
Receive ==
    /\ inst = "main" /\ instRx > 0
    /\ instRx' = instRx - 1
    /\ IF offline = "independent" /\ instRx = 1
       THEN inst' = "recover" /\ next' = "main" /\ UNCHANGED <<rlock, inhand, pings>>
       ELSE inst' = "drain" /\ next' = "ok" /\ StopBackground
    /\ UNCHANGED <<config, supVars, attempts, jobVars, stale, leaked, linkVars, outcome, env>>

\* wait_for_runner_drain waits for the run, but not longer than its timeout;
\* aborting the runner does not stop a blocking run.
Drain ==
    /\ inst = "drain"
    /\ runner' = "off" /\ inst' = next
    /\ UNCHANGED <<config, supVars, next, instRx, attempts, runs, taskVars, linkVars, outcome, env>>

\* One attempt: reconnect_transport stops the tasks and asks for the lock.
\* Without the right to reconnect, or after the last attempt, the instance
\* goes on without a transport.
Attempt ==
    /\ inst = "recover"
    /\ IF ~reconnect \/ (freq > 0 /\ attempts = freq)
       THEN inst' = next /\ attempts' = 0 /\ UNCHANGED <<rlock, inhand, pings, recovered>>
       ELSE /\ attempts' = IF freq = 0 THEN 0 ELSE attempts + 1
            /\ inhand' = RemoveFirst(inhand, "tracked")
            /\ rlock' = Append(RemoveFirst(rlock, "tracked"), "recovery")
            /\ pings' = pings \ {"tracked"}
            /\ recovered' = FALSE
            /\ inst' = "r.clear"
    /\ UNCHANGED <<config, supVars, next, instRx, jobVars, stale, leaked, link, secure, owed, outcome, env>>

\* clear_streams waits for a reader that holds the lock.
ClearStreams ==
    /\ inst = "r.clear" /\ Head(rlock) = "recovery"
    /\ rlock' = Tail(rlock)
    /\ link' = "none" /\ owed' = FALSE
    /\ stale' = (stale \/ inhand # <<>>)
    /\ inst' = "r.connect"
    /\ UNCHANGED <<config, supVars, next, instRx, attempts, jobVars, inhand, pings, leaked, secure, recovered, outcome, env>>

Connect ==
    /\ inst = "r.connect"
    /\ \/ master /\ rlock = <<>> /\ link' = "up" /\ secure' = FALSE /\ inst' = "r.boot"
       \/ ~master /\ inst' = "recover" /\ UNCHANGED <<link, secure>>
    /\ UNCHANGED <<config, supVars, next, instRx, attempts, jobVars, taskVars, owed, recovered, outcome, env>>

\* bootstrap_secure reads through the same lock: a reader that is left may
\* take the reply.
BootstrapAgain ==
    /\ inst = "r.boot"
    /\ \/ link = "up" /\ secure' = TRUE /\ inst' = "r.hello" /\ UNCHANGED <<link, faults>>
       \/ /\ HelloFails \/ HelloRefused \/ (link = "up" /\ SomeReader /\ UNCHANGED faults)
          /\ link' = "none" /\ inst' = "recover" /\ UNCHANGED secure
    /\ UNCHANGED <<config, supVars, next, instRx, attempts, jobVars, taskVars, owed, recovered, outcome, master>>

Hello ==
    /\ inst = "r.hello"
    /\ DoProto
    /\ \/ Sends /\ inst' = "r.wait" /\ owed' = TRUE /\ Quiet
       \/ FailsToSend /\ inst' = "recover" /\ Signal(1) /\ UNCHANGED owed
    /\ UNCHANGED <<config, fp, trusted, sup, ra, next, attempts, jobVars, stale, pings, leaked, link, secure, recovered, outcome, env>>

(* Mutant: the watchdog is not started again after a recovery.             *)
RecoveryDoneUnwatched ==
    /\ inst = "r.wait" /\ recovered
    /\ IF next = "main" THEN instRx' = 0 /\ UNCHANGED supRx
       ELSE (Sends /\ Quiet) \/ (FailsToSend /\ Signal(1))
    /\ attempts' = 0
    /\ inst' = next
    /\ UNCHANGED <<config, fp, trusted, sup, ra, next, jobVars, taskVars, linkVars, outcome, env>>

\* The master asked for Traits.  The main loop subscribes anew and so
\* forgets every signal up to here; the startup does not.
RecoveryDone ==
    /\ inst = "r.wait" /\ recovered
    /\ DoWatch
    /\ IF next = "main" THEN instRx' = 0 /\ UNCHANGED supRx
       ELSE (Sends /\ Quiet) \/ (FailsToSend /\ Signal(1))
    /\ attempts' = 0
    /\ inst' = next
    /\ UNCHANGED <<config, fp, trusted, sup, ra, next, jobVars, rlock, inhand, stale, linkVars, outcome, env>>

RecoveryTimeout ==
    /\ inst = "r.wait" /\ ~recovered
    /\ ~owed \/ ~SomeReader \/ link # "up"
    /\ inst' = "recover"
    /\ UNCHANGED <<config, supVars, next, instRx, attempts, jobVars, taskVars, linkVars, outcome, env>>

---------------------------------------------------------------------------
(* The tasks of the instance, which may outlive it.                        *)

JobStarts ==
    /\ runner = "idle" /\ runs < 2
    /\ runner' = "busy" /\ runs' = runs + 1
    /\ UNCHANGED <<config, supVars, inst, next, instRx, attempts, taskVars, linkVars, outcome, env>>

\* What the run reports is durable data: a failed send asks for a reconnect
\* in follow mode only.
JobEnds ==
    /\ runs > 0
    /\ runs' = runs - 1
    /\ runner' = IF runner = "busy" THEN "idle" ELSE runner
    /\ \/ Quiet
       \/ FailsToSend /\ offline = "follow" /\ Signal(1)
    /\ UNCHANGED <<config, fp, trusted, sup, ra, inst, next, attempts, taskVars, linkVars, outcome, env>>

(* Mutant: the watchdog notices a closed connection only.                  *)
PingTimeoutOnClose(p) ==
    /\ p \in pings
    /\ link \in {"none", "eof"}
    /\ pings' = pings \ {p}
    /\ Signal(1)
    /\ UNCHANGED <<config, fp, trusted, sup, ra, inst, next, attempts, jobVars, rlock, inhand, stale, leaked, linkVars, outcome, env>>

PingTimeout(p) ==
    /\ p \in pings
    /\ link # "up" \/ ~SomeReader
    /\ pings' = pings \ {p}
    /\ Signal(1)
    /\ UNCHANGED <<config, fp, trusted, sup, ra, inst, next, attempts, jobVars, rlock, inhand, stale, leaked, linkVars, outcome, env>>

Holds(r) == rlock # <<>> /\ Head(rlock) = r

ReadFrame(r) ==
    /\ Holds(r) /\ link = "up"
    /\ rlock' = Tail(rlock) /\ inhand' = Append(inhand, r)
    /\ UNCHANGED <<config, supVars, inst, next, instRx, attempts, jobVars, stale, pings, leaked, linkVars, outcome, env>>

ReadFails(r) ==
    /\ Holds(r) /\ link \in {"none", "eof"}
    /\ rlock' = Tail(rlock)
    /\ Signal(1)
    /\ UNCHANGED <<config, fp, trusted, sup, ra, inst, next, attempts, jobVars, inhand, stale, pings, leaked, linkVars, outcome, env>>

\* A frame opens in the order of its counter, on the channel of its connection.
Opens(r) == IF stale THEN r = "tracked" ELSE Head(inhand) = r

Handled(r) ==
    /\ r \in ToSet(inhand)
    /\ inhand' = RemoveFirst(inhand, r)
    /\ stale' = (stale /\ r # "extra")
    /\ UNCHANGED <<config, fp, sup, ra, inst, next, attempts, jobVars, pings, leaked, link, secure, master>>

Continues(r) == rlock' = Append(rlock, r)
Stops == UNCHANGED rlock

\* Traits is answered, and the journal replayed; then the recovery is complete.
HandleTraits(r) ==
    /\ Handled(r) /\ Continues(r)
    /\ secure /\ Opens(r) /\ owed
    /\ owed' = FALSE
    /\ \/ Sends /\ recovered' = TRUE /\ Quiet
       \/ FailsToSend /\ Signal(1) /\ UNCHANGED recovered
    /\ UNCHANGED <<trusted, outcome, faults>>

\* Any other frame, a ping among them; what does not parse is dropped.
HandleOther(r) ==
    /\ Handled(r) /\ Continues(r)
    /\ secure => Opens(r)
    /\ Quiet \/ (secure /\ FailsToSend /\ Signal(1))
    /\ UNCHANGED <<trusted, owed, recovered, outcome, faults>>

\* The master asks for a reconnect: by a command, after which the reader goes
\* on, or by Reconnect, Remove, ByeAck and the like.
HandleReconnect(r) ==
    /\ faults < MaxFaults
    /\ Handled(r)
    /\ secure /\ Opens(r)
    /\ Continues(r) \/ Stops
    /\ Signal(1)
    /\ faults' = faults + 1
    /\ UNCHANGED <<trusted, owed, recovered, outcome>>

\* The answer to a registration.
HandleReply(r) ==
    /\ Handled(r) /\ Stops
    /\ fp /\ ~secure /\ outcome = "pending"
    /\ outcome' \in {"accepted", "rejected"}
    /\ trusted' = (trusted \/ outcome' = "accepted")
    /\ Signal(1)
    /\ UNCHANGED <<owed, recovered, faults>>

HandleRefused(r) ==
    /\ Handled(r) /\ Stops
    /\ secure /\ ~Opens(r)
    /\ owed' \in {owed, FALSE}
    /\ Signal(1)
    /\ UNCHANGED <<trusted, recovered, outcome, faults>>

---------------------------------------------------------------------------
(* The environment: the master stops and starts, a connection breaks, or   *)
(* its peer falls silent.                                                  *)

Fault ==
    /\ faults < MaxFaults /\ faults' = faults + 1
    /\ UNCHANGED <<config, supVars, inst, next, instRx, attempts, jobVars, taskVars, secure, owed, recovered, outcome>>

MasterStops ==
    /\ Fault
    /\ master /\ master' = FALSE
    /\ link' = IF link = "none" THEN "none" ELSE "eof"

LinkFails ==
    /\ Fault
    /\ link = "up" /\ link' \in {"eof", "mute"}
    /\ UNCHANGED master

MasterStarts ==
    /\ ~master /\ master' = TRUE
    /\ UNCHANGED <<config, supVars, inst, next, instRx, attempts, jobVars, taskVars, linkVars, outcome, faults>>

MuteLinkEnds ==
    /\ link = "mute" /\ link' = "eof"
    /\ UNCHANGED <<config, supVars, inst, next, instRx, attempts, jobVars, taskVars, secure, owed, recovered, outcome, env>>

---------------------------------------------------------------------------
Supervisor == Spawn \/ SupervisorSignal \/ Joined

Recovery ==
    \/ Attempt \/ ClearStreams \/ Connect \/ BootstrapAgain \/ Hello
    \/ RecoveryDone \/ RecoveryTimeout

Instance ==
    \/ OpenFails \/ Open \/ Register \/ Registered \/ Bootstrap \/ StartProto
    \/ Autosync \/ Announce \/ Receive \/ Drain \/ Recovery

Handle(r) ==
    \/ HandleTraits(r) \/ HandleOther(r) \/ HandleReconnect(r)
    \/ HandleReply(r) \/ HandleRefused(r)

Next ==
    \/ Supervisor \/ Instance \/ JobStarts \/ JobEnds
    \/ \E r \in Readers : PingTimeout(r) \/ ReadFrame(r) \/ ReadFails(r) \/ Handle(r)
    \/ MasterStops \/ LinkFails \/ MasterStarts \/ MuteLinkEnds

Spec == Init /\ [][Next]_vars

(* Tasks that can run run, timers fire, a run ends, a stopped master is    *)
(* started again; a message sent on a connection that stays up is          *)
(* delivered.  Nothing makes a silent peer speak, or faults stop or occur. *)
FairSpec ==
    /\ Spec
    /\ WF_vars(Supervisor) /\ WF_vars(Instance) /\ WF_vars(JobEnds) /\ WF_vars(MasterStarts)
    /\ \A r \in Readers :
          /\ WF_vars(PingTimeout(r))
          /\ WF_vars(ReadFrame(r) \/ ReadFails(r) \/ Handle(r))
          /\ SF_vars(HandleTraits(r))
          /\ SF_vars(HandleReply(r))

---------------------------------------------------------------------------
(* Properties.                                                             *)

(* Two model runs are never in progress at once, although draining gives   *)
(* up on a run and aborts the runner only: the stores locked by the run    *)
(* keep the next instance from starting a runner (minion.rs:2199-2213).    *)
OneRun == runs <= 1

\* Nothing makes the instance give the transport up: follow mode starts
\* another instance instead, independent mode has attempts without a limit.
Persistent == offline = "follow" \/ (reconnect /\ freq = 0)

(* In the main loop a watchdog is armed or its signal is pending, although *)
(* the loop subscribes anew after a recovery and forgets the signals sent  *)
(* during it (minion.rs:2358), unless the minion is in independent mode    *)
(* and may not reconnect, or has a limit of attempts: the loop then goes   *)
(* on without a transport and unwatched (minion.rs:2341-2354).             *)
Watched == inst = "main" /\ Persistent => pings # {} \/ instRx > 0

Serving == inst = "main" /\ runner # "off" /\ link = "up" /\ secure /\ SomeReader

Orphaned == inst \in Ended \cup {"open"} /\ (runner # "off" \/ leaked \/ SomeReader)

WaitsForMutePeer ==
    link = "mute" /\ (inst \in {"await", "boot", "r.boot"} \/ (inst = "r.clear" /\ Head(rlock) = "extra"))

(* A minion that may reconnect, without a limit of attempts, and that has  *)
(* registered comes back to serving the master, whatever happened, unless  *)
(* it waits without a timeout for a peer that stays silent, a task of an   *)
(* instance that ended keeps the stores locked, or the second reader that  *)
(* a recovery at startup leaves keeps taking the frames of the first.      *)
ServesAgain ==
    reconnect /\ freq = 0 => \/ []<>Serving \/ <>[]fp \/ <>[](sup = "exited")
                \/ <>[]Orphaned \/ <>[]WaitsForMutePeer \/ []<>Alive("extra")

(* In independent mode an instance that reached its main loop goes on      *)
(* whatever happens to the transport (docs/global_config.rst:911-917).     *)
ExecutionContinues == [][offline = "independent" /\ inst = "main" => inst' # "drain"]_vars
=============================================================================
