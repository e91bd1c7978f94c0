---------------------------- MODULE PeerSessions ----------------------------
(***************************************************************************)
(* The connections of minion processes to the master: TCP peers, secure    *)
(* channels, the address map, the session keeper and the tasks that change *)
(* them (sysmaster: master.rs, transport.rs, registry/session.rs; minion:  *)
(* bootstrap and ehlo of minion.rs).                                       *)
(*                                                                         *)
(* A process of a minion has a session id of its own, so that a restart is *)
(* one process that dies and another one that connects.  Each connection   *)
(* has a reader and a writer task on the master; what the reader forwards  *)
(* is handled in a task of its own, in any order.  Every step that holds   *)
(* the master's lock is one action.                                        *)
(***************************************************************************)
EXTENDS Naturals, Sequences, FiniteSets, SequencesExt

CONSTANTS
    Minions,      \* minion ids
    Procs,        \* minion processes; a process is its own session id
    MinionOf,     \* the minion id a process uses
    Addrs,        \* peer addresses of connections
    None,         \* no process, no minion, no address
    Mortal,       \* processes that may die
    Faulty,       \* processes the bounded events happen to
    MaxFaults,    \* bound on lost connections, failed writes, goodbyes and pongs
    Registered    \* minions whose RSA key the master has

ASSUME MinionOfAssumption == MinionOf \in [Procs -> Minions]
ASSUME NoneAssumption == None \notin Minions \cup Procs \cup Addrs
ASSUME FaultAssumption == Mortal \cup Faulty \subseteq Procs /\ MaxFaults \in Nat
ASSUME RegisteredAssumption == Registered \subseteq Minions

VARIABLES
    proc,         \* per process: phase and the address of its connection
    owner,        \* per address: the process that opened it
    open,         \* addresses whose minion end is open
    toMaster,     \* per address: frames not yet read by the master
    toMinion,     \* per address: frames not yet read by the minion
    reader,       \* per address: state of read_peer_frames
    writer,       \* addresses with a running write_peer_frames
    cancelled,    \* addresses whose cancel watch is true
    direct,       \* per address: the direct queue of the writer
    bcast,        \* per address: broadcasts its writer has not received
    peers,        \* PeerTransport.peers: the minion of a secure channel
    connToMid,    \* SysMaster.conn_to_mid
    wired,        \* addresses in peer_direct_tx and peer_cancel_tx
    toDrop,       \* SysMaster.to_drop
    session,      \* SessionKeeper: per minion the session id and its age
    tasks,        \* spawned request handlers that have not run
    faults,       \* how many of the bounded events happened
    broken        \* a write of the master failed

procVars   == <<proc, owner, open>>
wireVars   == <<toMaster, toMinion>>
taskVars   == <<reader, writer, cancelled, direct, bcast>>
tableVars  == <<peers, connToMid, wired, toDrop, session>>
vars == <<procVars, wireVars, taskVars, tableVars, tasks, faults, broken>>

(* One more lost connection, failed write, goodbye or pong of a process.   *)
Fault(p) == /\ p \in Faulty /\ faults < MaxFaults
            /\ faults' = faults + 1

Mid(a) == MinionOf[owner[a]]
NoSession == [sid |-> None, old |-> FALSE]
Requests == {"ehlo", "pong", "bye"}
Replies == {"ack", "diag"}
Notices == [kind : {"traits", "already", "byeack"}, mid : Minions]
Frame(kind) == [kind |-> kind, mid |-> None]
Closed == Frame("eof")

TypeOK ==
    /\ proc \in [Procs -> [st : {"off", "hello", "ehlo", "up", "dead"},
                           addr : Addrs \cup {None}]]
    /\ owner \in [Addrs -> Procs \cup {None}]
    /\ open \subseteq Addrs
    /\ toMaster \in [Addrs -> Seq(Requests \cup {"hello"})]
    /\ \A a \in Addrs : Range(toMinion[a]) \subseteq Notices \cup {Closed} \cup {Frame(k) : k \in Replies}
    /\ reader \in [Addrs -> {"read", "ack", "diag", "done"}]
    /\ writer \subseteq Addrs /\ cancelled \subseteq Addrs
    /\ direct \in [Addrs -> Seq(Replies)]
    /\ \A a \in Addrs : Range(bcast[a]) \subseteq Notices
    /\ peers \in [Addrs -> Minions \cup {None}]
    /\ connToMid \in [Addrs -> Minions \cup {None}]
    /\ wired \subseteq Addrs /\ toDrop \subseteq Addrs
    /\ session \in [Minions -> [sid : Procs \cup {None}, old : BOOLEAN]]
    /\ tasks \subseteq [kind : Requests \cup {"gone"}, addr : Addrs]
    /\ faults \in 0 .. MaxFaults /\ broken \in BOOLEAN

Init ==
    /\ proc = [p \in Procs |-> [st |-> "off", addr |-> None]]
    /\ owner = [a \in Addrs |-> None]
    /\ open = {}
    /\ toMaster = [a \in Addrs |-> <<>>]
    /\ toMinion = [a \in Addrs |-> <<>>]
    /\ reader = [a \in Addrs |-> "done"]
    /\ writer = {} /\ cancelled = {}
    /\ direct = [a \in Addrs |-> <<>>]
    /\ bcast = [a \in Addrs |-> <<>>]
    /\ peers = [a \in Addrs |-> None]
    /\ connToMid = [a \in Addrs |-> None]
    /\ wired = {} /\ toDrop = {}
    /\ session = [m \in Minions |-> NoSession]
    /\ tasks = {}
    /\ faults = 0 /\ broken = FALSE

-----------------------------------------------------------------------------
(* The session keeper.  An old session is one no ping reached for its      *)
(* lifetime; gc removes all of them.                                       *)

(* Mutant: an expired session is never removed.                            *)
GCNothing(s) == s

GC(s) == [m \in Minions |-> IF s[m].old THEN NoSession ELSE s[m]]

PingSession(s, m, sid) ==
    GC([s EXCEPT ![m] = [sid |-> IF @.sid = None THEN sid ELSE @.sid, old |-> FALSE]])

RemoveSession(s, m) == [s EXCEPT ![m] = NoSession]

(* A frame that is already waiting is not queued again: every handler of   *)
(* the minion has the same effect once or twice.                           *)
Queue(q, f) == IF f \in Range(q) THEN q ELSE Append(q, f)

(* Every running writer is subscribed to the broadcast.  A writer skips it *)
(* while its peer has no channel, so that only addresses with a channel    *)
(* or with a hello to come have anything queued.                           *)
MayReceive(a, as) == /\ a \in writer \ as
                     /\ peers[a] # None \/ "hello" \in Range(toMaster[a])

Broadcast(kind, m, as) ==
    bcast' = [a \in Addrs |-> IF MayReceive(a, as)
                              THEN Queue(bcast[a], [kind |-> kind, mid |-> m])
                              ELSE <<>>]

(* Mutant: the senders are removed and the secure peer is kept.            *)
UnplugSenders(as) ==
    /\ wired' = wired \ as
    /\ cancelled' = cancelled \cup (as \cap wired)
    /\ UNCHANGED peers

(* Forget the channel, the senders and stop the reader of addresses.       *)
Unplug(as) ==
    /\ peers' = [a \in Addrs |-> IF a \in as THEN None ELSE peers[a]]
    /\ wired' = wired \ as
    /\ cancelled' = cancelled \cup (as \cap wired)

-----------------------------------------------------------------------------
(* The minion process                                                      *)

(* An address nobody refers to any more may be used by a new connection.   *)
Free(a) ==
    /\ a \notin open /\ reader[a] = "done"
    /\ peers[a] = None /\ connToMid[a] = None /\ a \notin wired
    /\ \A t \in tasks : t.addr # a

(* Free addresses differ by nothing, so it does not matter which is taken. *)
Connect(p) ==
    LET a == CHOOSE b \in Addrs : Free(b)
    IN  /\ proc[p].st = "off" /\ \E b \in Addrs : Free(b)
        /\ proc' = [proc EXCEPT ![p] = [st |-> "hello", addr |-> a]]
        /\ owner' = [owner EXCEPT ![a] = p]
        /\ open' = open \cup {a}
        /\ toMaster' = [toMaster EXCEPT ![a] = <<"hello">>]
        /\ reader' = [reader EXCEPT ![a] = "read"]
        /\ writer' = writer \cup {a}
        /\ wired' = wired \cup {a}
        /\ cancelled' = cancelled \ {a} /\ toDrop' = toDrop \ {a}
        /\ direct' = [direct EXCEPT ![a] = <<>>]
        /\ bcast' = [bcast EXCEPT ![a] = <<>>]
        /\ UNCHANGED <<toMinion, peers, connToMid, session, tasks, faults, broken>>

Close(p, st) ==
    /\ proc' = [proc EXCEPT ![p] = [st |-> st, addr |-> None]]
    /\ open' = open \ {proc[p].addr}
    /\ toMinion' = [a \in Addrs |-> IF a = proc[p].addr THEN <<>> ELSE toMinion[a]]

(* The frames after which the minion gives up its connection.  A bye-ack   *)
(* is obeyed whichever minion it is meant for.                             *)
GivesUp(p, f) ==
    \/ f.kind \in {"eof", "diag", "byeack"}
    \/ (f.kind = "ack") # (proc[p].st = "hello")
    \/ f.kind = "already" /\ proc[p].st # "up"

Receive(p) ==
    LET a == proc[p].addr
        f == Head(toMinion[a])
    IN  /\ a # None /\ toMinion[a] # <<>>
        /\ \/ /\ GivesUp(p, f)
              /\ Close(p, "off")
              /\ UNCHANGED toMaster
           \/ /\ ~GivesUp(p, f) /\ f.kind = "ack"
              /\ proc' = [proc EXCEPT ![p].st = "ehlo"]
              /\ toMaster' = [toMaster EXCEPT ![a] = Append(@, "ehlo")]
              /\ toMinion' = [toMinion EXCEPT ![a] = Tail(@)]
              /\ UNCHANGED open
           \/ /\ ~GivesUp(p, f) /\ f.kind # "ack"
              /\ proc' = [proc EXCEPT ![p].st =
                            IF f.kind = "traits" /\ f.mid = MinionOf[p] THEN "up" ELSE @]
              /\ toMinion' = [toMinion EXCEPT ![a] = Tail(@)]
              /\ UNCHANGED <<toMaster, open>>
        /\ UNCHANGED <<owner, taskVars, tableVars, tasks, faults, broken>>

(* The answer to a heartbeat of the master.                                *)
Pong(p) ==
    LET a == proc[p].addr
    IN  /\ proc[p].st \in {"ehlo", "up"}
        /\ a \in writer /\ peers[a] # None
        /\ Fault(p)
        /\ toMaster' = [toMaster EXCEPT ![a] = Append(@, "pong")]
        /\ UNCHANGED <<procVars, toMinion, taskVars, tableVars, tasks, broken>>

(* A minion says goodbye after a rotation and keeps its connection.        *)
SendBye(p) ==
    LET a == proc[p].addr
    IN  /\ proc[p].st = "up"
        /\ Fault(p)
        /\ toMaster' = [toMaster EXCEPT ![a] = Append(@, "bye")]
        /\ UNCHANGED <<procVars, toMinion, taskVars, tableVars, tasks, broken>>

(* The master sends heartbeats to a peer that has a channel and a writer.  *)
Heartbeats(a) == a \in writer /\ peers[a] # None

PingTimeout(p) ==
    /\ proc[p].st \in {"ehlo", "up"}
    /\ ~Heartbeats(proc[p].addr)
    /\ Close(p, "off")
    /\ UNCHANGED <<owner, toMaster, taskVars, tableVars, tasks, faults, broken>>

LoseConnection(p) ==
    /\ proc[p].st \in {"hello", "ehlo", "up"}
    /\ Fault(p)
    /\ Close(p, "off")
    /\ UNCHANGED <<owner, toMaster, taskVars, tableVars, tasks, broken>>

Die(p) ==
    /\ p \in Mortal /\ proc[p].st # "dead"
    /\ Close(p, "dead")
    /\ UNCHANGED <<owner, toMaster, taskVars, tableVars, tasks, faults, broken>>

-----------------------------------------------------------------------------
(* The reader task of a connection                                         *)

(* Mutant: a hello replaces channels after their ehlo as well.             *)
ReplacedAll(a) == {b \in Addrs \ {a} : peers[b] = Mid(a)}

(* Addresses a hello replaces: a channel of the minion without an ehlo.    *)
Replaced(a) == {b \in Addrs \ {a} : peers[b] = Mid(a) /\ connToMid[b] = None}

HasOtherChannel(a, except) == \E b \in Addrs \ ({a} \cup except) : peers[b] = Mid(a)

(* Mutant: a second channel of a minion is not refused.                    *)
AcceptAny(a) == IF Mid(a) \notin Registered THEN "error" ELSE "accepted"

AcceptBootstrap(a) ==
    IF HasOtherChannel(a, Replaced(a)) THEN "duplicate"
    ELSE IF Mid(a) \notin Registered THEN "error" ELSE "accepted"

DecodeHello(a) ==
    LET old == Replaced(a)
    IN  /\ reader[a] = "read" /\ toMaster[a] # <<>> /\ Head(toMaster[a]) = "hello"
        /\ toMaster' = [toMaster EXCEPT ![a] = Tail(@)]
        /\ session' = IF old = {} THEN session ELSE RemoveSession(session, Mid(a))
        /\ wired' = wired \ old
        /\ peers' = [b \in Addrs |-> IF b \in old THEN None
                                     ELSE IF b = a /\ AcceptBootstrap(a) = "accepted"
                                     THEN Mid(a) ELSE peers[b]]
        /\ CASE AcceptBootstrap(a) = "duplicate" ->
                  /\ reader' = [reader EXCEPT ![a] = "diag"]
                  /\ cancelled' = cancelled \cup (old \cap wired)
                  /\ UNCHANGED tasks
             [] AcceptBootstrap(a) = "accepted" ->
                  /\ reader' = [reader EXCEPT ![a] = "ack"]
                  /\ cancelled' = cancelled \cup (old \cap wired)
                  /\ UNCHANGED tasks
             [] OTHER ->
                  /\ reader' = [reader EXCEPT ![a] = "done"]
                  /\ cancelled' = cancelled \cup (old \cap wired) \cup {a}
                  /\ tasks' = tasks \cup {[kind |-> "gone", addr |-> a]}
        /\ UNCHANGED <<procVars, toMinion, writer, direct, bcast, connToMid, toDrop, faults, broken>>

(* A frame on a secure channel is forwarded; without one it is refused.    *)
DecodeRequest(a) ==
    LET f == Head(toMaster[a])
    IN  /\ reader[a] = "read" /\ toMaster[a] # <<>> /\ f # "hello"
        /\ toMaster' = [toMaster EXCEPT ![a] = Tail(@)]
        /\ IF peers[a] # None
           THEN /\ tasks' = tasks \cup {[kind |-> f, addr |-> a]}
                /\ UNCHANGED reader
           ELSE /\ reader' = [reader EXCEPT ![a] = "diag"]
                /\ UNCHANGED tasks
        /\ UNCHANGED <<procVars, toMinion, writer, cancelled, direct, bcast, tableVars, faults, broken>>

(* The reply is queued after the lock is released.                         *)
QueueReply(a) ==
    /\ reader[a] \in Replies
    /\ direct' = [direct EXCEPT ![a] = Append(@, reader[a])]
    /\ reader' = [reader EXCEPT ![a] = "read"]
    /\ UNCHANGED <<procVars, wireVars, writer, cancelled, bcast, tableVars, tasks, faults, broken>>

(* The stream ends or breaks, possibly before its last frames are read.    *)
ReaderEnds(a) ==
    /\ reader[a] = "read" /\ a \notin open
    /\ reader' = [reader EXCEPT ![a] = "done"]
    /\ toMaster' = [toMaster EXCEPT ![a] = <<>>]
    /\ tasks' = tasks \cup {[kind |-> "gone", addr |-> a]}
    /\ UNCHANGED <<procVars, toMinion, writer, cancelled, direct, bcast, tableVars, faults, broken>>

(* A cancelled reader returns without telling anybody.                     *)
ReaderCancelled(a) ==
    /\ reader[a] = "read" /\ a \in cancelled
    /\ reader' = [reader EXCEPT ![a] = "done"]
    /\ toMaster' = [toMaster EXCEPT ![a] = <<>>]
    /\ UNCHANGED <<procVars, toMinion, writer, cancelled, direct, bcast, tableVars, tasks, faults, broken>>

-----------------------------------------------------------------------------
(* The writer task of a connection: direct frames first                    *)

NextFrame(a) == IF direct[a] # <<>> THEN Frame(Head(direct[a])) ELSE Head(bcast[a])

TakeFrame(a) ==
    /\ a \in writer /\ (direct[a] # <<>> \/ bcast[a] # <<>>)
    /\ IF direct[a] # <<>>
       THEN direct' = [direct EXCEPT ![a] = Tail(@)] /\ UNCHANGED bcast
       ELSE bcast' = [bcast EXCEPT ![a] = Tail(@)] /\ UNCHANGED direct

CanReceive(a) == direct[a] # <<>> \/ peers[a] # None

SkipBroadcast(a) ==
    /\ TakeFrame(a) /\ ~CanReceive(a)
    /\ UNCHANGED <<procVars, wireVars, reader, writer, cancelled, tableVars, tasks, faults, broken>>

(* The frame is written; a peer listed in to_drop is shut down after it.   *)
WriteFrame(a) ==
    /\ TakeFrame(a) /\ CanReceive(a)
    /\ toMinion' = [toMinion EXCEPT ![a] =
           IF a \notin open THEN @
           ELSE IF a \in toDrop THEN Append(Queue(@, NextFrame(a)), Closed)
           ELSE Queue(@, NextFrame(a))]
    /\ IF a \in toDrop
       THEN /\ toDrop' = toDrop \ {a}
            /\ cancelled' = cancelled \cup {a}
            /\ writer' = writer \ {a}
       ELSE UNCHANGED <<toDrop, cancelled, writer>>
    /\ UNCHANGED <<procVars, toMaster, reader, peers, connToMid, wired, session, tasks, faults, broken>>

(* The minion's end is gone and the write fails.                           *)
WriteFails(a) ==
    /\ TakeFrame(a) /\ CanReceive(a) /\ a \notin open
    /\ Fault(owner[a])
    /\ broken' = TRUE
    /\ cancelled' = cancelled \cup {a}
    /\ writer' = writer \ {a}
    /\ UNCHANGED <<procVars, wireVars, reader, tableVars, tasks>>

-----------------------------------------------------------------------------
(* The request handlers, each in a task of its own                         *)

(* What an ehlo of the session's own id replaces: another address of the   *)
(* minion in the map, or else another channel.                             *)
StaleAddrs(a) ==
    LET mapped == {b \in Addrs \ {a} : connToMid[b] = Mid(a)}
        secured == {b \in Addrs \ {a} : peers[b] = Mid(a)}
    IN  IF mapped # {} THEN mapped ELSE secured

Dropped(a) == IF StaleAddrs(a) = {} THEN {{}} ELSE {{b} : b \in StaleAddrs(a)}

EnterSession(a, s, as) ==
    /\ connToMid' = [b \in Addrs |-> IF b = a THEN Mid(a)
                                     ELSE IF b \in as THEN None ELSE connToMid[b]]
    /\ session' = PingSession(s, Mid(a), owner[a])
    /\ Unplug(as)
    /\ Broadcast("traits", Mid(a), as)
    /\ UNCHANGED toDrop

HandleEhlo(a) ==
    LET s == GC(session)
        sid == s[Mid(a)].sid
    IN  \/ /\ sid = owner[a]
           /\ \E as \in Dropped(a) : EnterSession(a, RemoveSession(s, Mid(a)), as)
        \/ /\ sid \notin {owner[a], None}
           /\ session' = s
           /\ toDrop' = toDrop \cup {a}
           /\ Broadcast("already", Mid(a), {})
           /\ UNCHANGED <<peers, connToMid, wired, cancelled>>
        \/ /\ sid = None
           /\ EnterSession(a, s, {})

(* Mutant: a pong enters its address in the map as well.                   *)
HandlePongMaps(a) ==
    /\ connToMid' = [connToMid EXCEPT ![a] = Mid(a)]
    /\ session' = PingSession(session, Mid(a), owner[a])
    /\ UNCHANGED <<peers, wired, toDrop, cancelled, bcast>>

HandlePong(a) ==
    /\ session' = PingSession(session, Mid(a), owner[a])
    /\ UNCHANGED <<peers, connToMid, wired, toDrop, cancelled, bcast>>

HandleBye(a) ==
    /\ connToMid' = [connToMid EXCEPT ![a] = None]
    /\ session' = RemoveSession(session, Mid(a))
    /\ Unplug({a})
    /\ Broadcast("byeack", Mid(a), {a})
    /\ UNCHANGED toDrop

HandleGone(a) ==
    /\ connToMid' = [connToMid EXCEPT ![a] = None]
    /\ session' = IF connToMid[a] = None THEN session
                  ELSE RemoveSession(session, connToMid[a])
    /\ Unplug({a})
    /\ UNCHANGED <<toDrop, bcast>>

Handle(t) ==
    /\ t \in tasks
    /\ tasks' = tasks \ {t}
    /\ \/ t.kind = "ehlo" /\ HandleEhlo(t.addr)
       \/ t.kind = "pong" /\ HandlePong(t.addr)
       \/ t.kind = "bye" /\ HandleBye(t.addr)
       \/ t.kind = "gone" /\ HandleGone(t.addr)
    /\ UNCHANGED <<procVars, wireVars, reader, writer, direct, faults, broken>>

(* No ping reached a session for its lifetime of 30 s.  Pings of a minion  *)
(* that is connected are frequent enough to prevent that.                  *)
Pinged(m) == \E p \in Procs : /\ MinionOf[p] = m /\ proc[p].st = "up"
                              /\ Heartbeats(proc[p].addr)
                              /\ reader[proc[p].addr] # "done"

AgeSession(m) ==
    /\ session[m].sid # None /\ ~session[m].old /\ ~Pinged(m)
    /\ session' = [session EXCEPT ![m].old = TRUE]
    /\ UNCHANGED <<procVars, wireVars, taskVars, peers, connToMid, wired, toDrop, tasks, faults, broken>>

-----------------------------------------------------------------------------
ProcStep(p) == Connect(p) \/ Receive(p) \/ PingTimeout(p)
ReaderStep(a) == \/ DecodeHello(a) \/ DecodeRequest(a) \/ QueueReply(a)
                 \/ ReaderEnds(a) \/ ReaderCancelled(a)
WriterStep(a) == SkipBroadcast(a) \/ WriteFrame(a)
TaskStep(a) == \E kind \in Requests \cup {"gone"} : Handle([kind |-> kind, addr |-> a])

Next ==
    \/ \E p \in Procs : ProcStep(p) \/ Pong(p) \/ SendBye(p) \/ LoseConnection(p) \/ Die(p)
    \/ \E a \in Addrs : ReaderStep(a) \/ WriterStep(a) \/ TaskStep(a) \/ WriteFails(a)
    \/ \E m \in Minions : AgeSession(m)

(* The runtime schedules every task and delivers what is written; clocks   *)
(* run.  Faults, goodbyes and pongs need not happen.                       *)
Fairness ==
    /\ \A p \in Procs : WF_vars(ProcStep(p))
    /\ \A a \in Addrs : WF_vars(ReaderStep(a)) /\ WF_vars(WriterStep(a)) /\ WF_vars(TaskStep(a))
    /\ \A m \in Minions : WF_vars(AgeSession(m))

Spec == Init /\ [][Next]_vars
FairSpec == Spec /\ Fairness

-----------------------------------------------------------------------------
(* Properties                                                              *)

Served(p) ==
    LET a == proc[p].addr
    IN  /\ proc[p].st = "up" /\ peers[a] = MinionOf[p] /\ connToMid[a] = MinionOf[p]
        /\ a \in wired /\ a \in writer

(* A minion never has two secure channels: what is sent to a minion goes   *)
(* over one connection, whatever processes of it connect, hang or die and  *)
(* in whatever order hellos, disconnects and ehlos are handled.            *)
OneChannel == \A a, b \in Addrs : peers[a] # None /\ peers[a] = peers[b] => a = b

(* A peer with a secure channel has its direct sender and its cancel       *)
(* watch, so that a durable command can reach it and a later ehlo can stop *)
(* it: the three maps are cleaned together although four different paths   *)
(* under two locks do it.                                                  *)
ChannelIsWired == \A a \in Addrs : peers[a] # None => a \in wired

(* A served process loses its channel only to a request or the end of a    *)
(* connection of its own, or to an ehlo of the process that holds the      *)
(* session of its minion: no hello, goodbye, pong or end of a connection   *)
(* of another process takes it.  The ehlo is no excuse to be left out: an  *)
(* ehlo that was decoded before a hello replaced its channel still enters  *)
(* the address in the map, the end of that address then removes the        *)
(* session although another process is served by then, and a second late   *)
(* ehlo of the first process takes the session and later the connection.   *)
NoTakeover ==
    [][\A p \in Procs : Served(p) /\ peers'[proc[p].addr] = None
         => \E t \in tasks \ tasks' :
               \/ owner[t.addr] = p
               \/ t.kind = "ehlo" /\ GC(session)[MinionOf[p]].sid = owner[t.addr]]_vars

(* A hello is refused because of a channel whose ehlo was handled.         *)
Blocks(a) == peers[a] # None /\ connToMid[a] # None

(* A channel for which the hellos of a minion are refused does not outlast *)
(* its connection: it has a reader that reports the end, which nobody has  *)
(* cancelled, or the report is waiting, unless a write of the master       *)
(* failed.  The readers that return without a report belong to connections *)
(* a hello replaces: to_drop, the session keeper and the map agree on them *)
(* although each is changed by requests handled in any order.              *)
NoDeadEnd ==
    ~broken => \A a \in Addrs : Blocks(a) =>
        \/ reader[a] # "done" /\ a \notin cancelled
        \/ [kind |-> "gone", addr |-> a] \in tasks

Alone(p) == /\ proc[p].st # "dead"
            /\ \A q \in Procs \ {p} : MinionOf[q] = MinionOf[p] => proc[q].st = "dead"

HasAddress(p) == proc[p].st # "off" \/ \E a \in Addrs : Free(a)

(* A process of a registered minion that is the only one left is served    *)
(* again and again, whatever sessions, channels and requests its           *)
(* predecessors left behind.  A write of the master that fails is          *)
(* excluded: the reader of that connection is cancelled and its channel    *)
(* stays, so that the minion is refused as a duplicate for ever.           *)
GetsIn == \A p \in Procs :
    MinionOf[p] \in Registered /\ <>[]Alone(p) /\ []<>HasAddress(p) /\ []~broken
        => []<>Served(p)
=============================================================================
