--------------------------- MODULE EventsRegistry ---------------------------
(***************************************************************************)
(* The registry of events (libeventreg: kvdb.rs, ipcs.rs) and the tasks of *)
(* the master that write to it (sysmaster: master.rs).                     *)
(*                                                                         *)
(* A task holds the master's lock from its first to its last step; each    *)
(* call of the registry is under the registry's own lock, which a purge or *)
(* a rotation asked for over IPC takes between two steps of the task.  The *)
(* trees are in one sled log: what is on disk is the effect of all calls   *)
(* up to some point, and a crash returns to it.                            *)
(***************************************************************************)
EXTENDS Naturals, FiniteSets

CONSTANTS
    Cycles, Minions,
    Events, Reports,      \* frames: Event and ModelEvent
    CycleOf, MinionOf,    \* of a frame
    TimeOf,               \* timestamp of an event
    Limit, MaxTime,       \* history.limit; bound on timestamps
    MaxReplays,           \* bound on the frames that are sent again
    MaxCalls, MaxCrashes  \* bounds on IPC calls and crashes

Frames == Events \cup Reports
ASSUME FramesAssumption ==
    /\ Events \cap Reports = {}
    /\ \A f \in Frames : CycleOf[f] \in Cycles /\ MinionOf[f] \in Minions
    /\ \A e \in Events : TimeOf[e] \in 1 .. MaxTime
ASSUME BoundsAssumption == {Limit, MaxTime, MaxReplays, MaxCalls, MaxCrashes} \subseteq Nat

VARIABLES
    sent,       \* frames a task was spawned for
    replays,    \* how many of them came again
    task,       \* the task that holds it: frame and next step
    mem, disk,  \* the registry, see Registries
    call,       \* the IPC call that holds the registry's lock
    trimlock,   \* EventsRegistry.trimlock is held
    sweep,      \* what the call still has to remove
    horizon,    \* sessions before it exceed history.age
    reported,   \* history: frames whose session a ModelEvent task found
    excused,    \* history: frames whose session was removed or not yet opened
    calls, crashes

vars == <<sent, replays, task, mem, disk, call, trimlock, sweep, horizon, reported, excused, calls, crashes>>
ipcVars == <<call, trimlock, sweep, calls>>

Nobody == [frame |-> {}, step |-> "idle"]
Place(f) == <<CycleOf[f], MinionOf[f]>>

(* sessions: per cycle the timestamp of its session, 0 for none; minions:  *)
(* the minions recorded for a cycle; events: the events stored, each in    *)
(* the tree of its Place; claims: the tree of replay keys.  The others are *)
(* history: what a call removed and no task recorded again.                *)
Registries ==
    [sessions : [Cycles -> 0 .. MaxTime], minions : SUBSET (Cycles \X Minions),
     events : SUBSET Events, claims : SUBSET Frames,
     unlisted : SUBSET Cycles, unnamed : SUBSET (Cycles \X Minions), purged : SUBSET Events]

Trees == {<<"sessions">>, <<"replay">>} \cup ({"minions"} \X Cycles)
         \cup ({"events"} \X Cycles \X Minions)
Items == Trees \cup ({"session"} \X Cycles)

TypeOK ==
    /\ sent \subseteq Frames /\ replays \in 0 .. MaxReplays
    /\ task = Nobody \/ task \in [frame : {{f} : f \in Frames}, step : {"claim", "session", "minion", "event"}]
    /\ mem \in Registries /\ disk \in Registries
    /\ call \in {"none", "get", "inner", "rotate", "purge"} /\ trimlock \in BOOLEAN
    /\ sweep \subseteq Items
    /\ horizon \in 0 .. MaxTime
    /\ reported \subseteq Reports /\ excused \subseteq Reports
    /\ calls \in 0 .. MaxCalls /\ crashes \in 0 .. MaxCrashes

Empty == [sessions |-> [c \in Cycles |-> 0], minions |-> {}, events |-> {}, claims |-> {},
          unlisted |-> {}, unnamed |-> {}, purged |-> {}]

Init ==
    /\ sent = {} /\ replays = 0
    /\ task = Nobody /\ mem = Empty /\ disk = Empty
    /\ call = "none" /\ trimlock = FALSE /\ sweep = {}
    /\ horizon = 0 /\ reported = {} /\ excused = {} /\ calls = 0 /\ crashes = 0

-----------------------------------------------------------------------------
(* The tasks of the master.                                                *)

\* A frame, or a replay of it, was read and the task spawned for it gets the master's lock,
\* in any order; before that a task does nothing.
TakeLock(f) ==
    /\ task = Nobody
    /\ sent' = sent \cup {f}
    /\ replays' = IF f \in sent THEN replays + 1 ELSE replays
    /\ replays' <= MaxReplays
    /\ task' = [frame |-> {f}, step |-> "claim"]
    /\ UNCHANGED <<mem, disk, ipcVars, horizon, reported, excused, crashes>>

\* The task of f makes its call of the registry and goes to the step next.
At(f, step) == task.frame = {f} /\ task.step = step /\ call = "none"
GoTo(f, next) == task' = IF next = "idle" THEN Nobody ELSE [frame |-> {f}, step |-> next]
Called == UNCHANGED <<sent, replays, disk, ipcVars, horizon, crashes>>

ClaimReplayKey(f) ==
    /\ At(f, "claim")
    /\ mem' = [mem EXCEPT !.claims = @ \cup {f}, !.purged = @ \ {f}]
    /\ GoTo(f, IF f \in mem.claims THEN "idle" ELSE "session")
    /\ Called /\ UNCHANGED <<reported, excused>>

\* Mutant: a session that exists is taken to have its minion.
OpenSessionOnce(f) ==
    /\ f \in Events /\ At(f, "session")
    /\ mem' = IF mem.sessions[CycleOf[f]] # 0 THEN mem
              ELSE [mem EXCEPT !.sessions[CycleOf[f]] = TimeOf[f], !.unlisted = @ \ {CycleOf[f]}]
    /\ GoTo(f, IF mem.sessions[CycleOf[f]] # 0 THEN "event" ELSE "minion")
    /\ Called /\ UNCHANGED <<reported, excused>>

OpenSession(f) ==
    /\ f \in Events /\ At(f, "session")
    /\ mem' = IF mem.sessions[CycleOf[f]] # 0 THEN mem
              ELSE [mem EXCEPT !.sessions[CycleOf[f]] = TimeOf[f], !.unlisted = @ \ {CycleOf[f]}]
    /\ GoTo(f, "minion")
    /\ Called /\ UNCHANGED <<reported, excused>>

EnsureMinion(f) ==
    /\ At(f, "minion")
    /\ mem' = [mem EXCEPT !.minions = @ \cup {Place(f)}, !.unnamed = @ \ {Place(f)}]
    /\ GoTo(f, "event")
    /\ Called /\ UNCHANGED <<reported, excused>>

\* Mutant: an event is stored only while its session is.
AddEventListed(f) ==
    /\ At(f, "event")
    /\ mem' = IF mem.sessions[CycleOf[f]] # 0 THEN [mem EXCEPT !.events = @ \cup {f}] ELSE mem
    /\ GoTo(f, "idle")
    /\ Called /\ UNCHANGED <<reported, excused>>

AddEvent(f) ==
    /\ At(f, "event")
    /\ mem' = [mem EXCEPT !.events = @ \cup {f}]
    /\ GoTo(f, "idle")
    /\ Called /\ UNCHANGED <<reported, excused>>

Stored(f) == \E e \in mem.events : Place(e) = Place(f)

\* The ModelEvent task looks its session up and gives up when there is none.
GetSession(f) ==
    /\ f \in Reports /\ At(f, "session")
    /\ IF mem.sessions[CycleOf[f]] # 0
       THEN reported' = reported \cup {f} /\ excused' = excused
       ELSE reported' = reported /\ excused' = IF Stored(f) /\ CycleOf[f] \notin mem.unlisted THEN excused ELSE excused \cup {f}
    /\ GoTo(f, "idle")
    /\ Called /\ mem' = mem

\* What the holder of the master's lock does next.
Advance(f) == ClaimReplayKey(f) \/ OpenSession(f) \/ EnsureMinion(f) \/ AddEvent(f) \/ GetSession(f)

TaskStep == \E f \in Frames : TakeLock(f) \/ Advance(f)

-----------------------------------------------------------------------------
(* Calls over IPC, each under the registry's lock to its end.              *)

Open == {c \in Cycles : mem.sessions[c] # 0}
Tasks == UNCHANGED <<sent, replays, task, disk, reported, excused, crashes>>
Outside == Tasks /\ UNCHANGED horizon

\* get_sessions, with a rotation configured.
GetSessions ==
    /\ call = "none" /\ calls < MaxCalls
    /\ call' = "get" /\ calls' = calls + 1
    /\ Outside /\ UNCHANGED <<mem, trimlock, sweep>>

\* Mutant: the guard of trimlock is dropped as soon as it is tested.
BeginTrimUnguarded ==
    /\ call \in {"get", "inner"} /\ ~trimlock
    /\ call' = "inner" /\ trimlock' = FALSE
    /\ Outside /\ UNCHANGED <<mem, sweep, calls>>

\* get_sessions gets trimlock and calls trim_data, which calls get_sessions again.
BeginTrim ==
    /\ call \in {"get", "inner"} /\ ~trimlock
    /\ call' = "inner" /\ trimlock' = TRUE
    /\ Outside /\ UNCHANGED <<mem, sweep, calls>>

\* Mutant: the sessions are sorted the other way round.
TrimDataNewest ==
    /\ call = "inner" /\ trimlock /\ call' = "rotate"
    /\ \E over \in SUBSET Open :
         /\ Cardinality(over) = IF Cardinality(Open) > Limit THEN Cardinality(Open) - Limit ELSE 0
         /\ \A c \in over, d \in Open \ over : mem.sessions[c] >= mem.sessions[d]
         /\ horizon' \in horizon .. MaxTime
         /\ sweep' = {"session"} \X (over \cup {c \in Open : mem.sessions[c] < horizon'})
    /\ Tasks /\ UNCHANGED <<mem, trimlock, calls>>

\* The get_sessions of trim_data fails to get trimlock and only lists: what is above the
\* limit, oldest first, and what is too old by now is to be removed.
TrimData ==
    /\ call = "inner" /\ trimlock /\ call' = "rotate"
    /\ \E over \in SUBSET Open :
         /\ Cardinality(over) = IF Cardinality(Open) > Limit THEN Cardinality(Open) - Limit ELSE 0
         /\ \A c \in over, d \in Open \ over : mem.sessions[c] <= mem.sessions[d]
         /\ horizon' \in horizon .. MaxTime
         /\ sweep' = {"session"} \X (over \cup {c \in Open : mem.sessions[c] < horizon'})
    /\ Tasks /\ UNCHANGED <<mem, trimlock, calls>>

\* purge_all_data lists the trees that exist.
Purge ==
    /\ call = "none" /\ calls < MaxCalls
    /\ call' = "purge" /\ calls' = calls + 1
    /\ sweep' = {<<"sessions">>, <<"replay">>} \cup ({"minions"} \X {p[1] : p \in mem.minions})
                \cup {<<"events", CycleOf[e], MinionOf[e]>> : e \in mem.events}
    /\ Outside /\ UNCHANGED <<mem, trimlock>>

\* One tree of a purge or one session of a rotation, the oldest first, is removed.
Remove(item) ==
    LET closed == {c \in Open : item \in {<<"session", c>>, <<"sessions">>}}
        gone == {p \in mem.minions : item = <<"minions", p[1]>>}
        lost == {e \in mem.events : item = <<"events", CycleOf[e], MinionOf[e]>>}
    IN  /\ item \in sweep
        /\ \A c \in closed, d \in Open : <<"session", d>> \in sweep => mem.sessions[c] <= mem.sessions[d]
        /\ sweep' = sweep \ {item}
        /\ mem' = [sessions |-> [c \in Cycles |-> IF c \in closed THEN 0 ELSE mem.sessions[c]],
                   minions |-> mem.minions \ gone, events |-> mem.events \ lost,
                   claims |-> IF item = <<"replay">> THEN {} ELSE mem.claims,
                   unlisted |-> mem.unlisted \cup closed, unnamed |-> mem.unnamed \cup gone,
                   purged |-> mem.purged \cup lost]
        /\ Outside /\ UNCHANGED <<call, trimlock, calls>>

Return ==
    /\ call \in {"rotate", "purge"} /\ sweep = {}
    /\ call' = "none" /\ trimlock' = FALSE
    /\ Outside /\ UNCHANGED <<mem, sweep, calls>>

CallStep == BeginTrim \/ TrimData \/ (\E item \in sweep : Remove(item)) \/ Return

-----------------------------------------------------------------------------
(* The disk and crashes.                                                   *)

\* sled writes its log at some point.  After the last crash no one reads the disk.
Flush ==
    /\ crashes < MaxCrashes /\ disk' = mem
    /\ UNCHANGED <<sent, replays, task, mem, ipcVars, horizon, reported, excused, crashes>>

Crash ==
    /\ crashes < MaxCrashes /\ crashes' = crashes + 1
    /\ mem' = disk
    /\ task' = Nobody
    /\ call' = "none" /\ trimlock' = FALSE /\ sweep' = {}
    /\ UNCHANGED <<sent, replays, disk, horizon, reported, excused, calls>>

Next ==
    \/ TaskStep \/ GetSessions \/ Purge \/ CallStep \/ Flush \/ Crash

Spec == Init /\ [][Next]_vars

\* A call runs on to its return, without an await; a task whose turn it is for the
\* registry's lock, a fair queue, gets it.
FairSpec ==
    /\ Spec
    /\ WF_vars(CallStep)
    /\ WF_vars(\E f \in Frames : Advance(f))

-----------------------------------------------------------------------------

(* A stored event can be found: its session and its minion are recorded,   *)
(* in memory and in what a crash at this moment would leave, unless a      *)
(* rotation or a purge removed them after its task had passed them.        *)
Reachable(r) ==
    \A e \in r.events : /\ r.sessions[CycleOf[e]] # 0 \/ CycleOf[e] \in r.unlisted
                        /\ Place(e) \in r.minions \cup r.unnamed
EventsReachable == Reachable(mem) /\ Reachable(disk)

(* While the master does not crash, a claimed replay key has had its       *)
(* effect, or its task is at work: a replay that is dropped as a duplicate *)
(* was not needed.  Exempt are events an operator purged, and a ModelEvent *)
(* that overtook all events of its minion or came after its session had    *)
(* been removed; it is not repeated.                                       *)
DuplicatesAreIdle ==
    crashes = 0 => mem.claims \subseteq mem.events \cup mem.purged \cup reported \cup excused \cup task.frame

(* A rotation leaves no more sessions than the limit and none that is too  *)
(* old, and it never removes a session while it keeps an older one.        *)
RotationKeepsNewest ==
    [][call = "rotate" /\ crashes' = crashes =>
         /\ \A c \in Open \ Open', d \in Open' : mem.sessions[c] <= mem.sessions[d]
         /\ call' = "none" => /\ Cardinality(Open') <= Limit
                              /\ \A c \in Open' : mem.sessions[c] >= horizon]_vars

(* The registry's lock and the master's are released again, although a     *)
(* rotation calls the function that begins one (only the failing try_lock  *)
(* of trimlock ends the recursion) and a task keeps the master's lock while*)
(* it waits for the registry's.                                            *)
LocksAreReleased ==
    /\ call # "none" ~> call = "none"
    /\ task # Nobody ~> task = Nobody

(* "Trim the database data to the specific amount of records" (kvdb.rs,    *)
(* trim_data).  The code does not keep it: a rotation removes sessions and *)
(* leaves their events.                                                    *)
TrimsTheData ==
    [][call = "rotate" /\ call' = "none" /\ crashes' = crashes =>
         Cardinality({CycleOf[e] : e \in mem.events}) <= Limit]_vars
=============================================================================
