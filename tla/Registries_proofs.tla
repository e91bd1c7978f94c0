-------------------------- MODULE Registries_proofs --------------------------
(***************************************************************************)
(* Theorems about the two registries of the master: the events registry of *)
(* EventsRegistry.tla, and after it the task registry of TaskTracking.tla. *)
(***************************************************************************)
EXTENDS EventsRegistry, FiniteSetTheorems, SequenceTheorems, TLAPS

(* What a task has done by the step it is at.                              *)
TaskOK ==
    \A e \in Frames : task.frame = {e} =>
        /\ task.step \in {"minion", "event"} =>
              /\ e \in Events
              /\ mem.sessions[CycleOf[e]] # 0 \/ CycleOf[e] \in mem.unlisted
        /\ task.step = "event" => Place(e) \in mem.minions \cup mem.unnamed

(* A call removes only what it is for, and nothing once it has returned.   *)
SweepOK ==
    /\ call \in {"none", "get", "inner"} => sweep = {}
    /\ call = "rotate" => sweep \subseteq {"session"} \X Cycles
    /\ call = "purge" => sweep \subseteq Trees

(* A purge that removed an event removes its replay key too, before a task *)
(* can ask for it.                                                         *)
PurgeOK ==
    /\ call = "purge" /\ <<"replay">> \notin sweep => mem.claims = {}
    /\ mem.purged \cap mem.claims # {} => call = "purge"

(* Every claimed key has had its effect, was purged or is excused.  The    *)
(* key of the task at work is among the claimed ones after its first step. *)
Settled == mem.events \cup mem.purged \cup reported \cup excused
ClaimsOK ==
    /\ mem.claims \subseteq Settled \cup task.frame
    /\ task.step \in {"idle", "claim"} => mem.claims \subseteq Settled

Spared == {c \in Open : <<"session", c>> \notin sweep}

(* What a rotation will leave: at most the limit, nothing too old, and     *)
(* nothing older than what it removes.                                     *)
RotationOK ==
    call = "rotate" =>
        /\ Cardinality(Spared) <= Limit
        /\ \A d \in Spared : mem.sessions[d] >= horizon
        /\ \A c \in Open \ Spared, d \in Spared : mem.sessions[c] <= mem.sessions[d]

(* Only so many sessions are open, in memory and on disk.                  *)
FewOpen ==
    /\ IsFiniteSet(Open)
    /\ IsFiniteSet({c \in Cycles : disk.sessions[c] # 0})

-----------------------------------------------------------------------------
LEMMA PlaceType == \A e \in Frames : CycleOf[e] \in Cycles /\ Place(e) \in Cycles \X Minions
  BY FramesAssumption DEF Place

LEMMA TypeInit == Init => TypeOK
  <1>1. Empty \in Registries
    BY BoundsAssumption DEF Empty, Registries
  <1>2. {Limit, MaxTime, MaxReplays, MaxCalls, MaxCrashes} \subseteq Nat => 0 \in 0 .. MaxTime /\ 0 \in 0 .. MaxReplays
                                                                     /\ 0 \in 0 .. MaxCalls /\ 0 \in 0 .. MaxCrashes
    OBVIOUS
  <1> QED
    BY <1>1, <1>2, BoundsAssumption DEF Init, TypeOK

LEMMA TypeNext == TypeOK /\ TaskOK /\ [Next]_vars => TypeOK'
  <1> SUFFICES ASSUME TypeOK, TaskOK, [Next]_vars PROVE TypeOK'
    OBVIOUS
  <1> USE BoundsAssumption, PlaceType DEF TypeOK, ipcVars, Called, Tasks, Outside, GoTo, Nobody
  <1>1. ASSUME NEW f \in Frames, TakeLock(f) PROVE TypeOK'
    BY <1>1 DEF TakeLock
  <1>2. ASSUME NEW f \in Frames, ClaimReplayKey(f) PROVE TypeOK'
    <2>1. mem' \in Registries
      BY <1>2 DEF ClaimReplayKey, Registries
    <2> QED BY <1>2, <2>1 DEF ClaimReplayKey
  <1>3. ASSUME NEW f \in Frames, OpenSession(f) PROVE TypeOK'
    <2>1. CASE mem' = mem
      BY <1>3, <2>1 DEF OpenSession
    <2>2. CASE mem' = [mem EXCEPT !.sessions[CycleOf[f]] = TimeOf[f], !.unlisted = @ \ {CycleOf[f]}]
      <3>1. TimeOf[f] \in 0 .. MaxTime
        BY <1>3, FramesAssumption DEF OpenSession
      <3>2. mem' \in Registries
        BY <2>2, <3>1 DEF Registries
      <3> QED BY <1>3, <3>2 DEF OpenSession
    <2> QED BY <1>3, <2>1, <2>2 DEF OpenSession
  <1>4. ASSUME NEW f \in Frames, EnsureMinion(f) PROVE TypeOK'
    <2>1. mem' \in Registries
      BY <1>4 DEF EnsureMinion, Registries
    <2> QED BY <1>4, <2>1 DEF EnsureMinion
  <1>5. ASSUME NEW f \in Frames, AddEvent(f) PROVE TypeOK'
    <2>1. mem' \in Registries
      BY <1>5 DEF AddEvent, At, TaskOK, Registries
    <2> QED BY <1>5, <2>1 DEF AddEvent
  <1>6. ASSUME NEW f \in Frames, GetSession(f) PROVE TypeOK'
    BY <1>6 DEF GetSession
  <1>7. CASE GetSessions \/ BeginTrim
    <2>1. calls' \in 0 .. MaxCalls /\ call' \in {"get", "inner"} /\ trimlock' \in BOOLEAN /\ horizon' = horizon
      <3>1. CASE GetSessions
        <4>1. calls' \in 0 .. MaxCalls
          BY <3>1 DEF GetSessions
        <4>2. call' = "get" /\ trimlock' = trimlock /\ horizon' = horizon
          BY <3>1 DEF GetSessions
        <4> QED BY <4>1, <4>2
      <3>2. CASE BeginTrim
        BY <3>2 DEF BeginTrim
      <3> QED BY <1>7, <3>1, <3>2
    <2>2. UNCHANGED <<sent, replays, task, mem, disk, sweep, reported, excused, crashes>>
      BY <1>7 DEF GetSessions, BeginTrim
    <2> QED BY <2>1, <2>2
  <1>8. CASE Purge
    <2>1. \A p \in mem.minions : p[1] \in Cycles
      BY DEF Registries
    <2>2. \A e \in mem.events : <<"events", CycleOf[e], MinionOf[e]>> \in {"events"} \X Cycles \X Minions
      BY FramesAssumption DEF Registries, Frames
    <2>3. sweep' \subseteq Items
      BY <1>8, <2>1, <2>2 DEF Purge, Items, Trees
    <2> QED BY <1>8, <2>3 DEF Purge
  <1>9. CASE TrimData
    <2>1. sweep' \subseteq Items /\ horizon' \in 0 .. MaxTime
      BY <1>9 DEF TrimData, Open, Items
    <2> QED BY <1>9, <2>1 DEF TrimData
  <1>10. ASSUME NEW item \in sweep, Remove(item) PROVE TypeOK'
    <2> DEFINE closed == {c \in Open : item \in {<<"session", c>>, <<"sessions">>}}
               sessions == [c \in Cycles |-> IF c \in closed THEN 0 ELSE mem.sessions[c]]
    <2>a. sessions \in [Cycles -> 0 .. MaxTime]
      BY BoundsAssumption DEF Registries
    <2>b. /\ mem'.sessions = sessions /\ mem'.unlisted = mem.unlisted \cup closed
          /\ mem'.minions \subseteq mem.minions /\ mem'.events \subseteq mem.events /\ mem'.claims \subseteq mem.claims
          /\ mem'.unnamed \subseteq mem.unnamed \cup mem.minions /\ mem'.purged \subseteq mem.purged \cup mem.events
          /\ mem' = [sessions |-> mem'.sessions, minions |-> mem'.minions, events |-> mem'.events, claims |-> mem'.claims,
                     unlisted |-> mem'.unlisted, unnamed |-> mem'.unnamed, purged |-> mem'.purged]
      BY <1>10 DEF Remove
    <2>1. mem' \in Registries
      <3> HIDE DEF sessions
      <3> QED BY <2>a, <2>b DEF Registries, Open
    <2> QED BY <1>10, <2>1 DEF Remove
  <1>11. CASE Return
    BY <1>11 DEF Return
  <1>12. CASE Flush
    BY <1>12 DEF Flush
  <1>13. CASE Crash
    <2>1. crashes' \in 0 .. MaxCrashes
      BY <1>13 DEF Crash
    <2> QED BY <1>13, <2>1 DEF Crash
  <1>14. CASE UNCHANGED vars
    BY <1>14 DEF vars
  <1> QED BY <1>1, <1>2, <1>3, <1>4, <1>5, <1>6, <1>7, <1>8, <1>9, <1>10, <1>11, <1>12, <1>13, <1>14
          DEF Next, TaskStep, Advance, CallStep

LEMMA TaskNext == TypeOK /\ TaskOK /\ [Next]_vars => TaskOK'
  <1> SUFFICES ASSUME TypeOK, TaskOK, [Next]_vars PROVE TaskOK'
    OBVIOUS
  <1> USE PlaceType DEF TaskOK, ipcVars, Called, Tasks, Outside, GoTo, Nobody, TypeOK, Registries
  <1>1. ASSUME NEW f \in Frames, TakeLock(f) PROVE TaskOK'
    BY <1>1 DEF TakeLock
  <1>2. ASSUME NEW f \in Frames, ClaimReplayKey(f) PROVE TaskOK'
    BY <1>2 DEF ClaimReplayKey, At
  <1>3. ASSUME NEW f \in Frames, OpenSession(f) PROVE TaskOK'
    BY <1>3, FramesAssumption DEF OpenSession, At
  <1>4. ASSUME NEW f \in Frames, EnsureMinion(f) PROVE TaskOK'
    BY <1>4 DEF EnsureMinion, At
  <1>5. ASSUME NEW f \in Frames, AddEvent(f) \/ GetSession(f) PROVE TaskOK'
    BY <1>5 DEF AddEvent, GetSession, At
  <1>7. CASE GetSessions \/ Purge \/ BeginTrim \/ TrimData \/ Return
    BY <1>7 DEF GetSessions, Purge, BeginTrim, TrimData, Return
  <1>10. ASSUME NEW item \in sweep, Remove(item) PROVE TaskOK'
    BY <1>10 DEF Remove, Open
  <1>12. CASE Flush \/ Crash \/ UNCHANGED vars
    BY <1>12 DEF Flush, Crash, vars
  <1> QED BY <1>1, <1>2, <1>3, <1>4, <1>5, <1>7, <1>10, <1>12 DEF Next, TaskStep, Advance, CallStep

LEMMA ReachableNext == TypeOK /\ TaskOK /\ EventsReachable /\ [Next]_vars => EventsReachable'
  <1> SUFFICES ASSUME TypeOK, TaskOK, EventsReachable, [Next]_vars PROVE EventsReachable'
    OBVIOUS
  <1> USE PlaceType DEF EventsReachable, Reachable, TaskOK, ipcVars, Called, Tasks, Outside, GoTo, Nobody, TypeOK, Registries
  <1>1. ASSUME NEW f \in Frames, TakeLock(f) \/ GetSession(f) PROVE EventsReachable'
    BY <1>1 DEF TakeLock, GetSession
  <1>2. ASSUME NEW f \in Frames, ClaimReplayKey(f) PROVE EventsReachable'
    BY <1>2 DEF ClaimReplayKey, At
  <1>3. ASSUME NEW f \in Frames, OpenSession(f) PROVE EventsReachable'
    BY <1>3, FramesAssumption DEF OpenSession, At
  <1>4. ASSUME NEW f \in Frames, EnsureMinion(f) PROVE EventsReachable'
    BY <1>4 DEF EnsureMinion, At
  <1>5. ASSUME NEW f \in Frames, AddEvent(f) PROVE EventsReachable'
    BY <1>5 DEF AddEvent, At
  <1>7. CASE GetSessions \/ Purge \/ BeginTrim \/ TrimData \/ Return
    BY <1>7 DEF GetSessions, Purge, BeginTrim, TrimData, Return
  <1>10. ASSUME NEW item \in sweep, Remove(item) PROVE EventsReachable'
    <2>1. /\ \A c \in Cycles : mem.sessions[c] # 0 => mem'.sessions[c] # 0 \/ c \in mem'.unlisted
          /\ mem.minions \cup mem.unnamed \subseteq mem'.minions \cup mem'.unnamed
          /\ mem.unlisted \subseteq mem'.unlisted /\ mem'.events \subseteq mem.events /\ disk' = disk
          /\ \A c \in Cycles : mem'.sessions[c] \in {0, mem.sessions[c]}
      BY <1>10 DEF Remove, Open
    <2>2. Reachable(disk)'
      BY <2>1
    <2>3. ASSUME NEW e \in mem'.events
          PROVE  /\ mem'.sessions[CycleOf[e]] # 0 \/ CycleOf[e] \in mem'.unlisted
                 /\ Place(e) \in mem'.minions \cup mem'.unnamed
      <3>1. e \in mem.events /\ e \in Frames
        BY <2>1, <2>3 DEF Frames
      <3> QED BY <2>1, <3>1
    <2> QED BY <2>2, <2>3
  <1>12. CASE Flush \/ Crash \/ UNCHANGED vars
    BY <1>12 DEF Flush, Crash, vars
  <1> QED BY <1>1, <1>2, <1>3, <1>4, <1>5, <1>7, <1>10, <1>12 DEF Next, TaskStep, Advance, CallStep

LEMMA SweepNext == TypeOK /\ SweepOK /\ [Next]_vars => SweepOK'
  <1> SUFFICES ASSUME TypeOK, SweepOK, [Next]_vars PROVE SweepOK'
    OBVIOUS
  <1> USE DEF SweepOK, ipcVars, Called, Tasks, Outside, TypeOK
  <1>1. CASE TaskStep
    BY <1>1 DEF TaskStep, Advance, TakeLock, ClaimReplayKey, OpenSession, EnsureMinion, AddEvent, GetSession
  <1>2. CASE GetSessions \/ BeginTrim \/ Return \/ Flush \/ Crash \/ UNCHANGED vars
    BY <1>2 DEF GetSessions, BeginTrim, Return, Flush, Crash, vars
  <1>3. CASE Purge
    <2>1. \A p \in mem.minions : p[1] \in Cycles
      BY DEF Registries
    <2>2. \A e \in mem.events : <<"events", CycleOf[e], MinionOf[e]>> \in {"events"} \X Cycles \X Minions
      BY FramesAssumption DEF Registries, Frames
    <2>3. sweep' \subseteq Trees
      BY <1>3, <2>1, <2>2 DEF Purge, Trees
    <2> QED BY <1>3, <2>3 DEF Purge
  <1>4. CASE TrimData
    BY <1>4 DEF TrimData, Open
  <1>5. ASSUME NEW item \in sweep, Remove(item) PROVE SweepOK'
    <2>1. sweep' \subseteq sweep /\ call' = call
      BY <1>5 DEF Remove
    <2> QED BY <2>1
  <1> QED BY <1>1, <1>2, <1>3, <1>4, <1>5 DEF Next, CallStep

LEMMA PurgeNext == TypeOK /\ SweepOK /\ PurgeOK /\ crashes' = 0 /\ [Next]_vars => PurgeOK'
  <1> SUFFICES ASSUME TypeOK, SweepOK, PurgeOK, crashes' = 0, [Next]_vars PROVE PurgeOK'
    OBVIOUS
  <1> USE DEF PurgeOK, ipcVars, Called, Tasks, Outside, GoTo, TypeOK, Registries
  <1>1. ASSUME NEW f \in Frames, TakeLock(f) \/ GetSession(f) PROVE PurgeOK'
    BY <1>1 DEF TakeLock, GetSession
  <1>2. ASSUME NEW f \in Frames, ClaimReplayKey(f) PROVE PurgeOK'
    BY <1>2 DEF ClaimReplayKey, At
  <1>3. ASSUME NEW f \in Frames, OpenSession(f) PROVE PurgeOK'
    BY <1>3 DEF OpenSession, At
  <1>4. ASSUME NEW f \in Frames, EnsureMinion(f) \/ AddEvent(f) PROVE PurgeOK'
    BY <1>4 DEF EnsureMinion, AddEvent, At
  <1>5. CASE GetSessions \/ Purge \/ BeginTrim \/ TrimData \/ Return
    BY <1>5 DEF GetSessions, Purge, BeginTrim, TrimData, Return
  <1>6. ASSUME NEW item \in sweep, Remove(item) PROVE PurgeOK'
    <2>1. /\ call' = call /\ sweep' = sweep \ {item}
          /\ mem'.claims = IF item = <<"replay">> THEN {} ELSE mem.claims
          /\ mem'.purged = mem.purged \cup {e \in mem.events : item = <<"events", CycleOf[e], MinionOf[e]>>}
      BY <1>6 DEF Remove
    <2>2. ASSUME NEW e \in mem.events, item = <<"events", CycleOf[e], MinionOf[e]>> PROVE call = "purge"
      <3>1. item \notin {"session"} \X Cycles
        BY <2>2
      <3> QED BY <3>1, <1>6 DEF SweepOK
    <2>3. call = "purge" /\ <<"replay">> \notin sweep' => mem'.claims = {}
      BY <2>1
    <2>4. mem'.purged \cap mem'.claims # {} => call = "purge"
      BY <2>1, <2>2
    <2> QED BY <2>1, <2>3, <2>4
  <1>7. CASE Flush \/ Crash \/ UNCHANGED vars
    BY <1>7 DEF Flush, Crash, vars
  <1> QED BY <1>1, <1>2, <1>3, <1>4, <1>5, <1>6, <1>7 DEF Next, TaskStep, Advance, CallStep

LEMMA ClaimsNext == TypeOK /\ EventsReachable /\ PurgeOK /\ ClaimsOK /\ crashes' = 0 /\ [Next]_vars => ClaimsOK'
  <1> SUFFICES ASSUME TypeOK, EventsReachable, PurgeOK, ClaimsOK, crashes' = 0, [Next]_vars PROVE ClaimsOK'
    OBVIOUS
  <1> USE DEF ClaimsOK, Settled, ipcVars, Called, Tasks, Outside, GoTo, Nobody, TypeOK, Registries
  <1>1. ASSUME NEW f \in Frames, TakeLock(f) PROVE ClaimsOK'
    BY <1>1 DEF TakeLock
  <1>2. ASSUME NEW f \in Frames, ClaimReplayKey(f) PROVE ClaimsOK'
    <2>1. CASE f \in mem.claims
      <3>1. f \notin mem.purged
        BY <1>2, <2>1 DEF ClaimReplayKey, At, PurgeOK
      <3> QED BY <1>2, <2>1, <3>1 DEF ClaimReplayKey, At
    <2>2. CASE f \notin mem.claims
      BY <1>2, <2>2 DEF ClaimReplayKey, At
    <2> QED BY <2>1, <2>2
  <1>3. ASSUME NEW f \in Frames, OpenSession(f) PROVE ClaimsOK'
    BY <1>3 DEF OpenSession, At
  <1>4. ASSUME NEW f \in Frames, EnsureMinion(f) PROVE ClaimsOK'
    BY <1>4 DEF EnsureMinion, At
  <1>9. ASSUME NEW f \in Frames, AddEvent(f) PROVE ClaimsOK'
    <2>1. /\ mem'.claims = mem.claims /\ Settled' = Settled \cup task.frame /\ task' = Nobody
      BY <1>9 DEF AddEvent, At
    <2> HIDE DEF Settled
    <2> QED BY <2>1
  <1>5. ASSUME NEW f \in Frames, GetSession(f) PROVE ClaimsOK'
    <2>1. mem.sessions[CycleOf[f]] = 0 /\ Stored(f) => CycleOf[f] \in mem.unlisted
      BY DEF Stored, Place, EventsReachable, Reachable
    <2>2. f \in (reported \cup excused)'
      BY <1>5, <2>1 DEF GetSession
    <2> QED BY <1>5, <2>2 DEF GetSession, At
  <1>6. CASE GetSessions \/ Purge \/ BeginTrim \/ TrimData \/ Return
    BY <1>6 DEF GetSessions, Purge, BeginTrim, TrimData, Return
  <1>7. ASSUME NEW item \in sweep, Remove(item) PROVE ClaimsOK'
    <2>1. /\ mem'.claims \subseteq mem.claims
          /\ mem.events \cup mem.purged \subseteq mem'.events \cup mem'.purged
      BY <1>7 DEF Remove
    <2> QED BY <1>7, <2>1 DEF Remove
  <1>8. CASE Flush \/ Crash \/ UNCHANGED vars
    BY <1>8 DEF Flush, Crash, vars
  <1> QED BY <1>1, <1>2, <1>3, <1>4, <1>5, <1>6, <1>7, <1>8, <1>9 DEF Next, TaskStep, Advance, CallStep

LEMMA FewNext == TypeOK /\ FewOpen /\ [Next]_vars => FewOpen'
  <1> SUFFICES ASSUME TypeOK, FewOpen, [Next]_vars PROVE FewOpen'
    OBVIOUS
  <1> USE DEF FewOpen, ipcVars, Called, Tasks, Outside, TypeOK, Registries
  <1>1. CASE mem' = mem /\ disk' = disk
    BY <1>1 DEF Open
  <1>2. ASSUME NEW f \in Frames, OpenSession(f) PROVE FewOpen'
    <2>1. Open' \subseteq Open \cup {CycleOf[f]} /\ disk' = disk
      BY <1>2 DEF OpenSession, Open
    <2>2. IsFiniteSet(Open \cup {CycleOf[f]})
      BY FS_AddElement
    <2>3. IsFiniteSet(Open')
      BY <2>1, <2>2, FS_Subset
    <2> QED BY <2>1, <2>3
  <1>3. ASSUME NEW f \in Frames, \/ TakeLock(f) \/ ClaimReplayKey(f) \/ EnsureMinion(f) \/ AddEvent(f) \/ GetSession(f)
        PROVE  FewOpen'
    <2>1. mem'.sessions = mem.sessions /\ disk' = disk
      BY <1>3 DEF TakeLock, ClaimReplayKey, EnsureMinion, AddEvent, GetSession
    <2> QED BY <2>1 DEF Open
  <1>4. CASE GetSessions \/ Purge \/ BeginTrim \/ TrimData \/ Return \/ UNCHANGED vars
    BY <1>1, <1>4 DEF GetSessions, Purge, BeginTrim, TrimData, Return, vars
  <1>5. ASSUME NEW item \in sweep, Remove(item) PROVE FewOpen'
    <2>1. Open' \subseteq Open /\ disk' = disk
      BY <1>5 DEF Remove, Open
    <2>2. IsFiniteSet(Open')
      BY <2>1, FS_Subset
    <2> QED BY <2>1, <2>2
  <1>6. CASE Flush \/ Crash
    BY <1>6 DEF Flush, Crash, Open
  <1> QED BY <1>2, <1>3, <1>4, <1>5, <1>6 DEF Next, TaskStep, Advance, CallStep

LEMMA RotationNext == TypeOK /\ SweepOK /\ FewOpen /\ RotationOK /\ [Next]_vars => RotationOK'
  <1> SUFFICES ASSUME TypeOK, SweepOK, FewOpen, RotationOK, [Next]_vars PROVE RotationOK'
    OBVIOUS
  <1> USE DEF ipcVars, Called, Tasks, Outside
  <1>1. CASE TaskStep
    BY <1>1 DEF TaskStep, Advance, TakeLock, ClaimReplayKey, OpenSession, EnsureMinion, AddEvent, GetSession, At,
                RotationOK, Spared, Open
  <1>2. CASE GetSessions \/ Purge \/ BeginTrim \/ Return \/ Crash
    BY <1>2 DEF GetSessions, Purge, BeginTrim, Return, Crash, RotationOK
  <1>3. CASE Flush \/ UNCHANGED vars
    BY <1>3 DEF Flush, vars, RotationOK, Spared, Open
  <1>4. CASE TrimData
    <2>1. PICK over \in SUBSET Open :
            /\ Cardinality(over) = IF Cardinality(Open) > Limit THEN Cardinality(Open) - Limit ELSE 0
            /\ \A c \in over, d \in Open \ over : mem.sessions[c] <= mem.sessions[d]
            /\ horizon' \in horizon .. MaxTime
            /\ sweep' = {"session"} \X (over \cup {c \in Open : mem.sessions[c] < horizon'})
      BY <1>4 DEF TrimData
    <2>2. mem' = mem /\ Open' = Open
      BY <1>4 DEF TrimData, Open
    <2>3. Spared' = {c \in Open : c \notin over /\ ~(mem.sessions[c] < horizon')}
      BY <2>1, <2>2 DEF Spared
    <2>4. horizon' \in Nat /\ \A c \in Open : mem.sessions[c] \in Nat
      BY <2>1, BoundsAssumption DEF TypeOK, Registries, Open
    <2>5. Cardinality(Spared') <= Limit
      <3>1. /\ IsFiniteSet(Open) /\ IsFiniteSet(Open \ over) /\ Cardinality(Open) \in Nat
            /\ Cardinality(Open \ over) = Cardinality(Open) - Cardinality(Open \cap over)
        BY FS_Difference, FS_CardinalityType DEF FewOpen
      <3>2. Open \cap over = over
        OBVIOUS
      <3>3. Spared' \subseteq Open \ over
        BY <2>3
      <3>4. Cardinality(Spared') <= Cardinality(Open \ over) /\ Cardinality(Spared') \in Nat
        BY <3>1, <3>3, FS_Subset, FS_CardinalityType
      <3>5. Cardinality(Open \ over) <= Limit /\ Cardinality(Open \ over) \in Nat
        <4> DEFINE all == Cardinality(Open)
        <4>1. Cardinality(Open \ over) = all - Cardinality(over) /\ all \in Nat /\ Limit \in Nat
          BY <3>1, <3>2, BoundsAssumption
        <4>2. Cardinality(over) = IF all > Limit THEN all - Limit ELSE 0
          BY <2>1
        <4>3. Cardinality(Open \ over) \in Nat
          BY <3>1, FS_CardinalityType
        <4> HIDE DEF all
        <4> QED BY <4>1, <4>2, <4>3
      <3> DEFINE kept == Cardinality(Spared')
                 most == Cardinality(Open \ over)
      <3>6. kept <= most /\ most <= Limit /\ kept \in Nat /\ most \in Nat /\ Limit \in Nat
        BY <3>4, <3>5, BoundsAssumption
      <3> HIDE DEF kept, most
      <3>7. kept <= Limit
        BY <3>6
      <3> QED BY <3>7 DEF kept
    <2>6. \A d \in Spared' : mem.sessions[d] >= horizon'
      BY <2>3, <2>4
    <2>7. \A c \in Open \ Spared', d \in Spared' : mem.sessions[c] <= mem.sessions[d]
      BY <2>1, <2>3, <2>4
    <2> QED BY <2>2, <2>5, <2>6, <2>7 DEF RotationOK
  <1>5. ASSUME NEW item \in sweep, Remove(item) PROVE RotationOK'
    <2> SUFFICES ASSUME call = "rotate" PROVE RotationOK'
      BY <1>5 DEF Remove, RotationOK
    <2>1. PICK c \in Cycles : item = <<"session", c>>
      BY DEF SweepOK
    <2>2. /\ mem'.sessions = [d \in Cycles |-> IF d \in Open /\ d = c THEN 0 ELSE mem.sessions[d]]
          /\ sweep' = sweep \ {<<"session", c>>} /\ horizon' = horizon
      BY <1>5, <2>1 DEF Remove
    <2>3. Open' = Open \ {c} /\ \A d \in Open' : mem'.sessions[d] = mem.sessions[d]
      BY <2>2 DEF Open
    <2>4. Spared' = Spared
      BY <2>1, <2>2, <2>3 DEF Spared
    <2>5. Spared \subseteq Open'
      BY <2>4 DEF Spared
    <2> QED BY <2>2, <2>3, <2>4, <2>5 DEF RotationOK
  <1> QED BY <1>1, <1>2, <1>3, <1>4, <1>5 DEF Next, CallStep

RegistryInv ==
    /\ TypeOK /\ TaskOK /\ SweepOK /\ FewOpen /\ RotationOK /\ EventsReachable
    /\ crashes = 0 => PurgeOK /\ ClaimsOK

LEMMA InvInit == Init => RegistryInv
  <1> SUFFICES ASSUME Init PROVE RegistryInv
    OBVIOUS
  <1>1. FewOpen
    <2>1. Open = {} /\ {c \in Cycles : disk.sessions[c] # 0} = {}
      BY DEF Init, Empty, Open
    <2> QED BY <2>1, FS_EmptySet DEF FewOpen
  <1>2. TaskOK /\ SweepOK /\ RotationOK
    BY DEF Init, Nobody, TaskOK, SweepOK, RotationOK
  <1>3. EventsReachable /\ PurgeOK /\ ClaimsOK
    BY DEF Init, Empty, EventsReachable, Reachable, PurgeOK, ClaimsOK
  <1> QED BY <1>1, <1>2, <1>3, TypeInit DEF RegistryInv

LEMMA InvNext == RegistryInv /\ [Next]_vars => RegistryInv'
  <1>1. ASSUME TypeOK, [Next]_vars, crashes' = 0 PROVE crashes = 0
    <2> USE DEF ipcVars, Called, Tasks, Outside
    <2>1. CASE TaskStep
      BY <1>1, <2>1 DEF TaskStep, Advance, TakeLock, ClaimReplayKey, OpenSession, EnsureMinion, AddEvent, GetSession
    <2>2. CASE GetSessions \/ Purge \/ CallStep \/ Flush \/ UNCHANGED vars
      BY <1>1, <2>2 DEF GetSessions, Purge, CallStep, BeginTrim, TrimData, Remove, Return, Flush, vars
    <2>3. CASE Crash
      BY <1>1, <2>3 DEF Crash, TypeOK
    <2> QED BY <1>1, <2>1, <2>2, <2>3 DEF Next
  <1> QED BY <1>1, TypeNext, TaskNext, SweepNext, FewNext, RotationNext, ReachableNext, PurgeNext, ClaimsNext DEF RegistryInv

LEMMA InvHolds == Spec => []RegistryInv
  BY InvInit, InvNext, PTL DEF Spec

(* The state of the registry, of its task and of its calls keeps its       *)
(* types: what is removed was one of the trees or a session.               *)
THEOREM RegistryTyped == Spec => []TypeOK
  BY InvHolds, PTL DEF RegistryInv

(* A stored event is found, in memory and after a crash at any moment,     *)
(* unless a call removed its session or minion behind its task.            *)
THEOREM EventsAreReachable == Spec => []EventsReachable
  BY InvHolds, PTL DEF RegistryInv

(* Until the first crash a replay that is dropped as a duplicate was not   *)
(* needed: a claimed key has had its effect or its task is at work.        *)
THEOREM DuplicatesHadEffect == Spec => []DuplicatesAreIdle
  <1>1. RegistryInv => DuplicatesAreIdle
    BY DEF RegistryInv, ClaimsOK, Settled, DuplicatesAreIdle
  <1> QED BY <1>1, InvHolds, PTL

(* The guard of trimlock is held from the first entry into trim_data to    *)
(* the return: the get_sessions called there never enters it again.        *)
THEOREM RotatesOnce == Spec => [](trimlock <=> call \in {"inner", "rotate"})
  <1> DEFINE Guarded == trimlock <=> call \in {"inner", "rotate"}
  <1>1. Init => Guarded
    BY DEF Init
  <1>2. Guarded /\ [Next]_vars => Guarded'
    <2> SUFFICES ASSUME Guarded, [Next]_vars PROVE Guarded'
      OBVIOUS
    <2> USE DEF ipcVars, Called, Tasks, Outside
    <2>1. CASE TaskStep
      BY <2>1 DEF TaskStep, Advance, TakeLock, ClaimReplayKey, OpenSession, EnsureMinion, AddEvent, GetSession
    <2>2. CASE GetSessions \/ Purge \/ Flush \/ Crash \/ UNCHANGED vars
      BY <2>2 DEF GetSessions, Purge, Flush, Crash, vars
    <2>3. CASE CallStep
      BY <2>3, Zenon DEF CallStep, BeginTrim, TrimData, Remove, Return
    <2> QED BY <2>1, <2>2, <2>3 DEF Next
  <1> QED BY <1>1, <1>2, PTL DEF Spec

(* A rotation removes the oldest sessions first, and when it returns what  *)
(* is left is within the limit and young enough.                           *)
THEOREM RotationKeeps == Spec => RotationKeepsNewest
  <1> DEFINE Step == call = "rotate" /\ crashes' = crashes =>
                 /\ \A c \in Open \ Open', d \in Open' : mem.sessions[c] <= mem.sessions[d]
                 /\ call' = "none" => /\ Cardinality(Open') <= Limit
                                      /\ \A c \in Open' : mem.sessions[c] >= horizon
  <1>1. ASSUME TypeOK, SweepOK, RotationOK, [Next]_vars, call = "rotate", crashes' = crashes
        PROVE  /\ \A c \in Open \ Open', d \in Open' : mem.sessions[c] <= mem.sessions[d]
               /\ call' = "none" => /\ Cardinality(Open') <= Limit
                                    /\ \A c \in Open' : mem.sessions[c] >= horizon
    <2> USE <1>1 DEF ipcVars, Called, Tasks, Outside
    <2>1. CASE mem' = mem /\ call' = call
      BY <2>1 DEF Open
    <2>2. CASE TaskStep
      BY <2>1, <2>2 DEF TaskStep, Advance, TakeLock, ClaimReplayKey, OpenSession, EnsureMinion, AddEvent, GetSession, At
    <2>3. CASE GetSessions \/ Purge \/ BeginTrim \/ TrimData \/ Flush \/ UNCHANGED vars
      BY <2>1, <2>3 DEF GetSessions, Purge, BeginTrim, TrimData, Flush, vars
    <2>4. CASE Crash
      BY <2>4 DEF Crash, TypeOK
    <2>5. CASE Return
      <3>1. mem' = mem /\ Open' = Open /\ Spared = Open
        BY <2>5 DEF Return, Open, Spared
      <3> QED BY <3>1 DEF RotationOK
    <2>6. ASSUME NEW item \in sweep, Remove(item)
          PROVE  call' = call /\ \A c \in Open \ Open', d \in Open' : mem.sessions[c] <= mem.sessions[d]
      <3>1. PICK x \in Cycles : item = <<"session", x>>
        BY DEF SweepOK
      <3>2. /\ mem'.sessions = [d \in Cycles |-> IF d \in Open /\ d = x THEN 0 ELSE mem.sessions[d]]
            /\ call' = call
        BY <2>6, <3>1 DEF Remove
      <3>3. Open' = Open \ {x}
        BY <3>2 DEF Open
      <3>4. ASSUME x \in Open, NEW d \in Open, <<"session", d>> \in sweep PROVE mem.sessions[x] <= mem.sessions[d]
        BY <2>6, <3>1, <3>4 DEF Remove
      <3>5. x \in Open => x \in Open \ Spared
        BY <3>1 DEF Spared
      <3>6. ASSUME x \in Open, NEW d \in Spared PROVE mem.sessions[x] <= mem.sessions[d]
        BY <3>5, <3>6 DEF RotationOK
      <3> QED BY <3>2, <3>3, <3>4, <3>6 DEF Spared
    <2> QED BY <2>2, <2>3, <2>4, <2>5, <2>6 DEF Next, CallStep, TypeOK
  <1>2. RegistryInv /\ [Next]_vars => [Step]_vars
    BY <1>1 DEF RegistryInv
  <1> HIDE DEF Step
  <1>3. Spec => [][Step]_vars
    BY <1>2, InvHolds, PTL DEF Spec
  <1> QED BY <1>3 DEF RotationKeepsNewest, Step

-----------------------------------------------------------------------------
(* The task registry, with its own constants and variables.                *)
CONSTANTS Commands, Internal, MaxPongs, MaxFaults
VARIABLES
    broadcasts, ongoing, cmdq, up, inbox, claimed, queue, run, count, done,
    acks, pongs, dispatched, completed, faults

Tracking == INSTANCE TaskTracking WITH sent <- broadcasts

\* What TaskTracking assumes of its constants.
TasksBounded == Internal \subseteq Commands /\ MaxPongs \in Nat \ {0} /\ MaxFaults \in Nat

(* A runner that is past Fetch has a job.                                  *)
HasJob == \A m \in Minions : run[m] # "idle" => queue[m] # <<>>

LEMMA JobAtHand == ASSUME TasksBounded PROVE Tracking!Spec => [](Tracking!TypeOK /\ HasJob)
<1> USE DEF TasksBounded
<1> DEFINE Inv == Tracking!TypeOK /\ HasJob
<1>1. Tracking!Init => Inv
  BY DEF Tracking!Init, Tracking!TypeOK, HasJob, Tracking!Each, Tracking!Models, Tracking!Acks, Tracking!Pongs
<1>2. Inv /\ [Tracking!Next]_(Tracking!vars) => Inv'
  <2> SUFFICES ASSUME Inv, [Tracking!Next]_(Tracking!vars) PROVE Inv'
    OBVIOUS
  <2> USE DEF Tracking!TypeOK, HasJob, Tracking!Models, Tracking!Fault
  <2>1. ASSUME NEW c \in Commands, Tracking!Broadcast(c) PROVE Inv'
    BY <2>1 DEF Tracking!Broadcast, Tracking!jobVars
  <2>2. ASSUME NEW c \in Commands, Tracking!Register(c) PROVE Inv'
    BY <2>2 DEF Tracking!Register, Tracking!jobVars, Tracking!netVars
  <2>3. ASSUME NEW p \in pongs, Tracking!HandlePong(p) PROVE Inv'
    BY <2>3 DEF Tracking!HandlePong, Tracking!Flush, Tracking!jobVars
  <2>4. ASSUME NEW a \in acks, Tracking!HandleModelAck(a) PROVE Inv'
    BY <2>4 DEF Tracking!HandleModelAck, Tracking!jobVars, Tracking!Acks
  <2>5. ASSUME NEW m \in Minions, NEW c \in Commands, Tracking!Receive(m, c) PROVE Inv'
    <3>1. CASE c \in Tracking!Models \ claimed[m] /\ queue' = [queue EXCEPT ![m] = Append(@, c)]
                /\ claimed' = [claimed EXCEPT ![m] = @ \cup {c}] /\ acks' = acks
      <4> DEFINE Jobs == Commands \ Internal
      <4>2. queue[m] \in Seq(Jobs) /\ c \in Jobs
        BY <3>1
      <4> HIDE DEF Jobs
      <4>3. Append(queue[m], c) \in Seq(Jobs) /\ Append(queue[m], c) # <<>>
        BY <4>2, AppendProperties
      <4>1. Append(queue[m], c) \in Seq(Tracking!Models) /\ Append(queue[m], c) # <<>>
        BY <4>3 DEF Jobs
      <4> QED BY <2>5, <3>1, <4>1 DEF Tracking!Receive, Tracking!masterVars
    <3>2. CASE UNCHANGED <<claimed, queue>>
      BY <2>5, <3>2 DEF Tracking!Receive, Tracking!masterVars, Tracking!Send, Tracking!AckOf, Tracking!Acks
    <3> QED BY <2>5, <3>1, <3>2 DEF Tracking!Receive
  <2>6. ASSUME NEW m \in Minions, Tracking!Fetch(m) PROVE Inv'
    BY <2>6 DEF Tracking!Fetch, Tracking!masterVars, Tracking!netVars
  <2>7. ASSUME NEW m \in Minions, queue[m] # <<>> PROVE Tracking!Job(m) \in Tracking!Models
    BY <2>7 DEF Tracking!Job
  <2>8. ASSUME NEW m \in Minions, Tracking!Inc(m) PROVE Inv'
    BY <2>7, <2>8 DEF Tracking!Inc, Tracking!At, Tracking!masterVars, Tracking!netVars
  <2>9. ASSUME NEW m \in Minions, Tracking!SendModelAck(m) PROVE Inv'
    BY <2>7, <2>9 DEF Tracking!SendModelAck, Tracking!At, Tracking!masterVars, Tracking!Send, Tracking!AckOf, Tracking!Acks
  <2>10. ASSUME NEW m \in Minions, Tracking!Dec(m) PROVE Inv'
    BY <2>7, <2>10 DEF Tracking!Dec, Tracking!At, Tracking!masterVars, Tracking!netVars
  <2>11. ASSUME NEW m \in Minions, Tracking!FinishJob(m) PROVE Inv'
    <3>1. Tail(queue[m]) \in Seq(Tracking!Models)
      BY <2>11 DEF Tracking!FinishJob, Tracking!At
    <3> QED BY <2>11, <3>1 DEF Tracking!FinishJob, Tracking!At, Tracking!masterVars, Tracking!netVars
  <2>12. ASSUME NEW m \in Minions, Tracking!RefuseLaunch(m) PROVE Inv'
    BY <2>12 DEF Tracking!RefuseLaunch, Tracking!At, Tracking!masterVars, Tracking!netVars
  <2>13. ASSUME NEW m \in Minions, Tracking!Ping(m) PROVE Inv'
    BY <2>13 DEF Tracking!Ping, Tracking!IsDone, Tracking!masterVars, Tracking!Pongs
  <2>14. ASSUME NEW m \in Minions, Tracking!LoseConnection(m) PROVE Inv'
    BY <2>14 DEF Tracking!LoseConnection, Tracking!Disconnect, Tracking!masterVars, Tracking!jobVars
  <2>15. ASSUME NEW m \in Minions, Tracking!Reconnect(m) PROVE Inv'
    BY <2>15 DEF Tracking!Reconnect, Tracking!masterVars, Tracking!jobVars, Tracking!AckOf, Tracking!Acks
  <2>16. ASSUME NEW m \in Minions, Tracking!Restart(m) PROVE Inv'
    BY <2>16 DEF Tracking!Restart, Tracking!Disconnect, Tracking!masterVars
  <2>17. CASE UNCHANGED Tracking!vars
    BY <2>17 DEF Tracking!vars, Tracking!masterVars, Tracking!jobVars, Tracking!netVars
  <2> QED BY <2>1, <2>2, <2>3, <2>4, <2>5, <2>6, <2>8, <2>9, <2>10, <2>11, <2>12, <2>13,
             <2>14, <2>15, <2>16, <2>17 DEF Tracking!Next, Tracking!Runner
<1> QED BY <1>1, <1>2, PTL DEF Tracking!Spec

(* The state keeps its types, whatever is lost, refused and restarted.     *)
THEOREM TasksTyped == ASSUME TasksBounded PROVE Tracking!Spec => []Tracking!TypeOK
BY JobAtHand, PTL

(* What was dispatched and is not counted has completed, and a runner that *)
(* is about to decrement has recorded the completion.                      *)
Counted ==
    \A m \in Minions : /\ dispatched[m] \subseteq completed[m] \cup count[m]
                       /\ run[m] = "uncount" => Tracking!Job(m) \in completed[m]

(* A counter at zero means that everything dispatched has completed: the   *)
(* drain does not end inside a run.                                        *)
THEOREM IdleIsCompleted == ASSUME TasksBounded PROVE Tracking!Spec => []Tracking!IdleMeansCompleted
<1>1. Tracking!Init => Counted
  BY DEF Tracking!Init, Counted, Tracking!Each
<1>2. Tracking!TypeOK /\ HasJob /\ Counted /\ [Tracking!Next]_(Tracking!vars) => Counted'
  <2> SUFFICES ASSUME Tracking!TypeOK, HasJob, Counted, [Tracking!Next]_(Tracking!vars) PROVE Counted'
    OBVIOUS
  <2> USE DEF Tracking!TypeOK, Counted, Tracking!Job
  <2>1. CASE UNCHANGED <<dispatched, completed, count, run, queue>>
    BY <2>1
  <2>2. ASSUME NEW m \in Minions, NEW c \in Commands, Tracking!Receive(m, c) PROVE Counted'
    <3>1. CASE queue' = [queue EXCEPT ![m] = Append(@, c)]
      <4>1. queue[m] # <<>> => Head(Append(queue[m], c)) = Head(queue[m])
        OBVIOUS
      <4> QED BY <2>2, <3>1, <4>1 DEF Tracking!Receive, HasJob
    <3> QED BY <2>1, <2>2, <3>1 DEF Tracking!Receive
  <2>3. ASSUME NEW m \in Minions, Tracking!Runner(m) \/ Tracking!RefuseLaunch(m) PROVE Counted'
    BY <2>3 DEF Tracking!Runner, Tracking!RefuseLaunch, Tracking!Fetch, Tracking!Inc, Tracking!SendModelAck, Tracking!Dec, Tracking!FinishJob, Tracking!At
  <2>4. ASSUME NEW m \in Minions, Tracking!Restart(m) PROVE Counted'
    BY <2>4 DEF Tracking!Restart
  <2>5. ASSUME \/ \E c \in Commands : Tracking!Broadcast(c) \/ Tracking!Register(c)
               \/ \E p \in pongs : Tracking!HandlePong(p)
               \/ \E a \in acks : Tracking!HandleModelAck(a)
               \/ UNCHANGED Tracking!vars
        PROVE  Counted'
    BY <2>1, <2>5 DEF Tracking!Broadcast, Tracking!Register, Tracking!HandlePong, Tracking!HandleModelAck, Tracking!vars, Tracking!jobVars
  <2>6. ASSUME NEW m \in Minions, Tracking!Ping(m) \/ Tracking!LoseConnection(m) \/ Tracking!Reconnect(m)
        PROVE  Counted'
    BY <2>1, <2>6 DEF Tracking!Ping, Tracking!LoseConnection, Tracking!Reconnect, Tracking!jobVars
  <2> QED BY <2>2, <2>3, <2>4, <2>5, <2>6 DEF Tracking!Next
<1>3. Counted => Tracking!IdleMeansCompleted
  BY DEF Counted, Tracking!IdleMeansCompleted, Tracking!IsDone
<1> QED BY <1>1, <1>2, <1>3, JobAtHand, PTL DEF Tracking!Spec
==============================================================================
