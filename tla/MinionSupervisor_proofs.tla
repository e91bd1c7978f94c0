---------------------- MODULE MinionSupervisor_proofs ----------------------
(***************************************************************************)
(* Theorems about the supervisor of MinionSupervisor.tla, for every        *)
(* configuration and any number of faults.                                 *)
(***************************************************************************)
EXTENDS MinionSupervisor, SequenceTheorems, TLAPS

(* The runner and the run it began.  A run may be left without its runner, *)
(* and then no other runner is started: the stores are locked.             *)
JobOK ==
    /\ runs \in 0 .. 1
    /\ runner \in {"off", "idle", "busy"}
    /\ runner = "idle" => runs = 0
    /\ runner = "busy" => runs = 1

(* A persistent minion ends a recovery only with a channel, so that the    *)
(* startup never skips its watchdog.                                       *)
ChannelOK == Persistent /\ inst \in {"proto", "r.hello", "r.wait"} => secure

(* In follow mode nothing recovers the transport.                          *)
RecoveryOK == inst \in {"recover"} \cup AtTransport => offline = "independent"

WatchOK ==
    /\ instRx \in 0 .. 2
    /\ next \in {"proto", "main", "ok", "err"}
    /\ inst = "drain" => next \in {"ok", "err"}
    /\ ChannelOK /\ RecoveryOK
    /\ Watched

---------------------------------------------------------------------------
LEMMA JobInit == Init => JobOK
  BY DEF Init, JobOK

LEMMA JobNext ==
    ASSUME JobOK, [Next]_vars
    PROVE  JobOK'
  <1> USE DEF JobOK, jobVars
  <1>1. CASE Open
    BY <1>1 DEF Open, StoresFree, NewMinion
  <1>2. CASE Registered \/ Drain
    BY <1>2 DEF Registered, Drain
  <1>3. CASE JobStarts \/ JobEnds
    BY <1>3 DEF JobStarts, JobEnds
  <1>4. CASE Supervisor
    BY <1>4 DEF Supervisor, Spawn, SupervisorSignal, Joined
  <1>5. CASE \/ OpenFails \/ Register \/ Bootstrap \/ StartProto \/ Autosync \/ Announce \/ Receive
             \/ Recovery
    BY <1>5 DEF OpenFails, Register, Bootstrap, StartProto, Autosync, Announce, Receive, Recovery,
       Attempt, ClearStreams, Connect, BootstrapAgain, Hello, RecoveryDone, RecoveryTimeout
  <1>6. ASSUME NEW r \in Readers, PingTimeout(r) \/ ReadFrame(r) \/ ReadFails(r) \/ Handle(r)
        PROVE  JobOK'
    BY <1>6 DEF PingTimeout, ReadFrame, ReadFails, Handle, HandleTraits, HandleOther,
       HandleReconnect, HandleReply, HandleRefused, Handled
  <1>7. CASE MasterStops \/ LinkFails \/ MasterStarts \/ MuteLinkEnds \/ UNCHANGED vars
    BY <1>7 DEF MasterStops, LinkFails, MasterStarts, MuteLinkEnds, Fault, vars
  <1> QED
    BY <1>1, <1>2, <1>3, <1>4, <1>5, <1>6, <1>7 DEF Next, Instance

\* Two runs are never in progress at once: draining may leave a run behind,
\* but its lock on the stores keeps the next instance from starting a runner.
THEOREM RunsAlone == Spec => []OneRun
  <1>1. JobOK => OneRun
    BY DEF JobOK, OneRun
  <1> QED
    BY <1>1, JobInit, JobNext, PTL DEF Spec

---------------------------------------------------------------------------
LEMMA WatchInit == Init => WatchOK
  BY DEF Init, WatchOK, ChannelOK, RecoveryOK, AtTransport, Watched

\* The configuration is read once.
LEMMA ConfigKept == [Next]_vars => UNCHANGED config
  <1> SUFFICES ASSUME [Next]_vars PROVE UNCHANGED config
    OBVIOUS
  <1>1. CASE Supervisor
    BY <1>1, Zenon DEF Supervisor, Spawn, SupervisorSignal, Joined
  <1>2. CASE OpenFails \/ Open \/ Register \/ Registered \/ Bootstrap \/ StartProto
    BY <1>2, Zenon DEF OpenFails, Open, NewMinion, Register, Registered, Bootstrap, StartProto
  <1>3. CASE Autosync \/ Announce \/ Receive \/ Drain
    BY <1>3, Zenon DEF Autosync, Announce, Receive, Drain
  <1>4. CASE Recovery
    BY <1>4, Zenon DEF Recovery, Attempt, ClearStreams, Connect, BootstrapAgain, Hello, RecoveryDone, RecoveryTimeout
  <1>5. CASE JobStarts \/ JobEnds
    BY <1>5, Zenon DEF JobStarts, JobEnds
  <1>6. ASSUME NEW r \in Readers, PingTimeout(r) \/ ReadFrame(r) \/ ReadFails(r) PROVE UNCHANGED config
    BY <1>6, Zenon DEF PingTimeout, ReadFrame, ReadFails
  <1>7. ASSUME NEW r \in Readers, Handle(r) PROVE UNCHANGED config
    BY <1>7, Zenon DEF Handle, HandleTraits, HandleOther, HandleReconnect, HandleReply, HandleRefused, Handled
  <1>8. CASE MasterStops \/ LinkFails \/ MasterStarts \/ MuteLinkEnds
    BY <1>8, Zenon DEF MasterStops, LinkFails, MasterStarts, MuteLinkEnds, Fault
  <1>9. CASE UNCHANGED vars
    BY <1>9, Zenon DEF vars
  <1> QED
    BY <1>1, <1>2, <1>3, <1>4, <1>5, <1>6, <1>7, <1>8, <1>9, Zenon DEF Next, Instance

\* A signal never lowers what the instance has to receive.
LEMMA SignalKeeps ==
    ASSUME instRx \in 0 .. 2, Signal(1) \/ Quiet
    PROVE  /\ instRx' \in 0 .. 2
           /\ instRx > 0 => instRx' > 0
           /\ inst = "main" /\ Signal(1) => instRx' > 0
  BY DEF Signal, Quiet, Behind, Ended

LEMMA WatchNext ==
    ASSUME WatchOK, [Next]_vars
    PROVE  WatchOK'
  <1>c. (Persistent' <=> Persistent) /\ offline' = offline
    BY ConfigKept DEF config, Persistent
  <1> USE <1>c DEF WatchOK, ChannelOK, RecoveryOK, Watched, taskVars, linkVars, Ended, AtTransport
  <1>1. CASE Supervisor
    BY <1>1 DEF Supervisor, Spawn, SupervisorSignal, Joined
  <1>2. CASE OpenFails \/ Open
    BY <1>2 DEF OpenFails, Open, NewMinion
  <1>3. CASE Register
    BY <1>3, SignalKeeps DEF Register
  <1>4. CASE Registered \/ Bootstrap \/ Autosync \/ Drain
    BY <1>4 DEF Registered, Bootstrap, Autosync, Drain
  <1>5. CASE StartProto
    BY <1>5, SignalKeeps DEF StartProto
  <1>6. CASE Announce
    BY <1>6, SignalKeeps DEF Announce, DoWatch
  <1>7. CASE Receive
    BY <1>7 DEF Receive
  <1>8. CASE ClearStreams \/ Connect \/ BootstrapAgain \/ RecoveryTimeout
    BY <1>8 DEF ClearStreams, Connect, BootstrapAgain, RecoveryTimeout
  <1>16. CASE Attempt
    <2>1. Persistent => inst' = "r.clear"
      <3>1. offline = "independent"
        BY <1>16 DEF Attempt
      <3>2. Persistent => reconnect /\ ~(freq > 0 /\ attempts = freq)
        BY <3>1 DEF Persistent
      <3> QED
        BY <1>16, <3>2, Zenon DEF Attempt
    <2>2. inst' \in {next, "r.clear"} /\ next' = next /\ instRx' = instRx /\ inst = "recover"
      BY <1>16 DEF Attempt
    <2> QED
      BY <2>1, <2>2
  <1>9. CASE Hello
    BY <1>9, SignalKeeps DEF Hello
  <1>10. CASE RecoveryDone
    BY <1>10, SignalKeeps DEF RecoveryDone, DoWatch
  <1>11. CASE JobStarts \/ JobEnds
    BY <1>11, SignalKeeps DEF JobStarts, JobEnds
  <1>12. ASSUME NEW r \in Readers, PingTimeout(r) PROVE WatchOK'
    BY <1>12, SignalKeeps DEF PingTimeout
  <1>13. ASSUME NEW r \in Readers, ReadFrame(r) \/ ReadFails(r) PROVE WatchOK'
    BY <1>13, SignalKeeps DEF ReadFrame, ReadFails
  <1>14. ASSUME NEW r \in Readers, Handle(r) PROVE WatchOK'
    <2>1. Handled(r) /\ (Signal(1) \/ Quiet)
      BY <1>14 DEF Handle, HandleTraits, HandleOther, HandleReconnect, HandleReply, HandleRefused
    <2> QED
      BY <2>1, SignalKeeps DEF Handled
  <1>15. CASE MasterStops \/ LinkFails \/ MasterStarts \/ MuteLinkEnds \/ UNCHANGED vars
    BY <1>15 DEF MasterStops, LinkFails, MasterStarts, MuteLinkEnds, Fault, vars
  <1> QED
    BY <1>1, <1>2, <1>3, <1>4, <1>5, <1>6, <1>7, <1>8, <1>9, <1>10, <1>11, <1>12, <1>13, <1>14,
       <1>15, <1>16 DEF Next, Instance, Recovery

\* In the main loop a watchdog is armed or a signal waits, although the loop
\* forgets the signals of a recovery when it subscribes anew, unless the minion
\* is in independent mode and may not reconnect, or has a limit of attempts.
THEOREM AlwaysWatched == Spec => []Watched
  <1>1. WatchOK => Watched
    BY DEF WatchOK
  <1> QED
    BY <1>1, WatchInit, WatchNext, PTL DEF Spec

---------------------------------------------------------------------------
(* Sequences without repetition: what is appended, taken from the head,    *)
(* removed or renamed.                                                     *)
Once(s, S) == s \in Seq(S) /\ IsInjective(s)

LEMMA AppendOnce ==
    ASSUME NEW S, NEW s, Once(s, S), NEW e \in S, e \notin ToSet(s)
    PROVE  Once(Append(s, e), S) /\ ToSet(Append(s, e)) = ToSet(s) \cup {e}
  <1> DEFINE t == Append(s, e)
  <1>1. /\ t \in Seq(S) /\ Len(t) = Len(s) + 1 /\ Len(s) \in Nat
        /\ \A i \in 1 .. Len(s) : t[i] = s[i]
        /\ t[Len(s) + 1] = e
    BY AppendProperties DEF Once
  <1>2. DOMAIN t = 1 .. Len(s) + 1 /\ DOMAIN s = 1 .. Len(s)
    BY <1>1, LenProperties DEF Once
  <1> HIDE DEF t
  <1>3. ToSet(t) = ToSet(s) \cup {e}
    BY <1>1, <1>2 DEF ToSet
  <1>4. IsInjective(t)
    BY <1>1, <1>2 DEF Once, IsInjective, ToSet
  <1> QED BY <1>1, <1>3, <1>4 DEF Once, t

LEMMA TailOnce ==
    ASSUME NEW S, NEW s, Once(s, S), s # <<>>
    PROVE  /\ Once(Tail(s), S) /\ Head(s) \in ToSet(s)
           /\ ToSet(Tail(s)) = ToSet(s) \ {Head(s)}
  <1> DEFINE t == Tail(s)
  <1>1. /\ t \in Seq(S) /\ Len(t) = Len(s) - 1 /\ Len(s) \in Nat /\ Len(s) > 0
        /\ \A i \in 1 .. Len(t) : t[i] = s[i + 1]
        /\ Head(s) = s[1]
    BY HeadTailProperties, EmptySeq, LenProperties DEF Once
  <1>2. DOMAIN t = 1 .. Len(s) - 1 /\ DOMAIN s = 1 .. Len(s)
    BY <1>1, LenProperties DEF Once
  <1> HIDE DEF t
  <1>3. IsInjective(t)
    BY <1>1, <1>2 DEF Once, IsInjective
  <1>4. ToSet(t) = ToSet(s) \ {Head(s)}
    <2>1. ASSUME NEW i \in DOMAIN t PROVE t[i] \in ToSet(s) /\ t[i] # s[1]
      <3>1. t[i] = s[i + 1] /\ i + 1 \in DOMAIN s /\ 1 \in DOMAIN s /\ i + 1 # 1
        BY <1>1, <1>2
      <3> QED BY <3>1 DEF Once, IsInjective, ToSet
    <2>2. ASSUME NEW i \in DOMAIN s, s[i] # s[1] PROVE s[i] \in ToSet(t)
      <3>1. i - 1 \in DOMAIN t /\ t[i - 1] = s[i]
        BY <1>1, <1>2, <2>2
      <3> QED BY <3>1 DEF ToSet
    <2> QED BY <1>1, <2>1, <2>2 DEF ToSet
  <1> QED BY <1>1, <1>2, <1>3, <1>4 DEF Once, ToSet, t

LEMMA RemoveOnce ==
    ASSUME NEW S, NEW s, Once(s, S), NEW e
    PROVE  Once(RemoveFirst(s, e), S) /\ ToSet(RemoveFirst(s, e)) = ToSet(s) \ {e}
  <1>1. DOMAIN s = 1 .. Len(s) /\ Len(s) \in Nat
    BY LenProperties DEF Once
  <1>2. CASE ~\E i \in 1 .. Len(s) : s[i] = e
    BY <1>1, <1>2 DEF RemoveFirst, ToSet
  <1>3. CASE \E i \in 1 .. Len(s) : s[i] = e
    <2>1. PICK k \in 1 .. Len(s) : s[k] = e
      BY <1>3
    <2>2. {i \in 1 .. Len(s) : s[i] = e} = {k}
      BY <1>1, <2>1 DEF Once, IsInjective
    <2>3. Min({k}) = k
      BY <1>1, <2>1 DEF Min
    <2>4. SelectInSeq(s, LAMBDA v : v = e) = k
      BY <2>2, <2>3 DEF SelectInSeq
    <2> DEFINE t == SubSeq(s, 1, k - 1) \o SubSeq(s, k + 1, Len(s))
    <2>5. RemoveFirst(s, e) = t
      BY <1>3, <2>4 DEF RemoveFirst, RemoveAt
    <2>6. /\ t \in Seq(S) /\ Len(t) = Len(s) - 1 /\ DOMAIN t = 1 .. Len(s) - 1
          /\ \A i \in 1 .. Len(s) - 1 : t[i] = IF i < k THEN s[i] ELSE s[i + 1]
      <3> DEFINE a == SubSeq(s, 1, k - 1)
                 b == SubSeq(s, k + 1, Len(s))
      <3>1. /\ a \in Seq(S) /\ Len(a) = k - 1 /\ \A i \in 1 .. k - 1 : a[i] = s[i]
        <4>1. \A i \in 1 .. k - 1 : s[i] \in S
          BY <1>1, <2>1, ElementOfSeq DEF Once
        <4> QED BY <1>1, <2>1, <4>1, SubSeqProperties
      <3>2. /\ b \in Seq(S) /\ Len(b) = Len(s) - k /\ \A i \in 1 .. Len(s) - k : b[i] = s[k + i]
        <4>1. \A i \in k + 1 .. Len(s) : s[i] \in S
          BY <1>1, <2>1, ElementOfSeq DEF Once
        <4>2. /\ b \in Seq(S) /\ Len(b) = IF k + 1 <= Len(s) THEN Len(s) - (k + 1) + 1 ELSE 0
              /\ \A i \in 1 .. Len(s) - (k + 1) + 1 : b[i] = s[k + 1 + i - 1]
          BY <1>1, <2>1, <4>1, SubSeqProperties
        <4> HIDE DEF b
        <4>3. Len(b) = Len(s) - k
          <5>1. Len(b) = IF k + 1 <= Len(s) THEN Len(s) - (k + 1) + 1 ELSE 0
            BY <4>2
          <5>2. k \in Nat /\ Len(s) \in Nat /\ k <= Len(s)
            BY <1>1, <2>1
          <5> QED BY <5>1, <5>2
        <4>4. ASSUME NEW i \in 1 .. Len(s) - k PROVE b[i] = s[k + i]
          <5>1. i \in 1 .. Len(s) - (k + 1) + 1 /\ k + 1 + i - 1 = k + i
            BY <1>1, <2>1
          <5> QED BY <4>2, <5>1
        <4> QED BY <4>2, <4>3, <4>4
      <3> HIDE DEF a, b
      <3>3. /\ a \o b \in Seq(S) /\ Len(a \o b) = Len(a) + Len(b)
            /\ \A i \in 1 .. Len(a) + Len(b) : (a \o b)[i] = IF i <= Len(a) THEN a[i] ELSE b[i - Len(a)]
        BY <3>1, <3>2, ConcatProperties
      <3>4. t = a \o b
        BY DEF a, b
      <3>5. DOMAIN t = 1 .. Len(t)
        BY <3>3, <3>4, LenProperties
      <3> HIDE DEF t
      <3>6. Len(t) = Len(s) - 1
        <4>1. Len(t) = Len(a) + Len(b) /\ Len(a) = k - 1 /\ Len(b) = Len(s) - k
          BY <3>1, <3>2, <3>3, <3>4
        <4>2. k \in Nat /\ Len(s) \in Nat
          BY <1>1, <2>1
        <4> QED BY <4>1, <4>2
      <3>7. ASSUME NEW i \in 1 .. Len(s) - 1 PROVE t[i] = IF i < k THEN s[i] ELSE s[i + 1]
        <4>1. t[i] = IF i <= Len(a) THEN a[i] ELSE b[i - Len(a)]
          BY <3>3, <3>4, <3>6
        <4>2. CASE i < k
          BY <1>1, <2>1, <3>1, <4>1, <4>2
        <4>3. CASE ~(i < k)
          <5>1. i - (k - 1) \in 1 .. Len(s) - k /\ k + (i - (k - 1)) = i + 1 /\ ~(i <= k - 1)
            BY <1>1, <2>1, <4>3
          <5>2. t[i] = b[i - (k - 1)]
            BY <3>1, <4>1, <5>1
          <5> QED BY <3>2, <4>3, <5>1, <5>2
        <4> QED BY <4>2, <4>3
      <3> QED BY <3>3, <3>4, <3>5, <3>6, <3>7
    <2> HIDE DEF t
    <2>7. IsInjective(t)
      <3> SUFFICES ASSUME NEW i \in 1 .. Len(s) - 1, NEW j \in 1 .. Len(s) - 1, t[i] = t[j] PROVE i = j
        BY <2>6 DEF IsInjective
      <3> DEFINE at(x) == IF x < k THEN x ELSE x + 1
      <3>1. at(i) \in DOMAIN s /\ at(j) \in DOMAIN s /\ s[at(i)] = s[at(j)]
        BY <1>1, <2>1, <2>6
      <3>2. at(i) = at(j)
        BY <3>1 DEF Once, IsInjective
      <3> QED BY <1>1, <2>1, <3>2
    <2>8. ASSUME NEW i \in DOMAIN t PROVE t[i] \in ToSet(s) \ {e}
      <3> DEFINE j == IF i < k THEN i ELSE i + 1
      <3>1. j \in DOMAIN s /\ j # k /\ k \in DOMAIN s /\ t[i] = s[j]
        BY <1>1, <2>1, <2>6
      <3> HIDE DEF j
      <3> QED BY <2>1, <3>1 DEF Once, IsInjective, ToSet
    <2>9. ASSUME NEW i \in DOMAIN s, s[i] # e PROVE s[i] \in ToSet(t)
      <3>1. CASE i < k
        <4>1. i \in DOMAIN t /\ t[i] = s[i]
          BY <1>1, <2>1, <2>6, <3>1
        <4> QED BY <4>1 DEF ToSet
      <3>2. CASE i > k
        <4>1. i - 1 \in DOMAIN t /\ t[i - 1] = s[i]
          BY <1>1, <2>1, <2>6, <3>2
        <4> QED BY <4>1 DEF ToSet
      <3> QED BY <1>1, <2>1, <2>9, <3>1, <3>2
    <2> QED BY <2>5, <2>6, <2>7, <2>8, <2>9 DEF Once, ToSet
  <1> QED BY <1>2, <1>3
(* A reader that has the handle is new to every list in which it is put,   *)
(* and one is only left behind where there was no second one.              *)
Places == ToSet(rlock) \cup ToSet(inhand)
ReadersOK ==
    /\ inst = "r.clear" <=> "recovery" \in ToSet(rlock)
    /\ inst \in {"register", "boot"} => Places \cap Readers = {}
    /\ inst = "proto" \/ (next = "proto" /\ inst \in AtTransport \cup {"recover"}) => "extra" \notin Places
    /\ inst \in {"r.clear", "r.connect", "r.boot", "r.hello"} => "tracked" \notin Places

SpawnOK == sup = "spawn" => inst = "none"

CountOK == sup # "exited" => ra <= freq

ListsOK ==
    /\ rlock \in Seq(Readers \cup {"recovery"}) /\ inhand \in Seq(Readers)
    /\ EachOnce

LEMMA ListsOnce == ListsOK <=> /\ Once(rlock, Readers \cup {"recovery"}) /\ Once(inhand, Readers)
                               /\ ToSet(rlock) \cap ToSet(inhand) = {}
  BY DEF ListsOK, EachOnce, Once

LEMMA ElementsOnce == ASSUME NEW S, NEW s, Once(s, S) PROVE ToSet(s) \subseteq S
  <1>1. \A i \in DOMAIN s : s[i] \in S
    BY LenProperties, ElementOfSeq DEF Once
  <1> QED BY <1>1 DEF ToSet

\* A reader without its handle, beside which there is not another one.
LEMMA RenameOnce ==
    ASSUME NEW S, NEW s, Once(s, S), Readers \subseteq S, "tracked" \notin ToSet(s) \/ "extra" \notin ToSet(s),
           NEW t, t = [i \in DOMAIN s |-> IF s[i] = "tracked" THEN "extra" ELSE s[i]]
    PROVE  Once(t, S) /\ "tracked" \notin ToSet(t)
           /\ ToSet(t) = (ToSet(s) \ {"tracked"}) \cup (IF "tracked" \in ToSet(s) THEN {"extra"} ELSE {})
  <1>1. DOMAIN s = 1 .. Len(s) /\ Len(s) \in Nat /\ \A i \in DOMAIN s : s[i] \in S
    BY LenProperties, ElementOfSeq DEF Once
  <1>2. \A i \in DOMAIN s : t[i] \in S
    BY <1>1 DEF Readers
  <1>3. t \in Seq(S)
    BY <1>1, <1>2
  <1>4. IsInjective(t)
    BY DEF Once, IsInjective, ToSet
  <1>5. ToSet(t) = (ToSet(s) \ {"tracked"}) \cup (IF "tracked" \in ToSet(s) THEN {"extra"} ELSE {})
    BY DEF ToSet
  <1> QED BY <1>3, <1>4, <1>5 DEF Once

LEMMA DoProtoOnce ==
    ASSUME ListsOK, DoProto, "tracked" \notin Places \/ "extra" \notin Places
    PROVE  /\ ListsOK'
           /\ "recovery" \in ToSet(rlock') => "recovery" \in ToSet(rlock)
           /\ "extra" \in Places' => Places \cap Readers # {}
           /\ "extra" \in Places' /\ "tracked" \notin Places => "extra" \in Places
  <1> DEFINE all == Readers \cup {"recovery"}
             renamed(s) == [i \in DOMAIN s |-> IF s[i] = "tracked" THEN "extra" ELSE s[i]]
             r == renamed(rlock)
             h == renamed(inhand)
  <1>1. Once(rlock, all) /\ Once(inhand, Readers) /\ ToSet(rlock) \cap ToSet(inhand) = {}
    BY ListsOnce
  <1>2. rlock' = Append(r, "tracked") /\ inhand' = h
    BY DEF DoProto
  <1>3. /\ Once(r, all) /\ "tracked" \notin ToSet(r)
        /\ ToSet(r) = (ToSet(rlock) \ {"tracked"}) \cup (IF "tracked" \in ToSet(rlock) THEN {"extra"} ELSE {})
    BY <1>1, RenameOnce DEF Places
  <1>4. /\ Once(h, Readers) /\ "tracked" \notin ToSet(h)
        /\ ToSet(h) = (ToSet(inhand) \ {"tracked"}) \cup (IF "tracked" \in ToSet(inhand) THEN {"extra"} ELSE {})
    BY <1>1, RenameOnce DEF Places
  <1> HIDE DEF r, h
  <1>5. Once(Append(r, "tracked"), all) /\ ToSet(Append(r, "tracked")) = ToSet(r) \cup {"tracked"}
    BY <1>3, AppendOnce DEF Readers
  <1>6. ToSet(rlock') \cap ToSet(inhand') = {}
    BY <1>1, <1>2, <1>3, <1>4, <1>5 DEF Places
  <1>7. ListsOK'
    BY <1>2, <1>4, <1>5, <1>6 DEF Once, ListsOK, EachOnce
  <1> QED BY <1>2, <1>3, <1>4, <1>5, <1>7 DEF Places, Readers

LEMMA StopOnce ==
    ASSUME ListsOK, StopBackground
    PROVE  /\ ListsOK'
           /\ ToSet(rlock') \subseteq ToSet(rlock)
           /\ Places' = Places \ {"tracked"}
  <1>1. /\ Once(rlock', Readers \cup {"recovery"}) /\ ToSet(rlock') = ToSet(rlock) \ {"tracked"}
        /\ Once(inhand', Readers) /\ ToSet(inhand') = ToSet(inhand) \ {"tracked"}
    BY ListsOnce, RemoveOnce DEF StopBackground
  <1> QED BY <1>1 DEF ListsOK, EachOnce, Once, Places

LEMMA ListsNext ==
    ASSUME ListsOK, ReadersOK, SpawnOK, WatchOK, [Next]_vars
    PROVE  ListsOK' /\ ReadersOK'
  <1> DEFINE Goal == ListsOK' /\ ReadersOK'
  <1> USE DEF ReadersOK, taskVars, AtTransport, Ended
  <1>0. next \in {"proto", "main", "ok", "err"} /\ (inst = "drain" => next \in {"ok", "err"})
    BY DEF WatchOK
  <1>1. ASSUME UNCHANGED <<rlock, inhand>>
        PROVE  ListsOK' /\ Places' = Places /\ ToSet(rlock') = ToSet(rlock)
    BY <1>1 DEF ListsOK, EachOnce, Places, IsInjective, ToSet
  <1>2. CASE Supervisor
    BY <1>1, <1>2 DEF SpawnOK, Supervisor, Spawn, SupervisorSignal, Joined
  <1>3. CASE OpenFails \/ Drain \/ Announce \/ Bootstrap
    BY <1>0, <1>1, <1>3 DEF OpenFails, Drain, Announce, Bootstrap, DoWatch, Readers
  <1>4. CASE Open
    <2>1. Places \cap Readers = {}
      BY <1>4 DEF Open, StoresFree, SomeReader, Alive, Waiting, Places
    <2> QED BY <1>1, <1>4, <2>1 DEF Open, NewMinion
  <1>5. CASE Register \/ StartProto \/ Hello
    <2>1. CASE DoProto
      <3>1. /\ "tracked" \notin Places \/ "extra" \notin Places
        BY <1>5 DEF Register, StartProto, Hello, Readers
      <3>2. /\ inst' \in {"await", "err", "sync", "main", "r.wait", "recover"} /\ next' = next
            /\ inst # "r.clear"
            /\ inst' \in {"r.wait", "recover"} => inst = "r.hello"
        BY <1>5 DEF Register, StartProto, Hello
      <3> QED BY <2>1, <3>1, <3>2, DoProtoOnce
    <2>2. CASE ~DoProto
      BY <1>1, <1>5, <2>2 DEF Register, StartProto, Hello
    <2> QED BY <2>1, <2>2
  <1>6. CASE Registered \/ Autosync \/ Receive
    <2>1. CASE StopBackground
      <3>1. /\ inst # "r.clear" /\ inst' \in {"ok", "err", "announce", "drain", "recover"}
            /\ inst' = "recover" => next' = "main"
        BY <1>6, <2>1 DEF Registered, Autosync, Receive
      <3> QED BY <2>1, <3>1, StopOnce
    <2>2. CASE ~StopBackground
      <3>1. /\ UNCHANGED <<rlock, inhand>>
            /\ inst # "r.clear" /\ inst' \in {"ok", "err", "announce", "drain", "recover"}
            /\ inst' = "recover" => next' = "main"
        BY <1>6, <2>2 DEF Registered, Autosync, Receive
      <3> QED BY <1>1, <3>1
    <2> QED BY <2>1, <2>2
  <1>7. CASE Attempt
    <2>1. CASE UNCHANGED <<rlock, inhand>> /\ inst' = next
      BY <1>0, <1>1, <1>7, <2>1 DEF Attempt
    <2>2. CASE inst' = "r.clear"
      <3> DEFINE r == RemoveFirst(rlock, "tracked")
      <3>1. /\ Once(r, Readers \cup {"recovery"}) /\ ToSet(r) = ToSet(rlock) \ {"tracked"}
            /\ Once(inhand', Readers) /\ ToSet(inhand') = ToSet(inhand) \ {"tracked"}
        BY <1>0, <1>7, <2>2, ListsOnce, RemoveOnce DEF Attempt
      <3>2. "recovery" \notin ToSet(r)
        BY <1>7, <3>1 DEF Attempt
      <3>3. rlock' = Append(r, "recovery")
        BY <1>0, <1>7, <2>2 DEF Attempt
      <3> HIDE DEF r
      <3>4. Once(rlock', Readers \cup {"recovery"}) /\ ToSet(rlock') = ToSet(r) \cup {"recovery"}
        BY <3>1, <3>2, <3>3, AppendOnce
      <3>5. "recovery" \notin ToSet(inhand)
        BY ListsOnce, ElementsOnce DEF Readers
      <3>6. ListsOK'
        BY <3>1, <3>4, <3>5, ListsOnce DEF ListsOK, EachOnce, Once
      <3>7. Places' = (Places \ {"tracked"}) \cup {"recovery"}
        BY <3>1, <3>4 DEF Places
      <3> QED BY <1>7, <2>2, <3>4, <3>6, <3>7 DEF Attempt, Readers
    <2> QED BY <1>7, <2>1, <2>2 DEF Attempt
  <1>8. CASE ClearStreams
    <2>1. rlock # <<>>
      BY <1>8 DEF ClearStreams, ToSet
    <2>2. /\ Once(rlock', Readers \cup {"recovery"}) /\ ToSet(rlock') = ToSet(rlock) \ {"recovery"}
          /\ inhand' = inhand
      BY <1>8, <2>1, ListsOnce, TailOnce DEF ClearStreams
    <2>3. ListsOK'
      BY <2>2, ListsOnce DEF ListsOK, EachOnce, Once, ToSet
    <2>4. Places' \subseteq Places
      BY <2>2 DEF Places, ToSet
    <2> QED BY <1>8, <2>2, <2>3, <2>4 DEF ClearStreams
  <1>9. CASE Connect \/ BootstrapAgain \/ RecoveryDone \/ RecoveryTimeout
    BY <1>0, <1>1, <1>9 DEF Connect, BootstrapAgain, RecoveryDone, RecoveryTimeout
  <1>10. CASE JobStarts \/ JobEnds \/ \E r \in Readers : PingTimeout(r)
    BY <1>1, <1>10 DEF JobStarts, JobEnds, PingTimeout
  <1>11. ASSUME NEW r \in Readers, ReadFrame(r) \/ ReadFails(r) PROVE Goal
    <2>1. rlock # <<>> /\ Head(rlock) = r
      BY <1>11 DEF ReadFrame, ReadFails, Holds
    <2>2. /\ Once(Tail(rlock), Readers \cup {"recovery"}) /\ ToSet(Tail(rlock)) = ToSet(rlock) \ {r}
          /\ r \in ToSet(rlock)
      BY <2>1, ListsOnce, TailOnce
    <2>3. r \notin ToSet(inhand)
      BY <2>2, ListsOnce
    <2>4. Once(Append(inhand, r), Readers) /\ ToSet(Append(inhand, r)) = ToSet(inhand) \cup {r}
      BY <2>3, ListsOnce, AppendOnce
    <2>5. rlock' = Tail(rlock) /\ inhand' \in {inhand, Append(inhand, r)} /\ inst' = inst /\ next' = next
      BY <1>11 DEF ReadFrame, ReadFails
    <2>6. Once(inhand', Readers) /\ ToSet(inhand') \subseteq ToSet(inhand) \cup {r}
      BY <2>4, <2>5, ListsOnce
    <2>7. ListsOK'
      BY <2>2, <2>5, <2>6, ListsOnce DEF ListsOK, EachOnce, Once
    <2>8. Places' \subseteq Places /\ ("recovery" \in ToSet(rlock') <=> "recovery" \in ToSet(rlock))
      BY <2>2, <2>5, <2>6 DEF Places, Readers
    <2> QED BY <2>5, <2>7, <2>8
  <1>12. ASSUME NEW r \in Readers, Handle(r) PROVE Goal
    <2>1. Handled(r) /\ (Continues(r) \/ Stops)
      BY <1>12 DEF Handle, HandleTraits, HandleOther, HandleReconnect, HandleReply, HandleRefused
    <2>2. r \in ToSet(inhand) /\ inst' = inst /\ next' = next
      BY <2>1 DEF Handled
    <2>3. Once(inhand', Readers) /\ ToSet(inhand') = ToSet(inhand) \ {r}
      BY <2>1, ListsOnce, RemoveOnce DEF Handled
    <2>4. r \notin ToSet(rlock)
      BY <2>2, ListsOnce
    <2>5. Once(Append(rlock, r), Readers \cup {"recovery"}) /\ ToSet(Append(rlock, r)) = ToSet(rlock) \cup {r}
      BY <2>4, ListsOnce, AppendOnce
    <2>6. rlock' \in {rlock, Append(rlock, r)}
      BY <2>1 DEF Continues, Stops
    <2>7. Once(rlock', Readers \cup {"recovery"}) /\ ToSet(rlock') \subseteq ToSet(rlock) \cup {r}
      BY <2>5, <2>6, ListsOnce
    <2>8. ListsOK'
      BY <2>3, <2>7, ListsOnce DEF ListsOK, EachOnce, Once
    <2>9. "recovery" \in ToSet(rlock') <=> "recovery" \in ToSet(rlock)
      <3>1. r # "recovery"
        BY DEF Readers
      <3>2. ToSet(rlock') = ToSet(rlock) \/ ToSet(rlock') = ToSet(rlock) \cup {r}
        BY <2>5, <2>6
      <3> QED BY <3>1, <3>2
    <2>10. Places' \subseteq Places
      BY <2>2, <2>3, <2>7 DEF Places
    <2> QED BY <2>2, <2>8, <2>9, <2>10
  <1>13. CASE MasterStops \/ LinkFails \/ MasterStarts \/ MuteLinkEnds \/ UNCHANGED vars
    BY <1>1, <1>13 DEF MasterStops, LinkFails, MasterStarts, MuteLinkEnds, Fault, vars
  <1> QED
    BY <1>2, <1>3, <1>4, <1>5, <1>6, <1>7, <1>8, <1>9, <1>10, <1>11, <1>12, <1>13
    DEF Next, Instance, Recovery

(* Where the supervisor and the instance are, and how often they tried.    *)
StepsOK ==
    /\ offline \in Modes /\ freq \in Freqs
    /\ sup \in {"spawn", "watch", "stop", "exited"}
    /\ supRx \in 0 .. 2 /\ instRx \in 0 .. 2
    /\ ra \in 0 .. freq + 1 /\ attempts \in 0 .. freq
    /\ inst \in {"open", "register", "await", "boot", "recover", "proto", "sync",
                 "announce", "main", "drain"} \cup AtTransport \cup Ended
    /\ next \in {"proto", "main", "ok", "err"}
    /\ SpawnOK /\ CountOK

(* The rest of the state.                                                  *)
FlagsOK ==
    /\ reconnect \in BOOLEAN /\ fp \in BOOLEAN /\ trusted \in BOOLEAN
    /\ stale \in BOOLEAN /\ leaked \in BOOLEAN /\ secure \in BOOLEAN
    /\ owed \in BOOLEAN /\ recovered \in BOOLEAN /\ master \in BOOLEAN

LinksOK ==
    /\ pings \subseteq Readers
    /\ link \in {"none", "up", "eof", "mute"}
    /\ outcome \in {"pending", "accepted", "rejected"}
    /\ faults \in 0 .. MaxFaults

LEMMA StepsNext == ASSUME StepsOK, [Next]_vars PROVE StepsOK'
  <1> USE FreqsAssumption DEF StepsOK, SpawnOK, CountOK, config, supVars, Quiet, AtTransport, Ended
  <1>1. ASSUME Signal(1) PROVE instRx' \in 0 .. 2 /\ supRx' \in 0 .. 2
    BY <1>1 DEF Signal, Behind
  <1>2. CASE Spawn \/ SupervisorSignal
    BY <1>2 DEF Spawn, SupervisorSignal
  <1>3. CASE Joined
    <2>1. freq \in Nat /\ ra \in Nat /\ ra <= freq
      BY <1>3 DEF Joined
    <2>2. \/ sup' = "exited" /\ ra' = ra
          \/ ra' = 0 /\ freq = 0 /\ sup' \in {"exited", "spawn"}
          \/ ra' = ra + 1 /\ sup' \in {"exited", "spawn"} /\ (ra + 1 > freq => sup' = "exited")
      BY <1>3, <2>1 DEF Joined
    <2>3. ra' \in 0 .. freq + 1 /\ CountOK' /\ sup' \in {"exited", "spawn"}
      BY <1>3, <2>1, <2>2 DEF Joined
    <2> QED BY <1>3, <2>3 DEF Joined
  <1>4. CASE OpenFails \/ Open \/ Drain
    BY <1>4 DEF OpenFails, Open, NewMinion, Drain
  <1>5. CASE Register \/ StartProto
    BY <1>1, <1>5 DEF Register, StartProto
  <1>6. CASE Registered \/ Autosync \/ Receive
    BY <1>6 DEF Registered, Autosync, Receive
  <1>7. CASE Bootstrap \/ ClearStreams \/ Connect \/ BootstrapAgain \/ RecoveryTimeout
    BY <1>7 DEF Bootstrap, ClearStreams, Connect, BootstrapAgain, RecoveryTimeout
  <1>8. CASE Announce \/ Hello
    BY <1>1, <1>8 DEF Announce, Hello
  <1>9. CASE Attempt
    <2>1. freq \in Nat /\ attempts \in Nat /\ attempts <= freq
      OBVIOUS
    <2>2. attempts' \in 0 .. freq /\ inst # "none" /\ inst' \in {next, "r.clear"}
      BY <1>9, <2>1 DEF Attempt
    <2> QED BY <1>9, <2>2 DEF Attempt
  <1>10. CASE RecoveryDone
    BY <1>1, <1>10 DEF RecoveryDone
  <1>11. CASE JobStarts \/ JobEnds
    BY <1>1, <1>11 DEF JobStarts, JobEnds
  <1>12. ASSUME NEW r \in Readers, PingTimeout(r) \/ ReadFrame(r) \/ ReadFails(r) PROVE StepsOK'
    BY <1>1, <1>12 DEF PingTimeout, ReadFrame, ReadFails
  <1>13. ASSUME NEW r \in Readers, Handle(r) PROVE StepsOK'
    <2>1. Handled(r) /\ (Signal(1) \/ Quiet)
      BY <1>13 DEF Handle, HandleTraits, HandleOther, HandleReconnect, HandleReply, HandleRefused
    <2> QED BY <1>1, <2>1 DEF Handled
  <1>14. CASE MasterStops \/ LinkFails \/ MasterStarts \/ MuteLinkEnds \/ UNCHANGED vars
    BY <1>14 DEF MasterStops, LinkFails, MasterStarts, MuteLinkEnds, Fault, vars
  <1> QED
    BY <1>2, <1>3, <1>4, <1>5, <1>6, <1>7, <1>8, <1>9, <1>10, <1>11, <1>12, <1>13, <1>14
    DEF Next, Supervisor, Instance, Recovery

LEMMA FlagsNext == ASSUME FlagsOK, [Next]_vars PROVE FlagsOK'
  <1> USE DEF FlagsOK, config, supVars, taskVars, linkVars, env
  <1>1. CASE Supervisor
    BY <1>1, Zenon DEF Supervisor, Spawn, SupervisorSignal, Joined
  <1>2. CASE OpenFails \/ Open \/ Drain
    BY <1>2, Zenon DEF OpenFails, Open, NewMinion, Drain
  <1>3. CASE Register \/ StartProto \/ Hello
    BY <1>3, Zenon DEF Register, StartProto, Hello
  <1>4. CASE Registered \/ Autosync \/ Receive \/ Attempt
    BY <1>4, Zenon DEF Registered, Autosync, Receive, Attempt
  <1>5. CASE Bootstrap \/ ClearStreams \/ Connect \/ BootstrapAgain \/ RecoveryTimeout
    BY <1>5, Zenon DEF Bootstrap, ClearStreams, Connect, BootstrapAgain, RecoveryTimeout
  <1>6. CASE Announce \/ RecoveryDone
    BY <1>6, Zenon DEF Announce, RecoveryDone, DoWatch
  <1>7. CASE JobStarts \/ JobEnds
    BY <1>7, Zenon DEF JobStarts, JobEnds
  <1>11. ASSUME NEW r \in Readers, PingTimeout(r) \/ ReadFrame(r) \/ ReadFails(r) PROVE FlagsOK'
    BY <1>11, Zenon DEF PingTimeout, ReadFrame, ReadFails
  <1>8. ASSUME NEW r \in Readers, HandleTraits(r) \/ HandleOther(r) \/ HandleRefused(r) PROVE FlagsOK'
    BY <1>8, Zenon DEF HandleTraits, HandleOther, HandleRefused, Handled
  <1>9. ASSUME NEW r \in Readers, HandleReconnect(r) \/ HandleReply(r) PROVE FlagsOK'
    BY <1>9, Zenon DEF HandleReconnect, HandleReply, Handled
  <1>10. CASE MasterStops \/ LinkFails \/ MasterStarts \/ MuteLinkEnds \/ UNCHANGED vars
    BY <1>10, Zenon DEF MasterStops, LinkFails, Fault, MasterStarts, MuteLinkEnds, vars
  <1> QED
    BY <1>1, <1>2, <1>3, <1>4, <1>5, <1>6, <1>7, <1>8, <1>9, <1>10, <1>11 DEF Next, Instance, Recovery, Handle

LEMMA LinksNext == ASSUME LinksOK, [Next]_vars PROVE LinksOK'
  <1> USE FreqsAssumption DEF LinksOK, supVars, taskVars, linkVars, env
  <1>1. CASE Supervisor
    BY <1>1 DEF Supervisor, Spawn, SupervisorSignal, Joined
  <1>2. CASE OpenFails \/ Open \/ Drain
    BY <1>2 DEF OpenFails, Open, NewMinion, Drain
  <1>3. CASE Register \/ StartProto \/ Hello
    BY <1>3 DEF Register, StartProto, Hello
  <1>4. CASE Registered \/ Autosync \/ Receive \/ Attempt
    BY <1>4 DEF Registered, Autosync, Receive, StopBackground, Attempt
  <1>5. CASE ClearStreams \/ Connect \/ RecoveryTimeout
    BY <1>5 DEF ClearStreams, Connect, RecoveryTimeout
  <1>13. CASE Bootstrap \/ BootstrapAgain
    <2>1. faults' \in 0 .. MaxFaults
      BY <1>13 DEF Bootstrap, BootstrapAgain, HelloFails, HelloRefused
    <2>2. link' \in {"none", link} /\ UNCHANGED <<pings, outcome>>
      BY <1>13, Zenon DEF Bootstrap, BootstrapAgain
    <2> QED BY <2>1, <2>2
  <1>6. CASE Announce \/ RecoveryDone
    BY <1>6 DEF Announce, RecoveryDone, DoWatch, Readers
  <1>7. CASE JobStarts \/ JobEnds \/ \E r \in Readers : PingTimeout(r) \/ ReadFrame(r) \/ ReadFails(r)
    BY <1>7 DEF JobStarts, JobEnds, PingTimeout, ReadFrame, ReadFails
  <1>8. ASSUME NEW r \in Readers, HandleTraits(r) \/ HandleOther(r) \/ HandleRefused(r) PROVE LinksOK'
    BY <1>8 DEF HandleTraits, HandleOther, HandleRefused, Handled
  <1>9. ASSUME NEW r \in Readers, HandleReconnect(r) PROVE LinksOK'
    <2>1. faults' \in 0 .. MaxFaults
      BY <1>9 DEF HandleReconnect
    <2> QED BY <1>9, <2>1 DEF HandleReconnect, Handled
  <1>10. ASSUME NEW r \in Readers, HandleReply(r) PROVE LinksOK'
    BY <1>10 DEF HandleReply, Handled
  <1>11. CASE MasterStops \/ LinkFails
    <2>1. Fault /\ faults' \in 0 .. MaxFaults
      BY <1>11 DEF MasterStops, LinkFails, Fault
    <2> QED BY <1>11, <2>1 DEF MasterStops, LinkFails, Fault
  <1>12. CASE MasterStarts \/ MuteLinkEnds \/ UNCHANGED vars
    BY <1>12 DEF MasterStarts, MuteLinkEnds, vars
  <1> QED
    BY <1>1, <1>2, <1>3, <1>4, <1>5, <1>6, <1>7, <1>8, <1>9, <1>10, <1>11, <1>12, <1>13
    DEF Next, Instance, Recovery, Handle

\* No task is ever duplicated or lost track of: besides its types the state
\* keeps at most one reader with a handle and one without.
THEOREM SupervisorTyped == Spec => []TypeOK
  <1> DEFINE Inv == JobOK /\ WatchOK /\ StepsOK /\ FlagsOK /\ LinksOK /\ ListsOK /\ ReadersOK
  <1>1. Init => Inv
    <2> SUFFICES ASSUME Init PROVE Inv
      OBVIOUS
    <2>1. rlock = <<>> /\ inhand = <<>> /\ ToSet(rlock) = {} /\ ToSet(inhand) = {}
      BY DEF Init, ToSet
    <2>2. ListsOK
      BY <2>1 DEF ListsOK, EachOnce, IsInjective
    <2>3. ReadersOK
      BY <2>1 DEF Init, ReadersOK, Places, AtTransport
    <2>4. StepsOK
      BY FreqsAssumption DEF Init, StepsOK, SpawnOK, CountOK, Ended, AtTransport
    <2>5. FlagsOK
      BY Zenon DEF Init, FlagsOK
    <2>6. LinksOK
      BY FreqsAssumption DEF Init, LinksOK
    <2> QED BY <2>2, <2>3, <2>4, <2>5, <2>6, JobInit, WatchInit
  <1>2. Inv /\ [Next]_vars => Inv'
    BY JobNext, WatchNext, StepsNext, FlagsNext, LinksNext, ListsNext DEF StepsOK
  <1>3. Inv => TypeOK
    BY DEF JobOK, StepsOK, FlagsOK, LinksOK, ListsOK, TypeOK
  <1> QED BY <1>1, <1>2, <1>3, PTL DEF Spec
=============================================================================
