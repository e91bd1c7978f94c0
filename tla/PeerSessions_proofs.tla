------------------------ MODULE PeerSessions_proofs ------------------------
(* Theorems about PeerSessions, for any number of minions, processes,      *)
(* connections and faults.                                                 *)
EXTENDS PeerSessions, TLAPS

USE MinionOfAssumption, NoneAssumption, FaultAssumption

Sessions == [Minions -> [sid : Procs \cup {None}, old : BOOLEAN]]
ToMaster == Requests \cup {"hello"}
ToMinion == Notices \cup {Closed} \cup {Frame(k) : k \in Replies}

(* TypeOK, with the sequences of which it names the range.                 *)
ProcsOK ==
    /\ proc \in [Procs -> [st : {"off", "hello", "ehlo", "up", "dead"}, addr : Addrs \cup {None}]]
    /\ owner \in [Addrs -> Procs \cup {None}]
    /\ open \subseteq Addrs
    /\ \A p \in Procs : proc[p].st \in {"hello", "ehlo", "up"} => proc[p].addr \in Addrs
    /\ faults \in 0 .. MaxFaults
WiresOK ==
    /\ toMaster \in [Addrs -> Seq(ToMaster)]
    /\ toMinion \in [Addrs -> Seq(ToMinion)]
    /\ direct \in [Addrs -> Seq(Replies)]
    /\ bcast \in [Addrs -> Seq(Notices)]
TasksOK ==
    /\ reader \in [Addrs -> {"read", "ack", "diag", "done"}]
    /\ writer \subseteq Addrs /\ cancelled \subseteq Addrs
    /\ tasks \subseteq [kind : Requests \cup {"gone"}, addr : Addrs]
    /\ broken \in BOOLEAN
TablesOK ==
    /\ peers \in [Addrs -> Minions \cup {None}]
    /\ connToMid \in [Addrs -> Minions \cup {None}]
    /\ wired \subseteq Addrs /\ toDrop \subseteq Addrs
    /\ session \in Sessions

(* A connection that is read, or of which a request waits, has a process.  *)
Owned ==
    /\ \A a \in Addrs : reader[a] # "done" => owner[a] \in Procs
    /\ \A t \in tasks : owner[t.addr] \in Procs

Shape == ProcsOK /\ WiresOK /\ TasksOK /\ TablesOK /\ Owned

(* A hello comes first on its connection, which nothing refers to before,  *)
(* so that nothing unplugs it either.                                      *)
Unused(a) ==
    /\ reader[a] = "read" /\ a \in wired
    /\ peers[a] = None /\ connToMid[a] = None
    /\ \A t \in tasks : t.addr # a
HelloFirst ==
    \A a \in Addrs : \A i \in 1 .. Len(toMaster[a]) : toMaster[a][i] = "hello" => i = 1 /\ Unused(a)

-----------------------------------------------------------------------------
(* What the helpers return.                                                *)

LEMMA SessionsTyped ==
    ASSUME NEW s \in Sessions, NEW m \in Minions, NEW sid \in Procs \cup {None}
    PROVE  GC(s) \in Sessions /\ PingSession(s, m, sid) \in Sessions /\ RemoveSession(s, m) \in Sessions
  BY DEF Sessions, GC, PingSession, RemoveSession, NoSession

LEMMA QueueTyped ==
    ASSUME NEW S, NEW q \in Seq(S), NEW f \in S
    PROVE  Queue(q, f) \in Seq(S)
  BY DEF Queue

LEMMA BroadcastTyped ==
    ASSUME WiresOK, NEW kind \in {"traits", "already", "byeack"}, NEW m \in Minions, NEW as,
           Broadcast(kind, m, as)
    PROVE  bcast' \in [Addrs -> Seq(Notices)]
  <1>1. [kind |-> kind, mid |-> m] \in Notices
    BY DEF Notices
  <1>2. \A a \in Addrs : Queue(bcast[a], [kind |-> kind, mid |-> m]) \in Seq(Notices)
    BY <1>1, QueueTyped DEF WiresOK
  <1>3. <<>> \in Seq(Notices)
    OBVIOUS
  <1> QED BY <1>2, <1>3 DEF Broadcast, MayReceive

LEMMA MidTyped == ASSUME NEW a, owner[a] \in Procs PROVE Mid(a) \in Minions
  BY DEF Mid

\* A process that gives up its connection.
LEMMA CloseTyped ==
    ASSUME ProcsOK, WiresOK, NEW p \in Procs, NEW st \in {"off", "dead"}, Close(p, st)
    PROVE  /\ proc' \in [Procs -> [st : {"off", "hello", "ehlo", "up", "dead"}, addr : Addrs \cup {None}]]
           /\ \A q \in Procs : proc'[q].st \in {"hello", "ehlo", "up"} => proc'[q].addr \in Addrs
           /\ open' \subseteq Addrs
           /\ toMinion' \in [Addrs -> Seq(ToMinion)]
  BY DEF Close, ProcsOK, WiresOK

-----------------------------------------------------------------------------
(* The processes of the minions.                                           *)

Inv == Shape /\ HelloFirst /\ OneChannel /\ ChannelIsWired

ProcAction(p) == \/ Connect(p) \/ Receive(p) \/ PingTimeout(p)
                 \/ Pong(p) \/ SendBye(p) \/ LoseConnection(p) \/ Die(p)

LEMMA ProcNext == ASSUME Inv, NEW p \in Procs, ProcAction(p) PROVE Inv'
  <1> USE DEF procVars, wireVars, taskVars, tableVars
  <1>0. Shape /\ HelloFirst /\ OneChannel /\ ChannelIsWired
    BY DEF Inv
  \* A process appends a request to what it sent.
  <1>a. ASSUME NEW a \in Addrs, NEW f \in Requests, toMaster' = [toMaster EXCEPT ![a] = Append(@, f)],
               UNCHANGED <<reader, wired, peers, connToMid, tasks>>
        PROVE  toMaster' \in [Addrs -> Seq(ToMaster)] /\ HelloFirst'
    <2>1. f # "hello" /\ f \in ToMaster
      BY DEF Requests, ToMaster
    <2>2. toMaster \in [Addrs -> Seq(ToMaster)]
      BY <1>0 DEF Shape, WiresOK
    <2>3. \A b \in Addrs : /\ toMaster'[b] \in Seq(ToMaster)
                           /\ \A i \in 1 .. Len(toMaster'[b]) :
                                toMaster'[b][i] = "hello" => i \in 1 .. Len(toMaster[b]) /\ toMaster[b][i] = "hello"
      <3> SUFFICES ASSUME NEW b \in Addrs
                   PROVE  /\ toMaster'[b] \in Seq(ToMaster)
                          /\ \A i \in 1 .. Len(toMaster'[b]) :
                               toMaster'[b][i] = "hello" => i \in 1 .. Len(toMaster[b]) /\ toMaster[b][i] = "hello"
        OBVIOUS
      <3>1. CASE b = a
        <4> DEFINE q == toMaster[a]
        <4>1. q \in Seq(ToMaster) /\ toMaster'[b] = Append(q, f)
          BY <1>a, <2>2, <3>1
        <4> HIDE DEF q
        <4>2. Append(q, f) \in Seq(ToMaster) /\ \A i \in 1 .. Len(Append(q, f)) :
                 Append(q, f)[i] = "hello" => i \in 1 .. Len(q) /\ q[i] = "hello"
          BY <2>1, <4>1
        <4> QED BY <3>1, <4>1, <4>2 DEF q
      <3>2. CASE b # a
        BY <1>a, <2>2, <3>2
      <3> QED BY <3>1, <3>2
    <2>4. toMaster' \in [Addrs -> Seq(ToMaster)]
      BY <1>a, <2>2, <2>3
    <2> QED BY <1>0, <1>a, <2>3, <2>4 DEF HelloFirst, Unused
  <1>t. ASSUME UNCHANGED <<tableVars, tasks, reader, owner>>
        PROVE  OneChannel' /\ ChannelIsWired' /\ Owned' /\ TablesOK'
               /\ (UNCHANGED toMaster => HelloFirst')
    BY <1>0, <1>t DEF OneChannel, ChannelIsWired, Owned, TablesOK, HelloFirst, Unused, Shape
  <1>f. ASSUME Fault(p) PROVE faults' \in 0 .. MaxFaults
    BY <1>0, <1>f DEF Fault, Shape, ProcsOK
  <1>1. CASE Connect(p)
    <2>1. PICK a \in Addrs :
            /\ Free(a)
            /\ proc' = [proc EXCEPT ![p] = [st |-> "hello", addr |-> a]]
            /\ owner' = [owner EXCEPT ![a] = p] /\ open' = open \cup {a}
            /\ toMaster' = [toMaster EXCEPT ![a] = <<"hello">>]
            /\ reader' = [reader EXCEPT ![a] = "read"]
            /\ writer' = writer \cup {a} /\ wired' = wired \cup {a}
            /\ cancelled' = cancelled \ {a} /\ toDrop' = toDrop \ {a}
            /\ direct' = [direct EXCEPT ![a] = <<>>] /\ bcast' = [bcast EXCEPT ![a] = <<>>]
      BY <1>1 DEF Connect
    <2>2. UNCHANGED <<toMinion, peers, connToMid, session, tasks, faults, broken>>
      BY <1>1 DEF Connect
    <2>3. ProcsOK'
      BY <1>0, <2>1, <2>2 DEF Shape, ProcsOK
    <2>4. WiresOK'
      <3>1. <<"hello">> \in Seq(ToMaster)
        BY DEF ToMaster
      <3> QED BY <1>0, <2>1, <2>2, <3>1 DEF Shape, WiresOK
    <2>5. TasksOK' /\ TablesOK'
      BY <1>0, <2>1, <2>2 DEF Shape, TasksOK, TablesOK
    <2>6. Owned'
      BY <1>0, <2>1, <2>2 DEF Shape, TasksOK, ProcsOK, Owned
    <2>7. HelloFirst'
      <3>1. Unused(a)'
        BY <1>0, <2>1, <2>2 DEF Free, Unused, Shape, TasksOK
      <3>2. toMaster'[a] = <<"hello">>
        BY <1>0, <2>1, <2>2 DEF Shape, WiresOK
      <3>3. ASSUME NEW b \in Addrs \ {a}, NEW i \in 1 .. Len(toMaster'[b]), toMaster'[b][i] = "hello"
            PROVE  i = 1 /\ Unused(b)'
        <4>1. toMaster'[b] = toMaster[b] /\ reader'[b] = reader[b]
          BY <1>0, <2>1, <3>3 DEF Shape, WiresOK, TasksOK
        <4> QED BY <1>0, <2>1, <2>2, <3>3, <4>1 DEF HelloFirst, Unused
      <3> QED BY <3>1, <3>2, <3>3 DEF HelloFirst
    <2>8. OneChannel' /\ ChannelIsWired'
      BY <1>0, <2>1, <2>2 DEF OneChannel, ChannelIsWired
    <2> QED BY <2>3, <2>4, <2>5, <2>6, <2>7, <2>8 DEF Inv, Shape
  <1>c. ASSUME NEW st \in {"off", "dead"}, Close(p, st), UNCHANGED <<owner, toMaster, taskVars, tableVars, tasks, broken>>,
               faults' \in 0 .. MaxFaults
        PROVE  Inv'
    <2>0. /\ proc' \in [Procs -> [st : {"off", "hello", "ehlo", "up", "dead"}, addr : Addrs \cup {None}]]
          /\ \A q \in Procs : proc'[q].st \in {"hello", "ehlo", "up"} => proc'[q].addr \in Addrs
          /\ open' \subseteq Addrs /\ toMinion' \in [Addrs -> Seq(ToMinion)]
      BY <1>0, <1>c, CloseTyped DEF Shape
    <2>1. ProcsOK' /\ WiresOK' /\ TasksOK'
      BY <1>0, <1>c, <2>0 DEF Shape, ProcsOK, WiresOK, TasksOK
    <2> QED BY <1>c, <1>t, <2>1 DEF Inv, Shape
  <1>2. CASE Receive(p)
    <2> DEFINE a == proc[p].addr
    <2>1. a \in Addrs /\ toMinion[a] \in Seq(ToMinion) /\ toMinion[a] # <<>>
      BY <1>0, <1>2 DEF Receive, Shape, ProcsOK, WiresOK
    <2>2. UNCHANGED <<owner, taskVars, tableVars, tasks, faults, broken>>
      BY <1>2 DEF Receive
    <2>3. CASE Close(p, "off") /\ toMaster' = toMaster
      BY <1>0, <1>c, <2>2, <2>3 DEF Shape, ProcsOK
    <2>4. Tail(toMinion[a]) \in Seq(ToMinion)
      BY <2>1
    <2>5. ASSUME toMinion' = [toMinion EXCEPT ![a] = Tail(@)], open' = open,
                 \E st \in {"ehlo", "up", proc[p].st} : proc' = [proc EXCEPT ![p].st = st],
                 UNCHANGED toMaster \/ toMaster' = [toMaster EXCEPT ![a] = Append(@, "ehlo")]
          PROVE  Inv'
      <3>0. PICK st \in {"off", "hello", "ehlo", "up", "dead"} : proc' = [proc EXCEPT ![p].st = st]
        BY <1>0, <2>5 DEF Shape, ProcsOK
      <3>1. ProcsOK' /\ TasksOK'
        BY <1>0, <2>1, <2>2, <2>5, <3>0 DEF Shape, ProcsOK, TasksOK
      <3>2. toMinion' \in [Addrs -> Seq(ToMinion)]
        BY <1>0, <2>4, <2>5 DEF Shape, WiresOK
      <3>3. toMaster' \in [Addrs -> Seq(ToMaster)] /\ HelloFirst'
        BY <1>0, <1>a, <1>t, <2>1, <2>2, <2>5 DEF Shape, WiresOK, Requests
      <3> QED BY <1>0, <1>t, <2>2, <3>1, <3>2, <3>3 DEF Inv, Shape, WiresOK
    <2> HIDE DEF a
    <2>6. \/ Close(p, "off") /\ toMaster' = toMaster
          \/ /\ toMinion' = [toMinion EXCEPT ![a] = Tail(@)] /\ open' = open
             /\ proc' = [proc EXCEPT ![p].st = "ehlo"] \/ proc' = [proc EXCEPT ![p].st = "up"]
                \/ proc' = [proc EXCEPT ![p].st = proc[p].st]
             /\ UNCHANGED toMaster \/ toMaster' = [toMaster EXCEPT ![a] = Append(@, "ehlo")]
      <3>1. [proc EXCEPT ![p].st = @] = [proc EXCEPT ![p].st = proc[p].st]
        OBVIOUS
      <3> QED BY <1>2, <3>1 DEF Receive, a
    <2> QED BY <2>3, <2>5, <2>6
  <1>3. CASE PingTimeout(p)
    BY <1>0, <1>3, <1>c DEF PingTimeout, Shape, ProcsOK
  <1>4. CASE Pong(p) \/ SendBye(p)
    <2> DEFINE a == proc[p].addr
    <2>1. a \in Addrs
      BY <1>0, <1>4 DEF Pong, SendBye, Shape, ProcsOK, TasksOK
    <2>2. PICK f \in Requests : toMaster' = [toMaster EXCEPT ![a] = Append(@, f)]
      BY <1>4 DEF Pong, SendBye, Requests
    <2>3. UNCHANGED <<procVars, toMinion, taskVars, tableVars, tasks, broken>> /\ Fault(p)
      BY <1>4 DEF Pong, SendBye
    <2>4. ProcsOK' /\ TasksOK'
      BY <1>0, <1>f, <2>3 DEF Shape, ProcsOK, TasksOK
    <2>5. WiresOK' /\ HelloFirst'
      BY <1>0, <1>a, <2>1, <2>2, <2>3 DEF Shape, WiresOK
    <2> QED BY <1>t, <2>3, <2>4, <2>5 DEF Inv, Shape
  <1>5. CASE LoseConnection(p)
    BY <1>5, <1>c, <1>f DEF LoseConnection
  <1>6. CASE Die(p)
    BY <1>0, <1>6, <1>c DEF Die, Shape, ProcsOK
  <1> QED BY <1>1, <1>2, <1>3, <1>4, <1>5, <1>6 DEF ProcAction

-----------------------------------------------------------------------------
(* The connections of the master.                                          *)

LEMMA ReaderNext == ASSUME Inv, NEW a \in Addrs, ReaderStep(a) PROVE Inv'
  <1> USE DEF procVars, wireVars, taskVars, tableVars
  <1>0. /\ Shape /\ HelloFirst /\ OneChannel /\ ChannelIsWired
        /\ toMaster \in [Addrs -> Seq(ToMaster)]
        /\ reader \in [Addrs -> {"read", "ack", "diag", "done"}]
    BY DEF Inv, Shape, WiresOK, TasksOK
  \* What a reader takes was at the head, and only there is a hello.
  <1>d. ASSUME \/ toMaster[a] # <<>> /\ toMaster' = [toMaster EXCEPT ![a] = Tail(@)]
               \/ toMaster' = [toMaster EXCEPT ![a] = <<>>]
        PROVE  /\ toMaster' \in [Addrs -> Seq(ToMaster)]
               /\ \A b \in Addrs : b # a => toMaster'[b] = toMaster[b]
               /\ \A i \in 1 .. Len(toMaster'[a]) : toMaster'[a][i] # "hello"
    <2>1. CASE toMaster' = [toMaster EXCEPT ![a] = <<>>]
      BY <1>0, <2>1
    <2>2. CASE toMaster[a] # <<>> /\ toMaster' = [toMaster EXCEPT ![a] = Tail(@)]
      <3>1. toMaster[a] \in Seq(ToMaster) /\ toMaster'[a] = Tail(toMaster[a])
        BY <1>0, <2>2
      <3>2. \A i \in 1 .. Len(toMaster[a]) : toMaster[a][i] = "hello" => i = 1
        BY <1>0 DEF HelloFirst
      <3>3. /\ Tail(toMaster[a]) \in Seq(ToMaster)
            /\ \A i \in 1 .. Len(Tail(toMaster[a])) : i + 1 \in 1 .. Len(toMaster[a]) /\ i + 1 # 1
                                                      /\ Tail(toMaster[a])[i] = toMaster[a][i + 1]
        BY <2>2, <3>1
      <3> QED BY <1>0, <2>2, <3>1, <3>2, <3>3
    <2> QED BY <1>d, <2>1, <2>2
  <1>h. ASSUME \/ toMaster[a] # <<>> /\ toMaster' = [toMaster EXCEPT ![a] = Tail(@)]
               \/ toMaster' = [toMaster EXCEPT ![a] = <<>>],
               \A b \in Addrs \ {a} : Unused(b) => Unused(b)'
        PROVE  HelloFirst'
    BY <1>0, <1>d, <1>h DEF HelloFirst
  <1>1. CASE DecodeHello(a)
    <2> DEFINE old == Replaced(a)
    <2>1. reader[a] = "read" /\ Unused(a) /\ owner[a] \in Procs /\ Mid(a) \in Minions
      <3>1. reader[a] = "read" /\ toMaster[a][1] = "hello" /\ 1 \in 1 .. Len(toMaster[a])
        BY <1>0, <1>1 DEF DecodeHello
      <3>2. owner[a] \in Procs
        BY <1>0, <3>1 DEF Shape, Owned
      <3> QED BY <1>0, <3>1, <3>2, MidTyped DEF HelloFirst
    <2>2. /\ old \subseteq Addrs \ {a}
          /\ \A b \in old : peers[b] = Mid(a)
      BY DEF Replaced
    <2>3. /\ toMaster[a] # <<>> /\ toMaster' = [toMaster EXCEPT ![a] = Tail(@)]
          /\ session' = IF old = {} THEN session ELSE RemoveSession(session, Mid(a))
          /\ wired' = wired \ old
          /\ peers' = [b \in Addrs |-> IF b \in old THEN None
                                       ELSE IF b = a /\ AcceptBootstrap(a) = "accepted" THEN Mid(a) ELSE peers[b]]
          /\ UNCHANGED <<procVars, toMinion, writer, direct, bcast, connToMid, toDrop, faults, broken>>
      BY <1>1 DEF DecodeHello
    <2>4. /\ \E r \in {"ack", "diag", "done"} : reader' = [reader EXCEPT ![a] = r]
          /\ \/ tasks' = tasks
             \/ tasks' = tasks \cup {[kind |-> "gone", addr |-> a]}
          /\ \/ cancelled' = cancelled \cup (old \cap wired)
             \/ cancelled' = cancelled \cup (old \cap wired) \cup {a}
      <3>1. CASE AcceptBootstrap(a) = "duplicate"
        BY <1>1, <3>1 DEF DecodeHello
      <3>2. CASE AcceptBootstrap(a) = "accepted"
        BY <1>1, <3>2 DEF DecodeHello
      <3>3. CASE AcceptBootstrap(a) = "error"
        BY <1>1, <3>3 DEF DecodeHello
      <3> QED BY <3>1, <3>2, <3>3 DEF AcceptBootstrap
    <2>5. AcceptBootstrap(a) = "accepted" => \A b \in Addrs \ ({a} \cup old) : peers[b] # Mid(a)
      BY DEF AcceptBootstrap, HasOtherChannel
    <2> HIDE DEF old
    <2>6. ProcsOK' /\ TasksOK' /\ Owned'
      BY <1>0, <2>1, <2>2, <2>3, <2>4 DEF Shape, ProcsOK, TasksOK, Owned
    <2>7. WiresOK' /\ TablesOK'
      BY <1>0, <1>d, <2>1, <2>2, <2>3, SessionsTyped DEF Shape, WiresOK, TablesOK
    <2>8. OneChannel'
      BY <1>0, <2>1, <2>2, <2>3, <2>5 DEF OneChannel
    <2>9. ChannelIsWired'
      BY <1>0, <2>1, <2>2, <2>3 DEF ChannelIsWired, Unused
    <2>10. \A b \in Addrs \ {a} : Unused(b) => Unused(b)'
      BY <1>0, <2>1, <2>2, <2>3, <2>4 DEF Unused
    <2>11. HelloFirst'
      BY <1>h, <2>3, <2>10
    <2> QED BY <2>6, <2>7, <2>8, <2>9, <2>11 DEF Inv, Shape
  <1>s. ASSUME UNCHANGED <<procVars, toMinion, writer, direct, bcast, tableVars, faults, broken>>,
               \/ toMaster[a] # <<>> /\ toMaster' = [toMaster EXCEPT ![a] = Tail(@)]
               \/ toMaster' = [toMaster EXCEPT ![a] = <<>>],
               reader[a] = "read",
               NEW r \in {"read", "ack", "diag", "done"}, reader' = [reader EXCEPT ![a] = r],
               NEW k \in Requests \cup {"gone"},
               tasks' = tasks \/ tasks' = tasks \cup {[kind |-> k, addr |-> a]},
               UNCHANGED cancelled
        PROVE  Inv'
    <2>1. ProcsOK' /\ TasksOK' /\ TablesOK' /\ Owned'
      BY <1>0, <1>s DEF Shape, ProcsOK, TasksOK, TablesOK, Owned
    <2>2. WiresOK'
      BY <1>0, <1>d, <1>s DEF Shape, WiresOK
    <2>3. \A b \in Addrs \ {a} : Unused(b) => Unused(b)'
      BY <1>0, <1>s DEF Unused
    <2>4. HelloFirst'
      BY <1>h, <1>s, <2>3
    <2>5. OneChannel' /\ ChannelIsWired'
      BY <1>0, <1>s DEF OneChannel, ChannelIsWired
    <2> QED BY <2>1, <2>2, <2>4, <2>5 DEF Inv, Shape
  <1>2. CASE DecodeRequest(a)
    <2> DEFINE f == Head(toMaster[a])
    <2>1. toMaster[a] # <<>> /\ f \in Requests
      BY <1>0, <1>2 DEF DecodeRequest, ToMaster
    <2>2. reader[a] = "read" /\ toMaster' = [toMaster EXCEPT ![a] = Tail(@)] /\ UNCHANGED cancelled
          /\ UNCHANGED <<procVars, toMinion, writer, direct, bcast, tableVars, faults, broken>>
      BY <1>2 DEF DecodeRequest
    <2>3. /\ reader' = [reader EXCEPT ![a] = "read"] \/ reader' = [reader EXCEPT ![a] = "diag"]
          /\ tasks' = tasks \/ tasks' = tasks \cup {[kind |-> f, addr |-> a]}
      <3>1. reader = [reader EXCEPT ![a] = "read"]
        BY <1>0, <2>2
      <3> QED BY <1>2, <3>1 DEF DecodeRequest
    <2> HIDE DEF f
    <2> QED BY <1>s, <2>1, <2>2, <2>3
  <1>3. CASE ReaderEnds(a)
    BY <1>3, <1>s DEF ReaderEnds
  <1>4. CASE ReaderCancelled(a)
    BY <1>4, <1>s DEF ReaderCancelled
  <1>5. CASE QueueReply(a)
    <2>1. direct' \in [Addrs -> Seq(Replies)]
      <3>1. direct[a] \in Seq(Replies) /\ reader[a] \in Replies
        BY <1>0, <1>5 DEF QueueReply, Shape, WiresOK
      <3>2. Append(direct[a], reader[a]) \in Seq(Replies)
        BY <3>1
      <3> QED BY <1>0, <1>5, <3>2 DEF QueueReply, Shape, WiresOK
    <2>2. ProcsOK' /\ WiresOK' /\ TasksOK' /\ TablesOK' /\ Owned'
      BY <1>0, <1>5, <2>1 DEF QueueReply, Replies, Shape, ProcsOK, WiresOK, TasksOK, TablesOK, Owned
    <2>3. HelloFirst' /\ OneChannel' /\ ChannelIsWired'
      BY <1>0, <1>5 DEF QueueReply, Replies, HelloFirst, Unused, OneChannel, ChannelIsWired
    <2> QED BY <2>2, <2>3 DEF Inv, Shape
  <1> QED BY <1>1, <1>2, <1>3, <1>4, <1>5 DEF ReaderStep

LEMMA WriterNext == ASSUME Inv, NEW a \in Addrs, WriterStep(a) \/ WriteFails(a) PROVE Inv'
  <1> USE DEF procVars, wireVars, taskVars, tableVars
  <1>0. Shape /\ HelloFirst /\ OneChannel /\ ChannelIsWired
    BY DEF Inv
  <1>1. /\ direct[a] \in Seq(Replies) /\ bcast[a] \in Seq(Notices) /\ toMinion[a] \in Seq(ToMinion)
        /\ TakeFrame(a)
    BY <1>0 DEF WriterStep, SkipBroadcast, WriteFrame, WriteFails, Shape, WiresOK
  <1>2. /\ direct' \in [Addrs -> Seq(Replies)] /\ bcast' \in [Addrs -> Seq(Notices)]
        /\ NextFrame(a) \in ToMinion
    <2>1. CASE direct[a] # <<>>
      <3>1. Head(direct[a]) \in Replies /\ Tail(direct[a]) \in Seq(Replies)
        BY <1>1, <2>1
      <3>2. Frame(Head(direct[a])) \in ToMinion
        BY <3>1 DEF ToMinion
      <3> QED BY <1>0, <1>1, <2>1, <3>1, <3>2 DEF TakeFrame, NextFrame, Shape, WiresOK
    <2>2. CASE direct[a] = <<>>
      <3>1. Head(bcast[a]) \in Notices /\ Tail(bcast[a]) \in Seq(Notices)
        BY <1>1, <2>2 DEF TakeFrame
      <3> QED BY <1>0, <1>1, <2>2, <3>1 DEF TakeFrame, NextFrame, ToMinion, Shape, WiresOK
    <2> QED BY <2>1, <2>2
  <1>3. UNCHANGED <<procVars, toMaster, reader, peers, connToMid, wired, session, tasks>>
    BY DEF WriterStep, SkipBroadcast, WriteFrame, WriteFails
  <1>4. /\ toDrop' \subseteq toDrop /\ cancelled' \subseteq cancelled \cup {a} /\ writer' \subseteq writer
        /\ broken' \in {broken, TRUE} /\ faults' \in 0 .. MaxFaults
    <2>1. faults \in 0 .. MaxFaults
      BY <1>0 DEF Shape, ProcsOK
    <2>2. CASE SkipBroadcast(a)
      BY <2>1, <2>2 DEF SkipBroadcast
    <2>3. CASE WriteFrame(a)
      BY <2>1, <2>3 DEF WriteFrame
    <2>4. CASE WriteFails(a)
      BY <2>1, <2>4 DEF WriteFails, Fault
    <2> QED BY <2>2, <2>3, <2>4 DEF WriterStep
  <1>5. toMinion' \in [Addrs -> Seq(ToMinion)]
    <2> DEFINE q == Queue(toMinion[a], NextFrame(a))
    <2>1. q \in Seq(ToMinion) /\ Closed \in ToMinion
      BY <1>1, <1>2, QueueTyped DEF ToMinion
    <2> HIDE DEF q
    <2>2. Append(q, Closed) \in Seq(ToMinion)
      BY <2>1
    <2>3. \/ toMinion' = toMinion
          \/ toMinion' = [toMinion EXCEPT ![a] = q] \/ toMinion' = [toMinion EXCEPT ![a] = Append(q, Closed)]
          \/ toMinion' = [toMinion EXCEPT ![a] = toMinion[a]]
      BY DEF WriterStep, SkipBroadcast, WriteFrame, WriteFails, q
    <2> QED BY <1>0, <1>1, <2>1, <2>2, <2>3 DEF Shape, WiresOK
  <1>6. ProcsOK' /\ WiresOK' /\ TasksOK' /\ TablesOK' /\ Owned'
    BY <1>0, <1>2, <1>3, <1>4, <1>5 DEF Shape, ProcsOK, WiresOK, TasksOK, TablesOK, Owned
  <1>7. HelloFirst' /\ OneChannel' /\ ChannelIsWired'
    BY <1>0, <1>3 DEF HelloFirst, Unused, OneChannel, ChannelIsWired
  <1> QED BY <1>6, <1>7 DEF Inv, Shape

-----------------------------------------------------------------------------
(* The request handlers.                                                   *)

LEMMA TaskNext == ASSUME Inv, NEW t \in tasks, Handle(t) PROVE Inv'
  <1> DEFINE a == t.addr
  <1> USE DEF procVars, wireVars, taskVars, tableVars
  <1>0. /\ Shape /\ HelloFirst /\ OneChannel /\ ChannelIsWired
        /\ a \in Addrs /\ owner[a] \in Procs /\ Mid(a) \in Minions /\ session \in Sessions
        /\ \A b \in Addrs : Unused(b) => b # a
    BY MidTyped DEF Inv, Shape, Owned, TasksOK, TablesOK, Unused
  <1>1. tasks' = tasks \ {t} /\ UNCHANGED <<procVars, wireVars, reader, writer, direct, faults, broken>>
    BY DEF Handle
  <1> HIDE DEF a
  \* A handler unplugs connections that something refers to and maps its own.
  <1>u. ASSUME NEW as \in SUBSET Addrs, \A b \in as : ~Unused(b),
               wired' = wired \ as, cancelled' \subseteq Addrs,
               peers' = [b \in Addrs |-> IF b \in as THEN None ELSE peers[b]],
               connToMid' \in [Addrs -> Minions \cup {None}],
               \A b \in Addrs \ {a} : connToMid'[b] \in {connToMid[b], None},
               session' \in Sessions, bcast' \in [Addrs -> Seq(Notices)], toDrop' \subseteq Addrs
        PROVE  Inv'
    <2>1. ProcsOK' /\ WiresOK' /\ TasksOK' /\ TablesOK' /\ Owned'
      BY <1>0, <1>1, <1>u DEF Shape, ProcsOK, WiresOK, TasksOK, TablesOK, Owned
    <2>2. \A b \in Addrs : Unused(b) => Unused(b)'
      BY <1>0, <1>1, <1>u DEF Unused, Shape, TablesOK
    <2>3. HelloFirst'
      BY <1>0, <1>1, <2>2 DEF HelloFirst
    <2>4. OneChannel' /\ ChannelIsWired'
      BY <1>0, <1>u DEF OneChannel, ChannelIsWired
    <2> QED BY <2>1, <2>3, <2>4 DEF Inv, Shape
  <1>k. ASSUME UNCHANGED <<peers, wired, connToMid, cancelled>>, session' \in Sessions,
               bcast' \in [Addrs -> Seq(Notices)], toDrop' \subseteq Addrs
        PROVE  Inv'
    <2>1. /\ peers' = [b \in Addrs |-> IF b \in {} THEN None ELSE peers[b]] /\ wired' = wired \ {}
          /\ cancelled' \subseteq Addrs /\ connToMid' \in [Addrs -> Minions \cup {None}]
      BY <1>0, <1>k DEF Shape, TablesOK, TasksOK
    <2>2. \A b \in Addrs \ {a} : connToMid'[b] \in {connToMid[b], None}
      BY <1>k
    <2>3. {} \in SUBSET Addrs /\ \A b \in {} : ~Unused(b)
      OBVIOUS
    <2> HIDE DEF Inv
    <2> QED BY <1>u, <1>k, <2>1, <2>2, <2>3
  <1>t. /\ connToMid \in [Addrs -> Minions \cup {None}] /\ toDrop \subseteq Addrs /\ wired \subseteq Addrs
        /\ cancelled \subseteq Addrs /\ bcast \in [Addrs -> Seq(Notices)] /\ WiresOK
        /\ \A m \in Minions : session[m].sid \in Procs \cup {None}
    BY <1>0 DEF Shape, WiresOK, TablesOK, TasksOK, Sessions
  \* Ehlo: the session is entered, and at most one stale address is left.
  <1>e. ASSUME NEW s \in Sessions, NEW as \in SUBSET Addrs, \A b \in as : ~Unused(b), EnterSession(a, s, as)
        PROVE  Inv'
    <2>1. session' \in Sessions
      BY <1>0, <1>e, SessionsTyped DEF EnterSession
    <2>2. bcast' \in [Addrs -> Seq(Notices)]
      BY <1>0, <1>e, <1>t, BroadcastTyped DEF EnterSession
    <2>3. /\ connToMid' \in [Addrs -> Minions \cup {None}]
          /\ \A b \in Addrs \ {a} : connToMid'[b] \in {connToMid[b], None}
      BY <1>0, <1>e, <1>t DEF EnterSession
    <2> QED BY <1>e, <1>t, <1>u, <2>1, <2>2, <2>3 DEF EnterSession, Unplug
  <1>2. CASE HandleEhlo(a)
    <2>1. GC(session) \in Sessions /\ RemoveSession(GC(session), Mid(a)) \in Sessions
      BY <1>0, SessionsTyped
    <2>2. ASSUME NEW as \in Dropped(a)
          PROVE  as \in SUBSET Addrs /\ \A b \in as : ~Unused(b)
      <3>1. StaleAddrs(a) \subseteq Addrs /\ \A b \in StaleAddrs(a) : ~Unused(b)
        BY <1>0 DEF StaleAddrs, Unused
      <3>2. as = {} \/ \E b \in StaleAddrs(a) : as = {b}
        BY <2>2 DEF Dropped
      <3> QED BY <3>1, <3>2
    <2>3. CASE \E as \in Dropped(a) : EnterSession(a, RemoveSession(GC(session), Mid(a)), as)
      BY <1>e, <2>1, <2>2, <2>3
    <2>4. CASE EnterSession(a, GC(session), {})
      BY <1>e, <2>1, <2>4
    <2>5. CASE /\ session' = GC(session) /\ toDrop' = toDrop \cup {a} /\ Broadcast("already", Mid(a), {})
               /\ UNCHANGED <<peers, connToMid, wired, cancelled>>
      <3>1. bcast' \in [Addrs -> Seq(Notices)]
        BY <1>0, <1>t, <2>5, BroadcastTyped
      <3> QED BY <1>0, <1>k, <1>t, <2>1, <2>5, <3>1
    <2> QED BY <1>2, <2>3, <2>4, <2>5 DEF HandleEhlo
  <1>3. CASE HandlePong(a)
    <2>1. session' \in Sessions
      BY <1>0, <1>3, SessionsTyped DEF HandlePong
    <2> QED BY <1>3, <1>k, <1>t, <2>1 DEF HandlePong
  <1>g. ASSUME Unplug({a}), connToMid' = [connToMid EXCEPT ![a] = None], session' \in Sessions,
               toDrop' = toDrop, bcast' \in [Addrs -> Seq(Notices)]
        PROVE  Inv'
    <2>1. /\ cancelled' \subseteq Addrs /\ wired' = wired \ {a}
          /\ peers' = [b \in Addrs |-> IF b \in {a} THEN None ELSE peers[b]]
      BY <1>g, <1>t DEF Unplug
    <2>2. /\ connToMid' \in [Addrs -> Minions \cup {None}]
          /\ \A b \in Addrs \ {a} : connToMid'[b] \in {connToMid[b], None}
      BY <1>g, <1>t
    <2>3. {a} \in SUBSET Addrs /\ \A b \in {a} : ~Unused(b)
      BY <1>0
    <2> QED BY <1>g, <1>t, <1>u, <2>1, <2>2, <2>3
  <1>4. CASE HandleBye(a)
    <2>1. session' \in Sessions /\ bcast' \in [Addrs -> Seq(Notices)]
      BY <1>0, <1>4, <1>t, SessionsTyped, BroadcastTyped DEF HandleBye
    <2> QED BY <1>4, <1>g, <2>1 DEF HandleBye
  <1>5. CASE HandleGone(a)
    <2>1. session' \in Sessions
      BY <1>0, <1>5, <1>t, SessionsTyped DEF HandleGone
    <2> QED BY <1>5, <1>g, <1>t, <2>1 DEF HandleGone
  <1> QED BY <1>2, <1>3, <1>4, <1>5 DEF Handle, a

LEMMA InvNext == Inv /\ [Next]_vars => Inv'
  <1> SUFFICES ASSUME Inv, [Next]_vars PROVE Inv'
    OBVIOUS
  <1> USE DEF procVars, wireVars, taskVars, tableVars
  <1>1. ASSUME NEW a \in Addrs, TaskStep(a) PROVE Inv'
    BY <1>1, TaskNext DEF TaskStep, Handle
  <1>2. ASSUME NEW m \in Minions, AgeSession(m) PROVE Inv'
    <2>1. session' \in Sessions
      BY <1>2 DEF AgeSession, Inv, Shape, TablesOK, Sessions
    <2>2. ProcsOK' /\ WiresOK' /\ TasksOK' /\ TablesOK' /\ Owned'
      BY <1>2, <2>1 DEF AgeSession, Inv, Shape, ProcsOK, WiresOK, TasksOK, TablesOK, Owned
    <2> QED BY <1>2, <2>2 DEF AgeSession, Inv, Shape, HelloFirst, Unused, OneChannel, ChannelIsWired
  <1>3. CASE UNCHANGED vars
    <2>1. ProcsOK' /\ WiresOK' /\ TasksOK' /\ TablesOK' /\ Owned'
      BY <1>3 DEF vars, Inv, Shape, ProcsOK, WiresOK, TasksOK, TablesOK, Owned
    <2> QED BY <1>3, <2>1 DEF vars, Inv, Shape, HelloFirst, Unused, OneChannel, ChannelIsWired
  <1> QED BY <1>1, <1>2, <1>3, ProcNext, ReaderNext, WriterNext DEF Next, ProcStep, ProcAction

LEMMA InvInit == Init => Inv
  <1> SUFFICES ASSUME Init PROVE Inv
    OBVIOUS
  <1>1. ProcsOK /\ WiresOK /\ TasksOK /\ TablesOK /\ Owned
    <2>1. ProcsOK /\ WiresOK
      BY DEF Init, ProcsOK, WiresOK
    <2>2. TasksOK /\ Owned
      BY DEF Init, TasksOK, Owned
    <2>3. session \in Sessions
      BY DEF Init, Sessions, NoSession
    <2> QED BY <2>1, <2>2, <2>3 DEF Init, TablesOK
  <1>2. HelloFirst /\ OneChannel /\ ChannelIsWired
    BY DEF Init, HelloFirst, OneChannel, ChannelIsWired
  <1> QED BY <1>1, <1>2 DEF Inv, Shape

LEMMA InvHolds == Spec => []Inv
  BY InvInit, InvNext, PTL DEF Spec

\* The master's tables and tasks and the minions' processes keep their types.
THEOREM SessionsAreTyped == Spec => []TypeOK
  <1>1. Inv => TypeOK
    <2>1. ASSUME NEW S, NEW q \in Seq(S) PROVE Range(q) \subseteq S
      BY <2>1 DEF Range
    <2> QED BY <2>1 DEF Inv, Shape, ProcsOK, WiresOK, TasksOK, TablesOK, Sessions, ToMaster, ToMinion, TypeOK
  <1> QED BY InvHolds, <1>1, PTL

\* accept_bootstrap, the replacement of connections without an ehlo and all clean-ups leave a
\* minion one secure channel at most.
THEOREM ChannelIsUnique == Spec => []OneChannel
  <1>1. Inv => OneChannel
    BY DEF Inv
  <1> QED BY InvHolds, <1>1, PTL

\* A secure channel has its direct sender and its cancel watch in every reachable state: a
\* hello that is still to be read keeps those of its connection from every clean-up.
THEOREM ChannelStaysWired == Spec => []ChannelIsWired
  <1>1. Inv => ChannelIsWired
    BY DEF Inv
  <1> QED BY InvHolds, <1>1, PTL
-----------------------------------------------------------------------------
(* Who can take a served connection.                                       *)

(* A process that is connected owns its address, which is open.            *)
Linked == \A p \in Procs :
    proc[p].addr # None => proc[p].addr \in open /\ owner[proc[p].addr] = p

LEMMA LinkedNext == Inv /\ Linked /\ [Next]_vars => Linked'
  <1> SUFFICES ASSUME Inv, Linked, [Next]_vars PROVE Linked'
    OBVIOUS
  <1> USE DEF procVars, wireVars, taskVars, tableVars
  <1>0. ProcsOK
    BY DEF Inv, Shape
  <1>k. ASSUME UNCHANGED procVars PROVE Linked'
    BY <1>k DEF Linked
  <1>1. ASSUME NEW p \in Procs, ProcAction(p) PROVE Linked'
    <2>c. ASSUME NEW st, Close(p, st), owner' = owner PROVE Linked'
      <3>1. proc'[p].addr = None /\ \A q \in Procs \ {p} : proc'[q] = proc[q]
        BY <1>0, <2>c DEF Close, ProcsOK
      <3>2. ASSUME NEW q \in Procs \ {p}, proc[q].addr # None
            PROVE  proc[q].addr \in open' /\ owner'[proc[q].addr] = q
        BY <2>c, <3>2 DEF Close, Linked
      <3> QED BY <3>1, <3>2 DEF Linked
    <2>1. CASE Connect(p)
      <3>1. PICK a \in Addrs : /\ a \notin open
                               /\ proc' = [proc EXCEPT ![p] = [st |-> "hello", addr |-> a]]
                               /\ owner' = [owner EXCEPT ![a] = p] /\ open' = open \cup {a}
        BY <2>1 DEF Connect, Free
      <3> QED BY <1>0, <3>1 DEF ProcsOK, Linked
    <2>2. CASE Receive(p)
      <3> DEFINE a == proc[p].addr
      <3>1. CASE Close(p, "off")
        BY <2>2, <2>c, <3>1 DEF Receive
      <3>2. CASE open' = open /\ \E st \in {"off", "hello", "ehlo", "up", "dead"} : proc' = [proc EXCEPT ![p].st = st]
        BY <1>0, <2>2, <3>2 DEF Receive, ProcsOK, Linked
      <3>3. [proc EXCEPT ![p].st = @] = [proc EXCEPT ![p].st = proc[p].st]
        OBVIOUS
      <3> QED BY <1>0, <2>2, <3>1, <3>2, <3>3 DEF Receive, ProcsOK
    <2>3. CASE PingTimeout(p)
      BY <2>3, <2>c DEF PingTimeout
    <2>4. CASE Pong(p) \/ SendBye(p)
      BY <2>4, <1>k DEF Pong, SendBye
    <2>5. CASE LoseConnection(p)
      BY <2>5, <2>c DEF LoseConnection
    <2>6. CASE Die(p)
      BY <2>6, <2>c DEF Die
    <2> QED BY <1>1, <2>1, <2>2, <2>3, <2>4, <2>5, <2>6 DEF ProcAction
  <1>2. CASE \E a \in Addrs : ReaderStep(a) \/ WriterStep(a) \/ TaskStep(a) \/ WriteFails(a)
    BY <1>2, <1>k DEF ReaderStep, DecodeHello, DecodeRequest, QueueReply, ReaderEnds, ReaderCancelled,
                      WriterStep, SkipBroadcast, WriteFrame, WriteFails, TaskStep, Handle
  <1>3. CASE \E m \in Minions : AgeSession(m)
    BY <1>3, <1>k DEF AgeSession
  <1>4. CASE UNCHANGED vars
    BY <1>4, <1>k DEF vars
  <1> QED BY <1>1, <1>2, <1>3, <1>4 DEF Next, ProcStep, ProcAction

\* What a request handler does to the channel of a served process.
LEMMA TaskTakes ==
    ASSUME Inv, Linked, NEW p \in Procs, Served(p), NEW t \in tasks, Handle(t),
           peers'[proc[p].addr] = None
    PROVE  \/ owner[t.addr] = p
           \/ t.kind = "ehlo" /\ GC(session)[MinionOf[p]].sid = owner[t.addr]
  <1> DEFINE b == proc[p].addr
             m == MinionOf[p]
             a == t.addr
  <1>1. b \in Addrs /\ owner[b] = p /\ m \in Minions /\ peers[b] = m /\ connToMid[b] = m /\ a \in Addrs
    BY DEF Inv, Shape, ProcsOK, TasksOK, Linked, Served
  <1>2. m # None /\ peers'[b] = None
    BY <1>1
  <1> HIDE DEF b, m
  <1>3. ASSUME NEW as, Unplug(as) PROVE b \in as
    BY <1>1, <1>2, <1>3 DEF Unplug
  <1>4. CASE t.kind = "ehlo" /\ HandleEhlo(a)
    <2> DEFINE s == GC(session)
               sid == s[Mid(a)].sid
    <2>1. CASE sid = owner[a] /\ \E as \in Dropped(a) : Unplug(as)
      <3>1. b \in StaleAddrs(a)
        BY <1>3, <2>1 DEF Dropped
      <3>2. Mid(a) = m
        BY <1>1, <3>1 DEF StaleAddrs
      <3> QED BY <1>4, <2>1, <3>2 DEF m
    <2>2. CASE UNCHANGED peers
      BY <1>1, <1>2, <2>2
    <2>3. CASE Unplug({})
      BY <1>3, <2>3
    <2> QED BY <1>4, <2>1, <2>2, <2>3 DEF HandleEhlo, EnterSession
  <1>5. CASE t.kind = "pong" /\ HandlePong(a)
    BY <1>1, <1>2, <1>5 DEF HandlePong
  <1>6. CASE (t.kind = "bye" /\ HandleBye(a)) \/ (t.kind = "gone" /\ HandleGone(a))
    <2>1. b = a
      BY <1>3, <1>6 DEF HandleBye, HandleGone
    <2> QED BY <1>1, <2>1
  <1> QED BY <1>4, <1>5, <1>6 DEF Handle

LEMMA TakenByTask ==
    ASSUME Inv, Linked, [Next]_vars, NEW p \in Procs, Served(p), peers'[proc[p].addr] = None
    PROVE  \E t \in tasks \ tasks' :
               \/ owner[t.addr] = p
               \/ t.kind = "ehlo" /\ GC(session)[MinionOf[p]].sid = owner[t.addr]
  <1> USE DEF procVars, wireVars, taskVars, tableVars
  <1> DEFINE b == proc[p].addr
  <1>1. b \in Addrs /\ peers[b] = MinionOf[p] /\ connToMid[b] = MinionOf[p] /\ MinionOf[p] # None
    BY DEF Inv, Shape, ProcsOK, Served
  <1>2. peers' # peers
    BY <1>1
  <1>3. ASSUME NEW a \in Addrs, DecodeHello(a) PROVE FALSE
    <2>1. b \notin Replaced(a)
      BY <1>1 DEF Replaced
    <2>2. Mid(a) # None
      <3>1. owner[a] \in Procs
        BY <1>3 DEF DecodeHello, Inv, Shape, Owned
      <3> QED BY <3>1, MidTyped
    <2> QED BY <1>1, <1>3, <2>1, <2>2 DEF DecodeHello
  <1>4. ASSUME NEW q \in Procs, ProcAction(q) PROVE FALSE
    BY <1>2, <1>4 DEF ProcAction, Connect, Receive, Pong, SendBye, PingTimeout, LoseConnection, Die
  <1>5. ASSUME NEW a \in Addrs,
               DecodeRequest(a) \/ QueueReply(a) \/ ReaderEnds(a) \/ ReaderCancelled(a)
               \/ WriterStep(a) \/ WriteFails(a)
        PROVE  FALSE
    BY <1>2, <1>5 DEF DecodeRequest, QueueReply, ReaderEnds, ReaderCancelled,
                      WriterStep, SkipBroadcast, WriteFrame, WriteFails
  <1>6. ASSUME NEW m \in Minions, AgeSession(m) PROVE FALSE
    BY <1>2, <1>6 DEF AgeSession
  <1>7. PICK t \in tasks : Handle(t)
    <2>1. \E a \in Addrs : TaskStep(a)
      BY <1>2, <1>3, <1>4, <1>5, <1>6 DEF Next, ProcStep, ProcAction, ReaderStep, vars
    <2> QED BY <2>1 DEF TaskStep, Handle
  <1>8. t \in tasks \ tasks'
    BY <1>7 DEF Handle
  <1> QED BY <1>7, <1>8, TaskTakes

(* A served process loses its channel only to a request or the end of a    *)
(* connection of its own, or to an ehlo of the process that holds the      *)
(* session of its minion, for any number of processes, connections and     *)
(* faults.                                                                 *)
THEOREM ServedIsKept == Spec => NoTakeover
  <1>1. Init => Linked
    BY DEF Init, Linked
  <1>2. Inv /\ Linked /\ [Next]_vars
        => [\A p \in Procs : Served(p) /\ peers'[proc[p].addr] = None
              => \E t \in tasks \ tasks' :
                    \/ owner[t.addr] = p
                    \/ t.kind = "ehlo" /\ GC(session)[MinionOf[p]].sid = owner[t.addr]]_vars
    BY TakenByTask
  <1> QED BY <1>1, <1>2, InvHolds, LinkedNext, PTL DEF Spec, NoTakeover
-----------------------------------------------------------------------------
(* Which readers may return without a report.  A connection has one ehlo:  *)
(* its process has still to send it, or it waits to be read, or for its    *)
(* task, and after that the connection is mapped or to be dropped.         *)

EhloTask(a) == [kind |-> "ehlo", addr |-> a]
GoneTask(a) == [kind |-> "gone", addr |-> a]

Holds(a, f) == \E i \in 1 .. Len(toMaster[a]) : toMaster[a][i] = f
Greeting(a) == \E p \in Procs : proc[p].addr = a /\ proc[p].st = "hello"
Waiting(a) == EhloTask(a) \in tasks
Spent(a) == ~Greeting(a) /\ ~Holds(a, "ehlo") /\ ~Waiting(a)
Single(a) == \A i, j \in 1 .. Len(toMaster[a]) :
                 toMaster[a][i] = "ehlo" /\ toMaster[a][j] = "ehlo" => i = j

Once(a) ==
    /\ Single(a)
    /\ ~(Greeting(a) /\ (Holds(a, "ehlo") \/ Waiting(a))) /\ ~(Holds(a, "ehlo") /\ Waiting(a))
    /\ connToMid[a] # None => a \notin toDrop
    /\ connToMid[a] # None \/ a \in toDrop => Spent(a)

(* A cancelled connection that keeps its channel is one to_drop named, so  *)
(* that it is not mapped, and never will be.                               *)
Reported(a) ==
    /\ Holds(a, "hello") => a \notin toDrop /\ (broken \/ a \notin cancelled)
    /\ a \in cancelled => broken \/ peers[a] = None \/ (connToMid[a] = None /\ Spent(a))
    /\ peers[a] # None => reader[a] # "done" \/ GoneTask(a) \in tasks \/ a \in cancelled

Tracked == \A a \in Addrs : Once(a) /\ Reported(a)

LEMMA AppendHolds ==
    ASSUME NEW S, NEW q \in Seq(S), NEW f \in S, NEW i \in 1 .. Len(Append(q, f))
    PROVE  \/ i \in 1 .. Len(q) /\ Append(q, f)[i] = q[i]
           \/ i = Len(q) + 1 /\ Append(q, f)[i] = f
  OBVIOUS

LEMMA HeadHolds ==
    ASSUME NEW S, NEW q \in Seq(S), q # <<>> PROVE Head(q) = q[1] /\ 1 \in 1 .. Len(q)
  OBVIOUS

LEMMA TailHolds ==
    ASSUME NEW S, NEW q \in Seq(S), q # <<>>, NEW i \in 1 .. Len(Tail(q))
    PROVE  i + 1 \in 1 .. Len(q) /\ i + 1 # 1 /\ Tail(q)[i] = q[i + 1]
  OBVIOUS

(* What a request does to what a connection holds when it is sent, and     *)
(* when it is read.                                                        *)
LEMMA SendMoves ==
    ASSUME toMaster \in [Addrs -> Seq(ToMaster)], NEW a \in Addrs, NEW f \in Requests, Single(a),
           toMaster' = [toMaster EXCEPT ![a] = Append(@, f)]
    PROVE  /\ \A b \in Addrs \ {a} : toMaster'[b] = toMaster[b]
           /\ Holds(a, "hello")' => Holds(a, "hello")
           /\ Holds(a, "ehlo")' => f = "ehlo" \/ Holds(a, "ehlo")
           /\ Single(a)' \/ (f = "ehlo" /\ Holds(a, "ehlo"))
  <1> DEFINE q == toMaster[a]
  <1>1. q \in Seq(ToMaster) /\ f \in ToMaster /\ f # "hello" /\ toMaster'[a] = Append(q, f)
    BY DEF Requests, ToMaster
  <1>2. \A i \in 1 .. Len(toMaster'[a]) : \/ i \in 1 .. Len(q) /\ toMaster'[a][i] = q[i]
                                          \/ i = Len(q) + 1 /\ toMaster'[a][i] = f
    BY <1>1, AppendHolds
  <1> HIDE DEF q
  <1>3. \A i \in 1 .. Len(toMaster'[a]) : toMaster'[a][i] = "hello" => i \in 1 .. Len(q) /\ q[i] = "hello"
    BY <1>1, <1>2
  <1>4. \A i \in 1 .. Len(toMaster'[a]) : toMaster'[a][i] = "ehlo" =>
          (i \in 1 .. Len(q) /\ q[i] = "ehlo") \/ (i = Len(q) + 1 /\ f = "ehlo")
    BY <1>2
  <1> QED BY <1>3, <1>4 DEF Holds, Single, q

LEMMA ReadMoves ==
    ASSUME toMaster \in [Addrs -> Seq(ToMaster)], HelloFirst, NEW a \in Addrs, Single(a),
           toMaster[a] # <<>>, toMaster' = [toMaster EXCEPT ![a] = Tail(@)]
    PROVE  /\ \A b \in Addrs \ {a} : toMaster'[b] = toMaster[b]
           /\ Single(a)' /\ ~Holds(a, "hello")' /\ Holds(a, Head(toMaster[a]))
           /\ Holds(a, "ehlo")' => Holds(a, "ehlo") /\ Head(toMaster[a]) # "ehlo"
  <1> DEFINE q == toMaster[a]
  <1>1. q \in Seq(ToMaster) /\ q # <<>> /\ toMaster'[a] = Tail(q)
    OBVIOUS
  <1>2. \A i \in 1 .. Len(q) : q[i] = "hello" => i = 1
    BY DEF HelloFirst
  <1>3. \A i, j \in 1 .. Len(q) : q[i] = "ehlo" /\ q[j] = "ehlo" => i = j
    BY DEF Single
  <1> HIDE DEF q
  <1>4. Head(q) = q[1] /\ 1 \in 1 .. Len(q)
    BY <1>1, HeadHolds
  <1>5. \A i \in 1 .. Len(toMaster'[a]) : /\ i + 1 \in 1 .. Len(q) /\ i + 1 # 1
                                          /\ toMaster'[a][i] = q[i + 1]
    <2>1. \A i \in 1 .. Len(Tail(q)) : i + 1 \in 1 .. Len(q) /\ i + 1 # 1 /\ Tail(q)[i] = q[i + 1]
      BY <1>1, TailHolds
    <2> QED BY <1>1, <2>1
  <1>6. \A i \in 1 .. Len(toMaster'[a]) : toMaster'[a][i] # "hello" /\ (toMaster'[a][i] = "ehlo" => q[1] # "ehlo")
    BY <1>2, <1>3, <1>4, <1>5
  <1>7. \A i, j \in 1 .. Len(toMaster'[a]) : toMaster'[a][i] = "ehlo" /\ toMaster'[a][j] = "ehlo" => i = j
    <2> SUFFICES ASSUME NEW i \in 1 .. Len(toMaster'[a]), NEW j \in 1 .. Len(toMaster'[a]),
                        toMaster'[a][i] = "ehlo", toMaster'[a][j] = "ehlo"
                 PROVE  i = j
      OBVIOUS
    <2>1. i + 1 = j + 1
      BY <1>3, <1>5
    <2>2. Len(toMaster'[a]) \in Nat
      BY <1>1
    <2>3. i \in Int /\ j \in Int
      BY <2>2
    <2> QED BY <2>1, <2>3
  <1>8. Holds(a, "ehlo")' => Holds(a, "ehlo")
    BY <1>5 DEF Holds, q
  <1>9. Holds(a, Head(toMaster[a]))
    BY <1>4 DEF Holds, q
  <1> QED BY <1>4, <1>6, <1>7, <1>8, <1>9 DEF Holds, Single, q

\* What a step must leave of one connection.
LEMMA OnceStays ==
    ASSUME NEW b \in Addrs, Once(b), Single(b)',
           Greeting(b)' => Greeting(b), Holds(b, "ehlo")' => Holds(b, "ehlo"), Waiting(b)' => Waiting(b),
           connToMid'[b] \in {connToMid[b], None}, b \in toDrop' => b \in toDrop
    PROVE  Once(b)' /\ (Spent(b) => Spent(b)')
  BY DEF Once, Spent

LEMMA TrackStays ==
    ASSUME NEW b \in Addrs, Once(b), Reported(b), Single(b)',
           Greeting(b)' => Greeting(b), Holds(b, "ehlo")' => Holds(b, "ehlo"), Waiting(b)' => Waiting(b),
           Holds(b, "hello")' => Holds(b, "hello"), broken => broken',
           connToMid'[b] \in {connToMid[b], None}, b \in toDrop' => b \in toDrop,
           b \in cancelled' => \/ b \in cancelled \/ broken'
                               \/ ~Holds(b, "hello")' /\ (peers'[b] = None \/ b \in toDrop),
           peers'[b] \in {peers[b], None},
           reader[b] # "done" => reader'[b] # "done" \/ GoneTask(b) \in tasks' \/ b \in cancelled',
           GoneTask(b) \in tasks => GoneTask(b) \in tasks' \/ peers'[b] = None,
           b \in cancelled => b \in cancelled'
    PROVE  Once(b)' /\ Reported(b)'
  <1>1. (Spent(b) => Spent(b)') /\ Once(b)'
    BY OnceStays
  <1>2. connToMid[b] = None => connToMid'[b] = None
    OBVIOUS
  <1>3. b \in toDrop => connToMid[b] = None /\ Spent(b)
    BY DEF Once
  <1>4. b \in cancelled' => broken' \/ peers'[b] = None \/ (connToMid'[b] = None /\ Spent(b)')
    BY <1>1, <1>2, <1>3 DEF Reported
  <1>5. Holds(b, "hello")' => b \notin toDrop' /\ (broken' \/ b \notin cancelled')
    BY DEF Reported
  <1>6. peers'[b] # None => reader'[b] # "done" \/ GoneTask(b) \in tasks' \/ b \in cancelled'
    BY DEF Reported
  <1> QED BY <1>1, <1>4, <1>5, <1>6 DEF Reported

LEMMA ProcTracks ==
    ASSUME Inv, Linked, Tracked, NEW p \in Procs, ProcAction(p) PROVE Tracked'
  <1> USE DEF procVars, wireVars, taskVars, tableVars
  <1>0. ProcsOK /\ WiresOK /\ toMaster \in [Addrs -> Seq(ToMaster)]
    BY DEF Inv, Shape, WiresOK
  <1>k. ASSUME NEW b \in Addrs, Single(b)', Greeting(b)' => Greeting(b), Holds(b, "ehlo")' => Holds(b, "ehlo"),
               Holds(b, "hello")' => Holds(b, "hello"), UNCHANGED <<taskVars, tableVars, tasks, broken>>
        PROVE  Once(b)' /\ Reported(b)'
    BY <1>k, TrackStays DEF Tracked, Waiting
  <1>s. ASSUME NEW b \in Addrs, toMaster'[b] = toMaster[b]
        PROVE  /\ Single(b)' /\ (Holds(b, "ehlo")' => Holds(b, "ehlo"))
               /\ (Holds(b, "hello")' => Holds(b, "hello"))
    BY <1>s DEF Tracked, Once, Single, Holds
  <1>c. ASSUME NEW st \in {"off", "dead"}, Close(p, st), UNCHANGED <<toMaster, taskVars, tableVars, tasks, broken>>
        PROVE  Tracked'
    <2> SUFFICES ASSUME NEW b \in Addrs PROVE Once(b)' /\ Reported(b)'
      BY DEF Tracked
    <2>1. Greeting(b)' => Greeting(b)
      BY <1>0, <1>c DEF Greeting, Close, ProcsOK
    <2> QED BY <1>c, <1>k, <1>s, <2>1
  <1>1. CASE Connect(p)
    <2>1. PICK a \in Addrs :
            /\ Free(a)
            /\ proc' = [proc EXCEPT ![p] = [st |-> "hello", addr |-> a]]
            /\ toMaster' = [toMaster EXCEPT ![a] = <<"hello">>]
            /\ reader' = [reader EXCEPT ![a] = "read"]
            /\ cancelled' = cancelled \ {a} /\ toDrop' = toDrop \ {a}
      BY <1>1 DEF Connect
    <2>2. UNCHANGED <<peers, connToMid, tasks, broken>>
      BY <1>1 DEF Connect
    <2>3. Once(a)' /\ Reported(a)'
      <3>1. toMaster'[a] = <<"hello">> /\ Len(<<"hello">>) = 1 /\ a \notin toDrop' /\ a \notin cancelled'
        BY <1>0, <2>1
      <3>2. peers'[a] = None /\ connToMid'[a] = None /\ ~Waiting(a)'
        BY <2>1, <2>2 DEF Free, Waiting, EhloTask
      <3>3. Single(a)' /\ ~Holds(a, "ehlo")'
        BY <3>1 DEF Single, Holds
      <3> QED BY <3>1, <3>2, <3>3 DEF Once, Reported
    <2>4. ASSUME NEW b \in Addrs \ {a} PROVE Once(b)' /\ Reported(b)'
      <3>1. /\ toMaster'[b] = toMaster[b] /\ reader'[b] = reader[b]
            /\ b \in toDrop' <=> b \in toDrop
            /\ b \in cancelled' <=> b \in cancelled
        BY <1>0, <2>1, <2>4 DEF Inv, Shape, TasksOK
      <3>2. Greeting(b)' => Greeting(b)
        BY <1>0, <2>1, <2>4 DEF Greeting, ProcsOK
      <3>3. Waiting(b)' => Waiting(b)
        BY <2>2 DEF Waiting
      <3> QED BY <1>s, <2>2, <3>1, <3>2, <3>3, TrackStays DEF Tracked
    <2> QED BY <2>3, <2>4 DEF Tracked
  <1>2. CASE Receive(p)
    <2>1. PICK a \in Addrs : a = proc[p].addr
      BY <1>0, <1>2 DEF Receive, ProcsOK
    <2>2. UNCHANGED <<taskVars, tableVars, tasks, broken>>
      BY <1>2 DEF Receive
    <2>3. CASE Close(p, "off") /\ toMaster' = toMaster
      BY <1>c, <2>2, <2>3
    <2>4. CASE /\ proc[p].st = "hello" /\ proc' = [proc EXCEPT ![p].st = "ehlo"]
               /\ toMaster' = [toMaster EXCEPT ![a] = Append(@, "ehlo")]
      <3>0. Once(a) /\ Reported(a) /\ Greeting(a)
        BY <2>1, <2>4 DEF Tracked, Greeting
      <3>1. /\ \A b \in Addrs \ {a} : toMaster'[b] = toMaster[b]
            /\ Single(a)' /\ (Holds(a, "hello")' => Holds(a, "hello"))
        BY <1>0, <2>1, <2>4, <3>0, SendMoves DEF Requests, Once
      <3>2. ~Greeting(a)' /\ \A b \in Addrs : Greeting(b)' => Greeting(b)
        BY <1>0, <2>1, <2>4 DEF Greeting, ProcsOK, Linked
      <3>3. Once(a)' /\ Reported(a)'
        <4>1. ~Holds(a, "ehlo") /\ ~Waiting(a) /\ ~Waiting(a)'
          BY <2>2, <3>0 DEF Once, Waiting
        <4>2. connToMid'[a] = None /\ a \notin toDrop'
          BY <2>2, <3>0 DEF Once, Spent
        <4>3. Once(a)'
          BY <3>1, <3>2, <4>1, <4>2 DEF Once
        <4>4. Reported(a)'
          BY <2>2, <3>0, <3>1 DEF Reported, Spent
        <4> QED BY <4>3, <4>4
      <3>4. ASSUME NEW b \in Addrs \ {a} PROVE Once(b)' /\ Reported(b)'
        BY <1>k, <1>s, <2>2, <3>1, <3>2
      <3> QED BY <3>3, <3>4 DEF Tracked
    <2>5. CASE toMaster' = toMaster /\ \E st \in {"up", proc[p].st} : proc' = [proc EXCEPT ![p].st = st]
      <3> SUFFICES ASSUME NEW b \in Addrs PROVE Once(b)' /\ Reported(b)'
        BY DEF Tracked
      <3>1. Greeting(b)' => Greeting(b)
        BY <1>0, <2>5 DEF Greeting, ProcsOK
      <3> QED BY <1>k, <1>s, <2>2, <2>5, <3>1
    <2>6. \/ Close(p, "off") /\ toMaster' = toMaster
          \/ /\ proc[p].st = "hello" /\ proc' = [proc EXCEPT ![p].st = "ehlo"]
             /\ toMaster' = [toMaster EXCEPT ![a] = Append(@, "ehlo")]
          \/ toMaster' = toMaster /\ (proc' = [proc EXCEPT ![p].st = "up"]
                                      \/ proc' = [proc EXCEPT ![p].st = proc[p].st])
      <3>1. [proc EXCEPT ![p].st = @] = [proc EXCEPT ![p].st = proc[p].st]
        OBVIOUS
      <3> QED BY <1>2, <2>1, <3>1 DEF Receive, GivesUp
    <2> QED BY <2>3, <2>4, <2>5, <2>6
  <1>3. CASE PingTimeout(p) \/ LoseConnection(p) \/ Die(p)
    BY <1>3, <1>c DEF PingTimeout, LoseConnection, Die
  <1>4. CASE Pong(p) \/ SendBye(p)
    <2>1. PICK a \in Addrs : a = proc[p].addr /\ Single(a)
      BY <1>0, <1>4 DEF Pong, SendBye, ProcsOK, Tracked, Once
    <2>2. PICK f \in {"pong", "bye"} : toMaster' = [toMaster EXCEPT ![a] = Append(@, f)]
      BY <1>4, <2>1 DEF Pong, SendBye
    <2>3. UNCHANGED <<procVars, taskVars, tableVars, tasks, broken>>
      BY <1>4 DEF Pong, SendBye
    <2>4. /\ \A b \in Addrs \ {a} : toMaster'[b] = toMaster[b]
          /\ Single(a)' /\ (Holds(a, "hello")' => Holds(a, "hello"))
          /\ Holds(a, "ehlo")' => Holds(a, "ehlo")
      BY <1>0, <2>1, <2>2, SendMoves DEF Requests
    <2> SUFFICES ASSUME NEW b \in Addrs PROVE Once(b)' /\ Reported(b)'
      BY DEF Tracked
    <2>5. Greeting(b)' => Greeting(b)
      BY <2>3 DEF Greeting
    <2> QED BY <1>k, <1>s, <2>3, <2>4, <2>5
  <1> QED BY <1>1, <1>2, <1>3, <1>4 DEF ProcAction
LEMMA ReaderTracks ==
    ASSUME Inv, Tracked, NEW a \in Addrs, ReaderStep(a) PROVE Tracked'
  <1> USE DEF procVars, wireVars, taskVars, tableVars
  <1>0. /\ toMaster \in [Addrs -> Seq(ToMaster)] /\ HelloFirst /\ Once(a) /\ Reported(a)
        /\ reader \in [Addrs -> {"read", "ack", "diag", "done"}]
    BY DEF Inv, Shape, WiresOK, TasksOK, Tracked, Once
  <1>1. (\A b \in Addrs : Greeting(b)' => Greeting(b)) /\ UNCHANGED <<connToMid, toDrop, broken>>
    BY DEF ReaderStep, DecodeHello, DecodeRequest, QueueReply, ReaderEnds, ReaderCancelled, Greeting
  <1>s. ASSUME NEW b \in Addrs, toMaster'[b] = toMaster[b]
        PROVE  /\ Single(b)' /\ (Holds(b, "ehlo")' => Holds(b, "ehlo"))
               /\ (Holds(b, "hello")' => Holds(b, "hello"))
    BY <1>s DEF Tracked, Once, Single, Holds
  \* The other connections lose at most a channel.
  <1>o. ASSUME NEW b \in Addrs \ {a}, toMaster'[b] = toMaster[b], reader'[b] = reader[b],
               NEW k \in Requests \cup {"gone"}, tasks' = tasks \/ tasks' = tasks \cup {[kind |-> k, addr |-> a]},
               \/ peers'[b] = peers[b] /\ (b \in cancelled' <=> b \in cancelled)
               \/ peers[b] # None /\ peers'[b] = None /\ (b \in cancelled => b \in cancelled')
        PROVE  Once(b)' /\ Reported(b)'
    <2>1. (Waiting(b)' => Waiting(b)) /\ (GoneTask(b) \in tasks => GoneTask(b) \in tasks')
      BY <1>o DEF Waiting, EhloTask
    <2>2. peers[b] # None => ~Holds(b, "hello")
      BY <1>0 DEF HelloFirst, Unused, Holds
    <2>3. b \in cancelled' => b \in cancelled \/ (~Holds(b, "hello")' /\ peers'[b] = None)
      BY <1>o, <1>s, <2>2
    <2> QED BY <1>1, <1>o, <1>s, <2>1, <2>3, TrackStays DEF Tracked
  <1>r. ASSUME toMaster[a] # <<>>, toMaster' = [toMaster EXCEPT ![a] = Tail(@)]
        PROVE  /\ \A b \in Addrs \ {a} : toMaster'[b] = toMaster[b]
               /\ Single(a)' /\ ~Holds(a, "hello")' /\ Holds(a, Head(toMaster[a]))
               /\ Holds(a, "ehlo")' => Holds(a, "ehlo") /\ Head(toMaster[a]) # "ehlo"
    BY <1>0, <1>r, ReadMoves DEF Once
  <1>2. CASE DecodeHello(a)
    <2>1. /\ Holds(a, "hello") /\ Single(a)' /\ ~Holds(a, "hello")'
          /\ Holds(a, "ehlo")' => Holds(a, "ehlo")
          /\ \A b \in Addrs \ {a} : toMaster'[b] = toMaster[b]
      BY <1>2, <1>r DEF DecodeHello
    <2>2. Unused(a) /\ a \notin toDrop /\ (broken \/ a \notin cancelled)
      BY <1>0, <2>1 DEF HelloFirst, Holds, Reported
    <2>3. PICK r \in {"ack", "diag", "done"} :
            /\ reader' = [reader EXCEPT ![a] = r]
            /\ \/ r # "done" /\ tasks' = tasks /\ cancelled' = cancelled \cup (Replaced(a) \cap wired)
               \/ r = "done" /\ tasks' = tasks \cup {GoneTask(a)}
                  /\ cancelled' = cancelled \cup (Replaced(a) \cap wired) \cup {a}
                  /\ AcceptBootstrap(a) # "accepted"
      <3>1. CASE AcceptBootstrap(a) = "duplicate"
        BY <1>2, <3>1 DEF DecodeHello
      <3>2. CASE AcceptBootstrap(a) = "accepted"
        BY <1>2, <3>2 DEF DecodeHello
      <3>3. CASE AcceptBootstrap(a) = "error"
        BY <1>2, <3>3 DEF DecodeHello, GoneTask
      <3> QED BY <3>1, <3>2, <3>3 DEF AcceptBootstrap
    <2>4. peers' = [b \in Addrs |-> IF b \in Replaced(a) THEN None
                                    ELSE IF b = a /\ AcceptBootstrap(a) = "accepted"
                                    THEN Mid(a) ELSE peers[b]]
      BY <1>2 DEF DecodeHello
    <2>5. Replaced(a) \subseteq Addrs \ {a} /\ \A b \in Replaced(a) : peers[b] = Mid(a)
      BY DEF Replaced
    <2>6. Mid(a) # None
      <3>1. owner[a] \in Procs
        BY <2>2 DEF Unused, Inv, Shape, Owned
      <3> QED BY <3>1, MidTyped
    <2>7. ~Waiting(a) /\ ~Waiting(a)'
      BY <2>2, <2>3 DEF Waiting, EhloTask, GoneTask, Unused
    <2>8. Once(a)'
      BY <1>0, <1>1, <2>1, <2>7, OnceStays
    <2>9. Reported(a)'
      <3>1. a \in cancelled' => broken' \/ peers'[a] = None
        BY <1>1, <2>2, <2>3, <2>4, <2>5 DEF Unused
      <3>2. peers'[a] # None => reader'[a] # "done" \/ GoneTask(a) \in tasks'
        BY <1>0, <2>3
      <3> QED BY <2>1, <3>1, <3>2 DEF Reported
    <2>10. ASSUME NEW b \in Addrs \ {a} PROVE Once(b)' /\ Reported(b)'
      <3>1. tasks' = tasks \/ tasks' = tasks \cup {[kind |-> "gone", addr |-> a]}
        BY <2>3 DEF GoneTask
      <3>2. reader'[b] = reader[b]
        BY <1>0, <2>3, <2>10
      <3>3. \/ peers'[b] = peers[b] /\ (b \in cancelled' <=> b \in cancelled)
            \/ peers[b] # None /\ peers'[b] = None /\ (b \in cancelled => b \in cancelled')
        <4>1. CASE b \in Replaced(a)
          BY <2>3, <2>4, <2>5, <2>6, <4>1
        <4>2. CASE b \notin Replaced(a)
          BY <2>3, <2>4, <2>10, <4>2
        <4> QED BY <4>1, <4>2
      <3> QED BY <1>o, <2>1, <3>1, <3>2, <3>3
    <2> QED BY <2>8, <2>9, <2>10 DEF Tracked
  <1>3. CASE DecodeRequest(a)
    <2>1. PICK f \in Requests : Holds(a, f) /\ f = Head(toMaster[a]) /\ f # "hello"
      BY <1>0, <1>3, <1>r, HeadHolds DEF DecodeRequest, ToMaster, Requests
    <2>2. /\ Single(a)' /\ ~Holds(a, "hello")'
          /\ Holds(a, "ehlo")' => Holds(a, "ehlo") /\ f # "ehlo"
          /\ \A b \in Addrs \ {a} : toMaster'[b] = toMaster[b]
      BY <1>3, <1>r, <2>1 DEF DecodeRequest
    <2>3. /\ reader' = [reader EXCEPT ![a] = "diag"] \/ reader' = reader
          /\ tasks' = tasks \/ tasks' = tasks \cup {[kind |-> f, addr |-> a]}
          /\ reader[a] = "read" /\ UNCHANGED <<peers, cancelled>>
      BY <1>3, <2>1 DEF DecodeRequest
    <2>4. Once(a)' /\ Reported(a)'
      <3>1. CASE Waiting(a)' => Waiting(a)
        BY <1>0, <1>1, <2>2, <2>3, <3>1, TrackStays DEF Tracked
      <3>2. CASE Waiting(a)' /\ ~Waiting(a)
        <4>1. f = "ehlo"
          BY <2>3, <3>2 DEF Waiting, EhloTask
        <4>2. Holds(a, "ehlo") /\ ~Spent(a) /\ ~Greeting(a)
          BY <1>0, <2>1, <4>1 DEF Spent, Once
        <4>3. connToMid[a] = None /\ a \notin toDrop
          BY <1>0, <4>2 DEF Once
        <4>4. Once(a)'
          BY <1>1, <2>2, <4>1, <4>2, <4>3 DEF Once
        <4>5. reader'[a] # "done"
          BY <1>0, <2>3
        <4>6. a \in cancelled' => broken' \/ peers'[a] = None
          BY <1>0, <1>1, <2>3, <4>2 DEF Reported
        <4> QED BY <2>2, <4>4, <4>5, <4>6 DEF Reported
      <3> QED BY <3>1, <3>2
    <2>5. ASSUME NEW b \in Addrs \ {a} PROVE Once(b)' /\ Reported(b)'
      <3>1. reader'[b] = reader[b]
        BY <1>0, <2>3, <2>5
      <3> QED BY <1>o, <2>2, <2>3, <3>1
    <2> QED BY <2>4, <2>5 DEF Tracked
  <1>4. CASE QueueReply(a)
    <2>1. UNCHANGED <<toMaster, peers, cancelled, tasks>> /\ reader' = [reader EXCEPT ![a] = "read"]
      BY <1>4 DEF QueueReply
    <2> SUFFICES ASSUME NEW b \in Addrs PROVE Once(b)' /\ Reported(b)'
      BY DEF Tracked
    <2>2. (Waiting(b)' => Waiting(b)) /\ (reader[b] # "done" => reader'[b] # "done")
      BY <1>0, <2>1 DEF Waiting
    <2> QED BY <1>1, <1>s, <2>1, <2>2, TrackStays DEF Tracked
  <1>5. CASE ReaderEnds(a) \/ ReaderCancelled(a)
    <2>1. /\ toMaster' = [toMaster EXCEPT ![a] = <<>>] /\ reader' = [reader EXCEPT ![a] = "done"]
          /\ tasks' = tasks \cup {GoneTask(a)} \/ (tasks' = tasks /\ a \in cancelled)
          /\ UNCHANGED <<peers, cancelled>>
      BY <1>5 DEF ReaderEnds, ReaderCancelled, GoneTask
    <2>2. Once(a)' /\ Reported(a)'
      <3>1. toMaster'[a] = <<>>
        BY <1>0, <2>1
      <3>2. Single(a)' /\ ~Holds(a, "ehlo")' /\ ~Holds(a, "hello")'
        BY <3>1 DEF Single, Holds
      <3>3. Waiting(a)' => Waiting(a)
        BY <2>1 DEF Waiting, EhloTask, GoneTask
      <3> QED BY <1>0, <1>1, <2>1, <3>2, <3>3, TrackStays
    <2>3. ASSUME NEW b \in Addrs \ {a} PROVE Once(b)' /\ Reported(b)'
      <3>1. toMaster'[b] = toMaster[b] /\ reader'[b] = reader[b]
        BY <1>0, <2>1, <2>3
      <3>2. tasks' = tasks \/ tasks' = tasks \cup {[kind |-> "gone", addr |-> a]}
        BY <2>1 DEF GoneTask
      <3> QED BY <1>o, <2>1, <3>1, <3>2
    <2> QED BY <2>2, <2>3 DEF Tracked
  <1> QED BY <1>2, <1>3, <1>4, <1>5 DEF ReaderStep

LEMMA WriterTracks ==
    ASSUME Inv, Tracked, NEW a \in Addrs, WriterStep(a) \/ WriteFails(a) PROVE Tracked'
  <1> USE DEF procVars, wireVars, taskVars, tableVars
  <1> SUFFICES ASSUME NEW b \in Addrs PROVE Once(b)' /\ Reported(b)'
    BY DEF Tracked
  <1>0. Once(b) /\ Reported(b)
    BY DEF Tracked
  <1>1. UNCHANGED <<proc, toMaster, reader, peers, connToMid, tasks>>
    BY DEF WriterStep, SkipBroadcast, WriteFrame, WriteFails
  <1>2. /\ Single(b)' /\ (Greeting(b)' => Greeting(b)) /\ (Waiting(b)' => Waiting(b))
        /\ (Holds(b, "ehlo")' => Holds(b, "ehlo")) /\ (Holds(b, "hello")' <=> Holds(b, "hello"))
    BY <1>0, <1>1 DEF Once, Single, Greeting, Waiting, Holds
  <1>3. /\ toDrop' \subseteq toDrop /\ cancelled \subseteq cancelled' /\ (broken => broken')
        /\ cancelled' = cancelled \/ broken' \/ (a \in toDrop /\ cancelled' = cancelled \cup {a})
    BY DEF WriterStep, SkipBroadcast, WriteFrame, WriteFails
  <1>4. b \in toDrop => ~Holds(b, "hello")
    BY <1>0 DEF Reported
  <1>5. b \in cancelled' => b \in cancelled \/ broken' \/ (~Holds(b, "hello")' /\ b \in toDrop)
    BY <1>2, <1>3, <1>4
  <1>6. b \in toDrop' => b \in toDrop
    BY <1>3
  <1> QED BY <1>0, <1>1, <1>2, <1>3, <1>5, <1>6, TrackStays

LEMMA TaskTracks ==
    ASSUME Inv, Tracked, NEW t \in tasks, Handle(t) PROVE Tracked'
  <1> DEFINE a == t.addr
  <1> USE DEF procVars, wireVars, taskVars, tableVars
  <1>0. /\ a \in Addrs /\ Once(a) /\ Reported(a) /\ t = [kind |-> t.kind, addr |-> a]
        /\ connToMid \in [Addrs -> Minions \cup {None}] /\ peers \in [Addrs -> Minions \cup {None}]
        /\ HelloFirst /\ \A b \in Addrs : Unused(b) => b # a
    BY DEF Inv, Shape, TasksOK, TablesOK, Tracked, Unused
  <1>1. tasks' = tasks \ {t} /\ UNCHANGED <<proc, toMaster, reader, broken>>
    BY DEF Handle
  <1> HIDE DEF a
  <1>s. ASSUME NEW b \in Addrs
        PROVE  /\ Single(b)' /\ (Greeting(b)' <=> Greeting(b)) /\ (Waiting(b)' => Waiting(b))
               /\ (Holds(b, "ehlo")' <=> Holds(b, "ehlo")) /\ (Holds(b, "hello")' <=> Holds(b, "hello"))
               /\ b = a => ~Holds(b, "hello")
    <2>1. Single(b)
      BY DEF Tracked, Once
    <2> QED BY <1>0, <1>1, <2>1 DEF Single, Greeting, Waiting, Holds, HelloFirst
  \* A connection that a handler unplugs is unmapped or loses its channel.
  <1>o. ASSUME NEW b \in Addrs, NEW as \in SUBSET Addrs, connToMid'[b] \in {connToMid[b], None},
               b \in toDrop' => b \in toDrop, Unplug(as), b \in as => ~Unused(b),
               b = a => b \in as \/ t.kind # "gone"
        PROVE  Once(b)' /\ Reported(b)'
    <2>1. /\ peers'[b] = IF b \in as THEN None ELSE peers[b]
          /\ b \in cancelled => b \in cancelled'
          /\ b \in cancelled' => b \in cancelled \/ b \in as
      BY <1>o DEF Unplug
    <2>2. b \in as => ~Holds(b, "hello")
      BY <1>0, <1>o DEF HelloFirst, Holds
    <2>3. GoneTask(b) \in tasks => GoneTask(b) \in tasks' \/ peers'[b] = None
      <3>1. GoneTask(b) = t => b = a /\ t.kind = "gone"
        BY DEF GoneTask, a
      <3> QED BY <1>1, <1>o, <2>1, <3>1
    <2>4. Once(b) /\ Reported(b)
      BY DEF Tracked
    <2>5. b \in cancelled' => b \in cancelled \/ (~Holds(b, "hello")' /\ peers'[b] = None)
      BY <1>s, <2>1, <2>2
    <2>6. peers'[b] \in {peers[b], None}
      BY <2>1
    <2> QED BY <1>1, <1>s, <1>o, <2>1, <2>3, <2>4, <2>5, <2>6, TrackStays
  <1>n. ASSUME UNCHANGED <<peers, wired, cancelled>> PROVE Unplug({})
    BY <1>0, <1>n DEF Unplug
  <1>2. CASE t.kind = "ehlo" /\ HandleEhlo(a)
    <2>1. ~Spent(a) /\ ~Greeting(a) /\ ~Holds(a, "ehlo") /\ connToMid[a] = None /\ a \notin toDrop
      <3>1. Waiting(a)
        BY <1>0, <1>2 DEF Waiting, EhloTask
      <3> QED BY <1>0, <3>1 DEF Once, Spent
    <2>2. Spent(a)' /\ ~Greeting(a)' /\ ~Holds(a, "ehlo")' /\ ~Waiting(a)'
      <3>1. ~Waiting(a)'
        BY <1>0, <1>1, <1>2 DEF Waiting, EhloTask
      <3> QED BY <1>s, <1>0, <2>1, <3>1 DEF Spent
    <2>3. GoneTask(a) \in tasks => GoneTask(a) \in tasks'
      BY <1>0, <1>1, <1>2 DEF GoneTask
    \* Its own connection: mapped or to be dropped, and no other change.
    <2>a. ASSUME peers'[a] = peers[a], a \in cancelled' <=> a \in cancelled,
                 connToMid'[a] = None \/ a \notin toDrop'
          PROVE  Once(a)' /\ Reported(a)'
      <3>1. Once(a)'
        BY <1>0, <1>s, <2>2, <2>a DEF Once
      <3>2. a \in cancelled' => broken' \/ peers'[a] = None
        BY <1>0, <1>1, <2>1, <2>a DEF Reported
      <3>3. peers'[a] # None => reader'[a] # "done" \/ GoneTask(a) \in tasks' \/ a \in cancelled'
        BY <1>0, <1>1, <2>3, <2>a DEF Reported
      <3>4. ~Holds(a, "hello")'
        BY <1>0, <1>s
      <3> QED BY <3>1, <3>2, <3>3, <3>4 DEF Reported
    <2>e. ASSUME NEW s, NEW old \in SUBSET Addrs, a \notin old, \A c \in old : ~Unused(c), EnterSession(a, s, old)
          PROVE  Tracked'
      <3>1. Once(a)' /\ Reported(a)'
        <4>1. Unplug(old) /\ toDrop' = toDrop
          BY <2>e DEF EnterSession
        <4>2. peers'[a] = peers[a] /\ (a \in cancelled' <=> a \in cancelled)
          BY <1>0, <2>e, <4>1 DEF Unplug
        <4> QED BY <2>1, <2>a, <4>1, <4>2
      <3>2. ASSUME NEW c \in Addrs \ {a} PROVE Once(c)' /\ Reported(c)'
        <4>1. Unplug(old) /\ toDrop' = toDrop /\ connToMid'[c] \in {connToMid[c], None}
          BY <2>e, <3>2 DEF EnterSession
        <4>2. c \in Addrs /\ (c \in old => ~Unused(c)) /\ (c = a => c \in old \/ t.kind # "gone")
          BY <2>e, <3>2
        <4> QED BY <1>o, <2>e, <4>1, <4>2
      <3> QED BY <3>1, <3>2 DEF Tracked
    <2>4. ASSUME NEW as \in Dropped(a)
          PROVE  as \in SUBSET Addrs /\ a \notin as /\ \A b \in as : ~Unused(b)
      <3>0. Mid(a) # None
        <4>1. owner[a] \in Procs
          BY DEF Inv, Shape, Owned, a
        <4> QED BY <4>1, MidTyped
      <3>1. StaleAddrs(a) \subseteq Addrs \ {a} /\ \A b \in StaleAddrs(a) : ~Unused(b)
        BY <3>0 DEF StaleAddrs, Unused
      <3>2. as = {} \/ \E b \in StaleAddrs(a) : as = {b}
        BY <2>4 DEF Dropped
      <3> QED BY <3>1, <3>2
    <2>5. CASE \E as \in Dropped(a) : EnterSession(a, RemoveSession(GC(session), Mid(a)), as)
      BY <2>4, <2>5, <2>e
    <2>6. CASE EnterSession(a, GC(session), {})
      BY <2>6, <2>e
    <2>7. CASE toDrop' = toDrop \cup {a} /\ UNCHANGED <<peers, connToMid, wired, cancelled>>
      <3>1. Once(a)' /\ Reported(a)'
        BY <2>1, <2>7, <2>a
      <3>2. ASSUME NEW b \in Addrs \ {a} PROVE Once(b)' /\ Reported(b)'
        BY <1>n, <1>o, <2>7, <3>2
      <3> QED BY <3>1, <3>2 DEF Tracked
    <2> QED BY <1>2, <2>5, <2>6, <2>7 DEF HandleEhlo
  <1>3. CASE t.kind = "pong" /\ HandlePong(a)
    <2> SUFFICES ASSUME NEW b \in Addrs PROVE Once(b)' /\ Reported(b)'
      BY DEF Tracked
    <2> QED BY <1>3, <1>n, <1>o DEF HandlePong
  <1>4. CASE HandleBye(a) \/ HandleGone(a)
    <2> SUFFICES ASSUME NEW b \in Addrs PROVE Once(b)' /\ Reported(b)'
      BY DEF Tracked
    <2>1. Unplug({a}) /\ connToMid'[b] \in {connToMid[b], None} /\ toDrop' = toDrop
      BY <1>0, <1>4 DEF HandleBye, HandleGone
    <2> QED BY <1>0, <1>o, <2>1
  <1> QED BY <1>2, <1>3, <1>4 DEF Handle, a

LEMMA TrackedNext == Inv /\ Linked /\ Tracked /\ [Next]_vars => Tracked'
  <1> SUFFICES ASSUME Inv, Linked, Tracked, [Next]_vars PROVE Tracked'
    OBVIOUS
  <1>1. ASSUME NEW a \in Addrs, TaskStep(a) PROVE Tracked'
    BY <1>1, TaskTracks DEF TaskStep, Handle
  <1>2. ASSUME UNCHANGED <<proc, toMaster, reader, cancelled, peers, connToMid, toDrop, tasks, broken>>
        PROVE  Tracked'
    BY <1>2 DEF Tracked, Once, Reported, Single, Spent, Greeting, Holds, Waiting
  <1>3. ASSUME NEW m \in Minions, AgeSession(m) PROVE Tracked'
    BY <1>2, <1>3 DEF AgeSession, procVars, wireVars, taskVars
  <1>4. CASE UNCHANGED vars
    BY <1>2, <1>4 DEF vars, procVars, wireVars, taskVars, tableVars
  <1> QED BY <1>1, <1>3, <1>4, ProcTracks, ReaderTracks, WriterTracks DEF Next, ProcStep, ProcAction

(* No minion is locked out by a connection that is gone: whatever handlers *)
(* run in whatever order, a channel its hellos are refused for has a       *)
(* reader or a report of its end, unless a write of the master failed.     *)
THEOREM NobodyLockedOut == Spec => []NoDeadEnd
  <1>1. Init => Linked
    BY DEF Init, Linked
  <1>2. Init => Tracked
    <2> SUFFICES ASSUME Init, NEW a \in Addrs PROVE Once(a) /\ Reported(a)
      BY DEF Tracked
    <2>1. toMaster[a] = <<>> /\ peers[a] = None /\ connToMid[a] = None
      BY DEF Init
    <2>2. Single(a) /\ ~Holds(a, "hello") /\ ~Holds(a, "ehlo")
      BY <2>1 DEF Single, Holds
    <2>3. ~Greeting(a) /\ ~Waiting(a) /\ a \notin toDrop /\ a \notin cancelled
      BY DEF Init, Greeting, Waiting
    <2> QED BY <2>1, <2>2, <2>3 DEF Once, Reported, Spent
  <1>3. Tracked => NoDeadEnd
    BY DEF Tracked, Reported, NoDeadEnd, Blocks, GoneTask
  <1> QED BY <1>1, <1>2, <1>3, InvHolds, LinkedNext, TrackedNext, PTL DEF Spec
=============================================================================
