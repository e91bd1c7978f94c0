----------------------- MODULE DurableDelivery_proofs -----------------------
(* Theorems about DurableDelivery, for any number of commands, drops,      *)
(* crashes and failures.                                                   *)
EXTENDS DurableDelivery, TLAPS

AnyCycle == Cycles \cup {NoCycle}
MasterKinds == {"ehlo", "traits", "event", "modelAck"}
MasterFrames == [kind : MasterKinds, cycle : AnyCycle]

(* What is on its way to the master: frames not read, and read ones whose  *)
(* task has not run.                                                       *)
OnWire == {toMaster[i] : i \in 1..Len(toMaster)}
FrameOf(task) == [kind |-> task.kind, cycle |-> task.cycle]
Underway == OnWire \cup {FrameOf(t) : t \in tasks}

-----------------------------------------------------------------------------
(* How the connection changes.                                             *)

LEMMA SendAdds ==
    ASSUME TypeOK, NEW fs \in Seq(MasterFrames), SendToMaster(fs)
    PROVE  /\ toMaster' \in Seq(MasterFrames)
           /\ OnWire' \subseteq OnWire \cup {fs[i] : i \in 1..Len(fs)}
  <1>1. toMaster \in Seq(MasterFrames)
    BY DEF TypeOK, MasterFrames, MasterKinds, AnyCycle
  <1>2. CASE link = "down"
    BY <1>1, <1>2 DEF SendToMaster, OnWire
  <1>3. CASE link # "down"
    <2>1. toMaster' = toMaster \o fs
      BY <1>3 DEF SendToMaster
    <2>2. \A i \in 1..Len(toMaster') :
            \/ i \in 1..Len(toMaster) /\ toMaster'[i] = toMaster[i]
            \/ i - Len(toMaster) \in 1..Len(fs) /\ toMaster'[i] = fs[i - Len(toMaster)]
      BY <1>1, <2>1
    <2> QED BY <1>1, <2>1, <2>2 DEF OnWire
  <1> QED BY <1>2, <1>3

LEMMA SendsOne ==
    ASSUME TypeOK, NEW k \in MasterKinds, NEW c \in AnyCycle, SendToMaster(Msg(k, c))
    PROVE  /\ toMaster' \in Seq(MasterFrames)
           /\ UNCHANGED tasks => Underway' \subseteq Underway \cup {[kind |-> k, cycle |-> c]}
  <1>1. Msg(k, c) \in Seq(MasterFrames) /\ Len(Msg(k, c)) = 1
        /\ Msg(k, c)[1] = [kind |-> k, cycle |-> c]
    BY DEF Msg, MasterFrames
  <1>2. OnWire' \subseteq OnWire \cup {[kind |-> k, cycle |-> c]}
    BY <1>1, SendAdds
  <1> QED BY <1>1, <1>2, SendAdds DEF Underway

LEMMA ProcessTakes ==
    ASSUME TypeOK, NEW frame \in Spawned, Process(frame)
    PROVE  /\ toMaster' \in Seq(MasterFrames)
           /\ tasks' \subseteq [kind : MasterKinds, cycle : AnyCycle, live : BOOLEAN]
           /\ Underway' \subseteq Underway
           /\ FrameOf(frame) \in Underway
           /\ frame.kind \in MasterKinds /\ frame.cycle \in AnyCycle
  <1>1. toMaster \in Seq(MasterFrames)
        /\ tasks \subseteq [kind : MasterKinds, cycle : AnyCycle, live : BOOLEAN]
    BY DEF TypeOK, MasterFrames, MasterKinds, AnyCycle
  <1>2. CASE frame \in tasks /\ tasks' = tasks \ {frame} /\ toMaster' = toMaster
    BY <1>1, <1>2 DEF Underway, OnWire, FrameOf
  <1>3. ASSUME NEW i \in 1..Len(toMaster),
               frame = Task(toMaster[i], TRUE),
               tasks' = tasks \cup Tasks(SubSeq(toMaster, 1, i - 1), TRUE),
               toMaster' = SubSeq(toMaster, i + 1, Len(toMaster))
        PROVE  /\ toMaster' \in Seq(MasterFrames)
               /\ tasks' \subseteq [kind : MasterKinds, cycle : AnyCycle, live : BOOLEAN]
               /\ Underway' \subseteq Underway
               /\ FrameOf(frame) \in Underway
               /\ frame.kind \in MasterKinds /\ frame.cycle \in AnyCycle
    <2> DEFINE read == SubSeq(toMaster, 1, i - 1)
    <2>1. \A f \in MasterFrames : Task(f, TRUE) \in [kind : MasterKinds, cycle : AnyCycle, live : BOOLEAN]
                                  /\ FrameOf(Task(f, TRUE)) = f
      BY DEF Task, FrameOf, MasterFrames
    <2>2. \A j \in 1..Len(read) : read[j] = toMaster[j] /\ j \in 1..Len(toMaster)
      BY <1>1
    <2>3. /\ toMaster' \in Seq(MasterFrames)
          /\ \A j \in 1..Len(toMaster') : toMaster'[j] = toMaster[j + i] /\ j + i \in 1..Len(toMaster)
      BY <1>1, <1>3
    <2>4. \A j \in 1..Len(toMaster) : toMaster[j] \in MasterFrames
      BY <1>1
    <2>5. \A t \in tasks' : t \in tasks \/ \E j \in 1..Len(toMaster) : t = Task(toMaster[j], TRUE)
      BY <1>3, <2>2 DEF Tasks
    <2>6. OnWire' \subseteq OnWire
      BY <2>3 DEF OnWire
    <2>7. \A t \in tasks' : /\ FrameOf(t) \in Underway
                            /\ t \in [kind : MasterKinds, cycle : AnyCycle, live : BOOLEAN]
      <3> SUFFICES ASSUME NEW t \in tasks'
                   PROVE  /\ FrameOf(t) \in Underway
                          /\ t \in [kind : MasterKinds, cycle : AnyCycle, live : BOOLEAN]
        OBVIOUS
      <3>1. CASE t \in tasks
        BY <1>1, <3>1 DEF Underway
      <3>2. ASSUME NEW j \in 1..Len(toMaster), t = Task(toMaster[j], TRUE)
            PROVE  /\ FrameOf(t) \in Underway
                   /\ t \in [kind : MasterKinds, cycle : AnyCycle, live : BOOLEAN]
        BY <2>1, <2>4, <3>2 DEF Underway, OnWire
      <3> QED BY <2>5, <3>1, <3>2
    <2>8. FrameOf(frame) = toMaster[i] /\ frame.kind \in MasterKinds /\ frame.cycle \in AnyCycle
      BY <1>3, <2>1, <2>4
    <2> QED BY <2>3, <2>6, <2>7, <2>8 DEF Underway, OnWire
  <1> QED BY <1>2, <1>3 DEF Process

LEMMA CutTakes ==
    ASSUME TypeOK, CutConnection
    PROVE  /\ tasks' \subseteq [kind : MasterKinds, cycle : AnyCycle, live : BOOLEAN]
           /\ toMaster' = <<>> /\ direct' = <<>> /\ bcast' = <<>> /\ link' = "down" /\ replaying' = {}
           /\ Underway' \subseteq Underway
  <1>1. toMaster \in Seq(MasterFrames)
        /\ tasks \subseteq [kind : MasterKinds, cycle : AnyCycle, live : BOOLEAN]
    BY DEF TypeOK, MasterFrames, MasterKinds, AnyCycle
  <1>2. PICK i \in 0..Len(toMaster) :
          tasks' = {Task(f, FALSE) : f \in {g \in tasks \cup Tasks(SubSeq(toMaster, 1, i), FALSE) : g.kind \in Kinds}}
    BY DEF CutConnection
  <1>3. \A j \in 1..Len(SubSeq(toMaster, 1, i)) :
          SubSeq(toMaster, 1, i)[j] = toMaster[j] /\ j \in 1..Len(toMaster) /\ toMaster[j] \in MasterFrames
    BY <1>1
  <1>4. \A f \in tasks \cup Tasks(SubSeq(toMaster, 1, i), FALSE) :
          FrameOf(f) \in Underway /\ f.kind \in MasterKinds /\ f.cycle \in AnyCycle
    <2>1. ASSUME NEW f \in tasks
          PROVE  FrameOf(f) \in Underway /\ f.kind \in MasterKinds /\ f.cycle \in AnyCycle
      BY <1>1 DEF Underway
    <2>2. ASSUME NEW j \in 1..Len(SubSeq(toMaster, 1, i))
          PROVE  LET f == Task(SubSeq(toMaster, 1, i)[j], FALSE)
                 IN  FrameOf(f) \in Underway /\ f.kind \in MasterKinds /\ f.cycle \in AnyCycle
      <3>1. FrameOf(Task(toMaster[j], FALSE)) = toMaster[j] /\ toMaster[j] \in Underway
        BY <1>3 DEF Task, FrameOf, MasterFrames, Underway, OnWire
      <3> QED BY <1>3, <3>1 DEF Task, MasterFrames
    <2> QED BY <2>1, <2>2 DEF Tasks
  <1>5. \A t \in tasks' : FrameOf(t) \in Underway
                          /\ t \in [kind : MasterKinds, cycle : AnyCycle, live : BOOLEAN]
    <2> SUFFICES ASSUME NEW f \in tasks \cup Tasks(SubSeq(toMaster, 1, i), FALSE)
                 PROVE  FrameOf(Task(f, FALSE)) \in Underway
                        /\ Task(f, FALSE) \in [kind : MasterKinds, cycle : AnyCycle, live : BOOLEAN]
      BY <1>2
    <2> QED BY <1>4 DEF Task, FrameOf
  <1>6. OnWire' = {}
    BY DEF CutConnection, OnWire
  <1> QED BY <1>5, <1>6 DEF CutConnection, Underway, OnWire

LEMMA ReceiveTakes ==
    ASSUME TypeOK, NEW frame \in Frames, Receive(frame)
    PROVE  /\ direct' \in Seq(FrameTo({"command", "cycleAck"}))
           /\ bcast' \in Seq(FrameTo({"command", "traits"}))
           /\ Frames' \subseteq Frames
           /\ frame.cycle \in AnyCycle
  <1>1. ASSUME direct # <<>>, frame = Head(direct), direct' = Tail(direct), bcast' = bcast
        PROVE  /\ direct' \in Seq(FrameTo({"command", "cycleAck"}))
               /\ Frames' \subseteq Frames /\ frame \in FrameTo({"command", "cycleAck"})
    <2>1. /\ direct' \in Seq(FrameTo({"command", "cycleAck"})) /\ frame = direct[1] /\ 1 \in 1..Len(direct)
          /\ \A i \in 1..Len(direct') : direct'[i] = direct[i + 1] /\ i + 1 \in 1..Len(direct)
      BY <1>1 DEF TypeOK
    <2> QED BY <1>1, <2>1 DEF Frames, TypeOK
  <1>2. ASSUME bcast # <<>>, frame = Head(bcast), bcast' = Tail(bcast), direct' = direct
        PROVE  /\ bcast' \in Seq(FrameTo({"command", "traits"}))
               /\ Frames' \subseteq Frames /\ frame \in FrameTo({"command", "traits"})
    <2>1. /\ bcast' \in Seq(FrameTo({"command", "traits"})) /\ frame = bcast[1] /\ 1 \in 1..Len(bcast)
          /\ \A i \in 1..Len(bcast') : bcast'[i] = bcast[i + 1] /\ i + 1 \in 1..Len(bcast)
      BY <1>2 DEF TypeOK
    <2> QED BY <1>2, <2>1 DEF Frames, TypeOK
  <1> QED BY <1>1, <1>2 DEF Receive, FrameTo, AnyCycle, TypeOK

LEMMA DirectAdds ==
    ASSUME TypeOK, NEW k \in {"command", "cycleAck"}, NEW c \in Cycles, SendDirect(k, c)
    PROVE  /\ direct' \in Seq(FrameTo({"command", "cycleAck"}))
           /\ UNCHANGED bcast => Frames' \subseteq Frames \cup {[kind |-> k, cycle |-> c]}
  <1>1. direct \in Seq(FrameTo({"command", "cycleAck"}))
        /\ [kind |-> k, cycle |-> c] \in FrameTo({"command", "cycleAck"})
    BY DEF TypeOK, FrameTo
  <1>2. direct' = Append(direct, [kind |-> k, cycle |-> c])
    BY <1>1 DEF SendDirect, Msg
  <1>3. \A i \in 1..Len(direct') : \/ i \in 1..Len(direct) /\ direct'[i] = direct[i]
                                  \/ direct'[i] = [kind |-> k, cycle |-> c]
    BY <1>1, <1>2
  <1> QED BY <1>1, <1>2, <1>3 DEF Frames

LEMMA BroadcastAdds ==
    ASSUME TypeOK, NEW k \in {"command", "traits"}, NEW c \in AnyCycle, Broadcast(k, c)
    PROVE  /\ bcast' \in Seq(FrameTo({"command", "traits"}))
           /\ UNCHANGED direct => Frames' \subseteq Frames \cup {[kind |-> k, cycle |-> c]}
  <1>1. bcast \in Seq(FrameTo({"command", "traits"}))
        /\ [kind |-> k, cycle |-> c] \in FrameTo({"command", "traits"})
    BY DEF TypeOK, FrameTo, AnyCycle
  <1>2. bcast' = bcast \/ bcast' = Append(bcast, [kind |-> k, cycle |-> c])
    BY <1>1 DEF Broadcast, Msg
  <1>3. \A i \in 1..Len(bcast') : \/ i \in 1..Len(bcast) /\ bcast'[i] = bcast[i]
                                 \/ bcast'[i] = [kind |-> k, cycle |-> c]
    BY <1>1, <1>2
  <1> QED BY <1>1, <1>2, <1>3 DEF Frames

-----------------------------------------------------------------------------
(* Types.  Where a step uses the cycle of an actor or of a frame it has one. *)

Acking == {"ack", "mark", "ledger", "send"}
Places == {"idle", "check", "dispatch", "actions", "model", "finish", "off", "add", "replay"} \cup Acking

Named ==
    /\ pc \in [Actors -> Places]
    /\ pc.runner # "idle" => cyc.runner \in Cycles
    /\ pc.reader \in Acking \cup {"add"} => cyc.reader \in Cycles
    /\ \A f \in Underway : f.kind \in {"event", "modelAck"} => f.cycle \in Cycles
    /\ \A f \in Frames : f.kind # "traits" => f.cycle \in Cycles

(* TypeOK and Named in two parts: the connection and the rest.             *)
WireOK ==
    /\ toMaster \in Seq(MasterFrames)
    /\ tasks \subseteq [kind : MasterKinds, cycle : AnyCycle, live : BOOLEAN]
    /\ direct \in Seq(FrameTo({"command", "cycleAck"}))
    /\ bcast \in Seq(FrameTo({"command", "traits"}))
    /\ \A f \in Underway : f.kind \in {"event", "modelAck"} => f.cycle \in Cycles
    /\ \A f \in Frames : f.kind # "traits" => f.cycle \in Cycles

LocalOK ==
    /\ cmdq \in [Cycles -> {"none", "pending", "replayed"}]
    /\ toBcast \subseteq Cycles /\ replaying \subseteq Cycles
    /\ claimed \subseteq Cycles /\ recording \subseteq Cycles
    /\ recorded \in [Cycles -> Nat]
    /\ ledger \in [Cycles -> {"none", "accepted", "running", "completed"}]
    /\ jobs \in Seq(Cycles) /\ inflight \in Seq(Cycles)
    /\ journal \in [Cycles -> SUBSET Kinds] /\ completed \subseteq Cycles
    /\ pc \in [Actors -> Places]
    /\ pc.runner \in {"idle", "check", "dispatch", "actions", "model", "finish"} \cup Acking
    /\ pc.reader \in {"off", "idle", "add", "replay"} \cup Acking
    /\ cyc \in [Actors -> AnyCycle] /\ todo \in [Cycles -> SUBSET Kinds]
    /\ link \in {"down", "secured", "live"}
    /\ started \subseteq Cycles /\ ran \subseteq Cycles
    /\ cleared \subseteq Cycles /\ emitted \subseteq Cycles
    /\ pc.runner # "idle" => cyc.runner \in Cycles
    /\ pc.reader \in Acking \cup {"add"} => cyc.reader \in Cycles

LEMMA TwoParts == TypeOK /\ Named <=> WireOK /\ LocalOK
  BY DEF TypeOK, Named, WireOK, LocalOK, MasterFrames, MasterKinds, AnyCycle, Acking, Places

LEMMA TypeInit == Init => TypeOK /\ Named
  <1> SUFFICES ASSUME Init PROVE TypeOK /\ Named
    OBVIOUS
  <1>1. Underway = {} /\ Frames = {}
    BY DEF Init, Underway, OnWire, Frames
  <1> QED BY <1>1, DeliveryAssumption DEF Init, TypeOK, Named, Nothing, Actors, Places, Acking

(* Where a ModelAck and a command that are put on the connection come from. *)
Traffic ==
    /\ \A f \in Underway' \ Underway : f.kind = "modelAck" =>
         \/ \E a \in Actors : pc[a] = "send" /\ f.cycle = cyc[a]
         \/ f.cycle \in Cycles /\ "modelAck" \in todo[f.cycle]
    /\ \A f \in Frames' \ Frames : f.kind = "command" => f.cycle \in toBcast \cup replaying

\* What a step does to the connection keeps it typed, and new frames have a source.
LEMMA WireNext ==
    ASSUME TypeOK, WireOK, LocalOK, [Next]_vars
    PROVE  WireOK' /\ Traffic
  <1> DEFINE Goal == WireOK' /\ Traffic
  <1> USE DEF masterVars, storeVars, actorVars, linkVars, historyVars
  <1>a. UNCHANGED <<toMaster, tasks>> => Underway' = Underway
    BY DEF Underway, OnWire
  <1>b. UNCHANGED <<direct, bcast>> => Frames' = Frames
    BY DEF Frames
  <1>c. UNCHANGED <<toMaster, tasks, direct, bcast>> => Goal
    BY <1>a, <1>b DEF WireOK, Traffic
  <1>d. NoCycle \in AnyCycle /\ Cycles \subseteq AnyCycle
    BY DeliveryAssumption DEF AnyCycle
  \* A frame is sent to the master.
  <1>s. ASSUME NEW k \in MasterKinds, NEW c \in AnyCycle, SendToMaster(Msg(k, c)),
               k \in {"event", "modelAck"} => c \in Cycles,
               k = "modelAck" => \E a \in Actors : pc[a] = "send" /\ c = cyc[a],
               UNCHANGED <<tasks, direct, bcast>>
        PROVE  Goal
    <2>1. toMaster' \in Seq(MasterFrames) /\ Underway' \subseteq Underway \cup {[kind |-> k, cycle |-> c]}
      BY <1>s, SendsOne
    <2> QED BY <1>b, <1>s, <2>1 DEF WireOK, Traffic
  \* A task of the master runs and may write to one of the streams.
  <1>p. ASSUME NEW frame \in Spawned, Process(frame),
               \/ UNCHANGED <<direct, bcast>>
               \/ Broadcast("traits", NoCycle) /\ UNCHANGED direct
               \/ frame.kind = "modelAck" /\ SendDirect("cycleAck", frame.cycle) /\ UNCHANGED bcast
        PROVE  Goal
    <2>1. /\ toMaster' \in Seq(MasterFrames)
          /\ tasks' \subseteq [kind : MasterKinds, cycle : AnyCycle, live : BOOLEAN]
          /\ Underway' \subseteq Underway /\ FrameOf(frame) \in Underway
      BY <1>p, ProcessTakes
    <2>2. frame.kind = "modelAck" => frame.cycle \in Cycles
      BY <2>1 DEF WireOK, FrameOf
    <2>3. CASE UNCHANGED <<direct, bcast>>
      BY <1>b, <2>1, <2>3 DEF WireOK, Traffic
    <2>4. CASE Broadcast("traits", NoCycle) /\ UNCHANGED direct
      <3>1. /\ bcast' \in Seq(FrameTo({"command", "traits"}))
            /\ Frames' \subseteq Frames \cup {[kind |-> "traits", cycle |-> NoCycle]}
        BY <1>d, <2>4, BroadcastAdds
      <3> QED BY <2>1, <2>4, <3>1 DEF WireOK, Traffic
    <2>5. CASE frame.kind = "modelAck" /\ SendDirect("cycleAck", frame.cycle) /\ UNCHANGED bcast
      <3>1. /\ direct' \in Seq(FrameTo({"command", "cycleAck"}))
            /\ Frames' \subseteq Frames \cup {[kind |-> "cycleAck", cycle |-> frame.cycle]}
        BY <2>2, <2>5, DirectAdds
      <3> QED BY <2>1, <2>2, <2>5, <3>1 DEF WireOK, Traffic
    <2> QED BY <1>p, <2>3, <2>4, <2>5
  \* The connection ends.
  <1>e. ASSUME CutConnection PROVE Goal
    <2>1. /\ toMaster' = <<>> /\ direct' = <<>> /\ bcast' = <<>> /\ Underway' \subseteq Underway
          /\ tasks' \subseteq [kind : MasterKinds, cycle : AnyCycle, live : BOOLEAN]
      BY <1>e, CutTakes
    <2>2. Frames' = {}
      BY <2>1 DEF Frames
    <2> QED BY <2>1, <2>2 DEF WireOK, Traffic
  <1>1. CASE Submission
    <2>1. ASSUME NEW d \in Cycles, Enqueue(d) PROVE Goal
      BY <1>c, <2>1 DEF Enqueue
    <2>2. ASSUME NEW d \in Cycles, BroadcastCommand(d) PROVE Goal
      <3>1. /\ bcast' \in Seq(FrameTo({"command", "traits"}))
            /\ Frames' \subseteq Frames \cup {[kind |-> "command", cycle |-> d]}
        BY <1>d, <2>2, BroadcastAdds DEF BroadcastCommand
      <3> QED BY <1>a, <2>2, <3>1 DEF WireOK, Traffic, BroadcastCommand
    <2> QED BY <1>1, <2>1, <2>2 DEF Submission
  <1>2. CASE MasterTask
    <2>1. ASSUME NEW frame \in Spawned, HandleEhlo(frame) PROVE Goal
      BY <1>p, <2>1 DEF HandleEhlo
    <2>2. ASSUME NEW frame \in Spawned, HandleTraits(frame) PROVE Goal
      BY <1>p, <2>2 DEF HandleTraits
    <2>3. ASSUME NEW frame \in Spawned, HandleEvent(frame) PROVE Goal
      BY <1>p, <2>3 DEF HandleEvent
    <2>4. ASSUME NEW frame \in Spawned, HandleModelAck(frame) PROVE Goal
      BY <1>p, <2>4 DEF HandleModelAck
    <2>5. ASSUME NEW c \in Cycles, ReplayCommand(c) PROVE Goal
      <3>1. /\ direct' \in Seq(FrameTo({"command", "cycleAck"}))
            /\ Frames' \subseteq Frames \cup {[kind |-> "command", cycle |-> c]}
        BY <2>5, DirectAdds DEF ReplayCommand
      <3> QED BY <1>a, <2>5, <3>1 DEF WireOK, Traffic, ReplayCommand
    <2>6. ASSUME NEW c \in Cycles, RecordEvent(c) PROVE Goal
      BY <1>c, <2>6 DEF RecordEvent
    <2> QED BY <1>2, <2>1, <2>2, <2>3, <2>4, <2>5, <2>6 DEF MasterTask
  <1>3. CASE Reader \/ AddFails
    <2>r. ASSUME NEW frame \in Frames, Receive(frame), UNCHANGED <<toMaster, tasks>> PROVE Goal
      BY <1>a, <2>r, ReceiveTakes DEF WireOK, Traffic
    <2>1. ASSUME NEW frame \in Frames, ClaimCommand(frame) \/ DuplicateCommand(frame) PROVE Goal
      BY <2>r, <2>1 DEF ClaimCommand, DuplicateCommand
    <2>2. ASSUME NEW frame \in Frames, ReceiveCycleAck(frame) PROVE Goal
      BY <2>r, <2>2 DEF ReceiveCycleAck
    <2>3. ASSUME NEW frame \in Frames, ReceiveTraitsRequest(frame) PROVE Goal
      <3>1. /\ direct' \in Seq(FrameTo({"command", "cycleAck"})) /\ bcast' \in Seq(FrameTo({"command", "traits"}))
            /\ Frames' \subseteq Frames
        BY <2>3, ReceiveTakes DEF ReceiveTraitsRequest
      <3>2. /\ toMaster' \in Seq(MasterFrames)
            /\ Underway' \subseteq Underway \cup {[kind |-> "traits", cycle |-> NoCycle]}
        BY <1>d, <2>3, SendsOne DEF ReceiveTraitsRequest, MasterKinds
      <3> QED BY <2>3, <3>1, <3>2 DEF WireOK, Traffic, ReceiveTraitsRequest
    <2>4. ASSUME AddJob \/ AddFails PROVE Goal
      BY <1>c, <2>4 DEF AddJob, AddFails
    <2>5. ASSUME NEW c \in Cycles, ReplayCycle(c) PROVE Goal
      <3> DEFINE e == IF "event" \in todo[c] THEN Msg("event", c) ELSE <<>>
                 a == IF "modelAck" \in todo[c] THEN Msg("modelAck", c) ELSE <<>>
      <3>1. /\ e \o a \in Seq(MasterFrames)
            /\ \A i \in 1..Len(e \o a) :
                 (e \o a)[i].cycle = c /\ ((e \o a)[i].kind = "modelAck" => "modelAck" \in todo[c])
        <4> DEFINE f == [kind |-> "event", cycle |-> c]
                   g == [kind |-> "modelAck", cycle |-> c]
        <4>1. f \in MasterFrames /\ g \in MasterFrames /\ f.cycle = c /\ g.cycle = c /\ f.kind = "event"
          BY <1>d DEF MasterFrames, MasterKinds
        <4> HIDE DEF f, g
        <4>2. e \in {<<>>, <<f>>} /\ a \in {<<>>, <<g>>} /\ ("modelAck" \in todo[c] \/ a = <<>>)
          BY Zenon DEF Msg, f, g
        <4> HIDE DEF e, a
        <4>3. e \in Seq({f, g}) /\ a \in Seq({f, g})
          <5>1. <<f>> \in Seq({f, g}) /\ <<g>> \in Seq({f, g}) /\ <<>> \in Seq({f, g})
            OBVIOUS
          <5> QED BY <4>2, <5>1
        <4>4. e \o a \in Seq({f, g})
          BY <4>3
        <4>5. \A q \in Seq({f, g}) : q \in Seq(MasterFrames) /\ \A i \in 1..Len(q) : q[i].cycle = c
          BY <4>1
        <4>6. "modelAck" \in todo[c] \/ (e \o a = e /\ \A i \in 1..Len(e) : e[i] = f)
          BY <4>2, <4>3
        <4> QED BY <4>1, <4>4, <4>5, <4>6
      <3>2. toMaster' \in Seq(MasterFrames) /\ OnWire' \subseteq OnWire \cup {(e \o a)[i] : i \in 1..Len(e \o a)}
        BY <2>5, <3>1, SendAdds DEF ReplayCycle
      <3>3. \A f \in Underway' : f \in Underway
          \/ (f.cycle = c /\ (f.kind = "modelAck" => "modelAck" \in todo[c]))
        <4>1. tasks' = tasks
          BY <2>5 DEF ReplayCycle
        <4>2. \A f \in OnWire' : f \in OnWire \/ \E i \in 1..Len(e \o a) : f = (e \o a)[i]
          BY <3>2
        <4>3. \A f \in OnWire' : f \in OnWire
          \/ (f.cycle = c /\ (f.kind = "modelAck" => "modelAck" \in todo[c]))
          <5> HIDE DEF e, a
          <5> QED BY <3>1, <4>2
        <4>4. \A f \in Underway' : f \in OnWire' \/ f \in Underway
          BY <4>1 DEF Underway
        <4>5. OnWire \subseteq Underway
          BY DEF Underway
        <4> HIDE DEF e, a
        <4> QED BY <4>3, <4>4, <4>5
      <3> QED BY <1>b, <2>5, <3>2, <3>3 DEF WireOK, Traffic, ReplayCycle
    <2>6. ASSUME ModelAckBy("reader") PROVE Goal
      <3>1. CASE SendModelAck("reader")
        BY <1>d, <1>s, <3>1 DEF SendModelAck, AckStep, LocalOK, Acking, MasterKinds, Actors
      <3> QED BY <1>c, <2>6, <3>1 DEF ModelAckBy, JournalAck, MarkComplete, LedgerComplete, AckStep
    <2> QED BY <1>3, <2>1, <2>2, <2>3, <2>4, <2>5, <2>6 DEF Reader
  <1>4. CASE Execute \/ RefuseLaunch
    <2>1. CASE ActionEvent \/ RefuseLaunch
      <3>1. SendToMaster(Msg("event", cyc.runner)) /\ cyc.runner \in Cycles /\ UNCHANGED <<tasks, direct, bcast>>
        BY <2>1 DEF ActionEvent, RefuseLaunch, JournalAndSend, Dispatch, RunnerTo, LocalOK
      <3> QED BY <1>d, <1>s, <3>1 DEF MasterKinds
    <2>2. CASE EndModel
      <3>1. cyc.runner \in Cycles /\ UNCHANGED <<tasks, direct, bcast>>
            /\ (SendToMaster(Msg("event", cyc.runner)) \/ UNCHANGED toMaster)
        BY <2>2 DEF EndModel, JournalAndSend, RunnerTo, LocalOK
      <3> QED BY <1>c, <1>d, <1>s, <3>1 DEF MasterKinds
    <2>3. CASE SendModelAck("runner")
      BY <1>d, <1>s, <2>3 DEF SendModelAck, AckStep, LocalOK, Acking, MasterKinds, Actors
    <2> QED BY <1>4, <1>c, <2>1, <2>2, <2>3 DEF Execute, FetchJob, CheckCompleted, StartModel, AckJob,
          ModelAckBy, JournalAck, MarkComplete, LedgerComplete, AckStep, Dispatch, RunnerTo
  <1>5. CASE Connection
    <2>1. CASE Connect
      BY <1>c, <2>1 DEF Connect
    <2>2. CASE SendEhlo
      BY <1>d, <1>s, <2>2 DEF SendEhlo, MasterKinds
    <2> QED BY <1>5, <2>1, <2>2 DEF Connection
  <1>6. CASE LinkDrop \/ MinionCrash
    BY <1>6, <1>e DEF LinkDrop, MinionCrash
  <1>7. CASE MasterCrash
    <2>1. Underway' = {} /\ Frames' = {}
      BY <1>7 DEF MasterCrash, Underway, OnWire, Frames
    <2> QED BY <1>7, <2>1 DEF MasterCrash, WireOK, Traffic
  <1>8. CASE UNCHANGED vars
    BY <1>8, <1>c DEF vars
  <1> QED BY <1>1, <1>2, <1>3, <1>4, <1>5, <1>6, <1>7, <1>8 DEF Next, Submission

\* A task of the master and the reader get frames with a cycle where they use it.
LEMMA FrameHasCycle ==
    ASSUME TypeOK, WireOK
    PROVE  /\ \A frame \in Spawned : Process(frame) /\ frame.kind \in {"event", "modelAck"}
                                       => frame.cycle \in Cycles
           /\ \A frame \in Frames : frame.kind # "traits" => frame.cycle \in Cycles
  <1>1. ASSUME NEW frame \in Spawned, Process(frame), frame.kind \in {"event", "modelAck"}
        PROVE  frame.cycle \in Cycles
    BY <1>1, ProcessTakes DEF WireOK, FrameOf
  <1> QED BY <1>1 DEF WireOK

LEMMA LocalNext ==
    ASSUME TypeOK, WireOK, LocalOK, [Next]_vars
    PROVE  LocalOK'
  <1> USE DEF LocalOK, masterVars, storeVars, actorVars, linkVars, historyVars, Acking, Places, Actors
  <1> USE DeliveryAssumption DEF AnyCycle
  \* send_model_ack, by either actor.
  <1>k. ASSUME NEW a \in Actors, ModelAckBy(a) PROVE LocalOK'
    <2> USE DEF AckStep
    <2>0. cyc[a] \in Cycles
      BY <1>k DEF ModelAckBy, JournalAck, MarkComplete, LedgerComplete, SendModelAck
    <2>1. CASE JournalAck(a)
      <3>1. journal' \in [Cycles -> SUBSET Kinds]
        BY <2>0, <2>1 DEF JournalAck, Kinds
      <3> QED BY <2>0, <2>1, <3>1 DEF JournalAck
    <2>2. CASE MarkComplete(a)
      BY <2>0, <2>2 DEF MarkComplete
    <2>3. CASE LedgerComplete(a)
      <3>1. ledger' \in [Cycles -> {"none", "accepted", "running", "completed"}]
        BY <2>0, <2>3 DEF LedgerComplete
      <3> QED BY <2>0, <2>3, <3>1 DEF LedgerComplete
    <2>4. CASE SendModelAck(a)
      <3>1. /\ pc' \in [Actors -> Places] /\ cyc' \in [Actors -> AnyCycle]
            /\ a = "runner" => pc'.runner = "finish" /\ pc'.reader = pc.reader /\ cyc' = cyc
            /\ a = "reader" => pc'.reader \in {"idle", "replay"} /\ pc'.runner = pc.runner
                                /\ cyc'.runner = cyc.runner
        BY <2>4 DEF SendModelAck, AckSent
      <3> QED BY <2>4, <3>1 DEF SendModelAck
    <2> QED BY <1>k, <2>1, <2>2, <2>3, <2>4 DEF ModelAckBy
  <1>1. CASE Submission
    BY <1>1 DEF Submission, Enqueue, BroadcastCommand, Broadcast
  <1>2. CASE MasterTask
    <2>1. ASSUME NEW frame \in Spawned, HandleEhlo(frame) \/ HandleTraits(frame) PROVE LocalOK'
      BY <2>1 DEF HandleEhlo, HandleTraits
    <2>2. ASSUME NEW frame \in Spawned, HandleEvent(frame) PROVE LocalOK'
      <3>1. frame.cycle \in Cycles
        BY <2>2, FrameHasCycle DEF HandleEvent
      <3> QED BY <2>2, <3>1 DEF HandleEvent
    <2>3. ASSUME NEW frame \in Spawned, HandleModelAck(frame) PROVE LocalOK'
      <3>1. frame.cycle \in Cycles
        BY <2>3, FrameHasCycle DEF HandleModelAck
      <3> QED BY <2>3, <3>1 DEF HandleModelAck
    <2>4. ASSUME NEW c \in Cycles, ReplayCommand(c) PROVE LocalOK'
      <3>1. cmdq' \in [Cycles -> {"none", "pending", "replayed"}]
        BY <2>4 DEF ReplayCommand
      <3> QED BY <2>4, <3>1 DEF ReplayCommand
    <2>5. ASSUME NEW c \in Cycles, RecordEvent(c) PROVE LocalOK'
      BY <2>5 DEF RecordEvent
    <2> QED BY <1>2, <2>1, <2>2, <2>3, <2>4, <2>5 DEF MasterTask
  <1>3. CASE Reader \/ AddFails
    <2>a. ASSUME NEW at \in {"idle", "add", "replay"} \cup Acking, NEW c \in AnyCycle, ReaderTo(at, c),
                 at \in Acking \cup {"add"} => c \in Cycles
          PROVE  /\ pc' \in [Actors -> Places] /\ cyc' \in [Actors -> AnyCycle]
                 /\ pc'.runner = pc.runner /\ cyc'.runner = cyc.runner
                 /\ pc'.reader = at /\ cyc'.reader = c
      BY <2>a DEF ReaderTo
    <2> USE DEF ReaderTo
    <2>1. ASSUME NEW frame \in Frames, ClaimCommand(frame) PROVE LocalOK'
      <3>1. frame.cycle \in Cycles
        BY <2>1, FrameHasCycle DEF ClaimCommand
      <3> QED BY <2>1, <3>1 DEF ClaimCommand
    <2>2. ASSUME NEW frame \in Frames, DuplicateCommand(frame) PROVE LocalOK'
      <3>1. frame.cycle \in Cycles
        BY <2>2, FrameHasCycle DEF DuplicateCommand
      <3>2. CASE ledger[frame.cycle] = "completed"
        <4>1. ReaderTo("ack", frame.cycle)
          BY <2>2, <3>2 DEF DuplicateCommand
        <4> QED BY <2>2, <2>a, <3>1, <4>1 DEF DuplicateCommand
      <3>3. CASE ledger[frame.cycle] # "completed"
        BY <2>2, <3>3 DEF DuplicateCommand
      <3> QED BY <3>2, <3>3
    <2>3. ASSUME NEW frame \in Frames, ReceiveCycleAck(frame) PROVE LocalOK'
      BY <2>3 DEF ReceiveCycleAck
    <2>4. ASSUME NEW frame \in Frames, ReceiveTraitsRequest(frame) PROVE LocalOK'
      BY <2>4 DEF ReceiveTraitsRequest
    <2>5. CASE AddJob
      <3>1. Append(jobs, cyc.reader) \in Seq(Cycles)
        BY <2>5 DEF AddJob
      <3> QED BY <2>5, <3>1 DEF AddJob
    <2>6. CASE AddFails
      BY <2>6 DEF AddFails
    <2>7. ASSUME NEW c \in Cycles, ReplayCycle(c) PROVE LocalOK'
      <3>1. todo' \in [Cycles -> SUBSET Kinds]
        BY <2>7 DEF ReplayCycle
      <3>2. PICK at \in {"ack", "idle", "replay"}, d \in AnyCycle :
              ReaderTo(at, d) /\ (at = "ack" => d \in Cycles)
        BY <2>7 DEF ReplayCycle
      <3>3. /\ pc' \in [Actors -> Places] /\ cyc' \in [Actors -> AnyCycle]
            /\ pc'.runner = pc.runner /\ cyc'.runner = cyc.runner
            /\ pc'.reader \in {"ack", "idle", "replay"}
            /\ pc'.reader = "ack" => cyc'.reader \in Cycles
        BY <2>a, <3>2
      <3> QED BY <2>7, <3>1, <3>3 DEF ReplayCycle
    <2>8. CASE ModelAckBy("reader")
      BY <1>k, <2>8
    <2> QED BY <1>3, <2>1, <2>2, <2>3, <2>4, <2>5, <2>6, <2>7, <2>8 DEF Reader
  <1>4. CASE Execute \/ RefuseLaunch
    <2> USE DEF RunnerTo, Dispatch, JournalAndSend, Kinds
    <2>1. CASE FetchJob
      <3>1. Head(jobs) \in Cycles /\ Tail(jobs) \in Seq(Cycles) /\ Append(inflight, Head(jobs)) \in Seq(Cycles)
        BY <2>1 DEF FetchJob
      <3> QED BY <2>1, <3>1 DEF FetchJob
    <2>2. CASE CheckCompleted \/ StartModel
      BY <2>2 DEF CheckCompleted, StartModel
    <2>a. ASSUME NEW kind \in Kinds, JournalAndSend(kind), pc.runner # "idle"
          PROVE  journal' \in [Cycles -> SUBSET Kinds] /\ emitted' \subseteq Cycles
      BY <2>a
    <2>3. CASE ActionEvent
      <3>1. journal' \in [Cycles -> SUBSET Kinds] /\ emitted' \subseteq Cycles
        BY <2>3, <2>a DEF ActionEvent
      <3> QED BY <2>3, <3>1 DEF ActionEvent
    <2>4. CASE RefuseLaunch
      <3>1. journal' \in [Cycles -> SUBSET Kinds] /\ emitted' \subseteq Cycles
        BY <2>4, <2>a DEF RefuseLaunch
      <3>2. ledger' \in [Cycles -> {"none", "accepted", "running", "completed"}]
        BY <2>4 DEF RefuseLaunch
      <3> QED BY <2>4, <3>1, <3>2 DEF RefuseLaunch
    <2>7. CASE EndModel
      <3>1. journal' \in [Cycles -> SUBSET Kinds] /\ emitted' \subseteq Cycles
        BY <2>7, <2>a DEF EndModel
      <3> QED BY <2>7, <3>1 DEF EndModel
    <2>5. CASE ModelAckBy("runner")
      BY <1>k, <2>5
    <2>6. CASE AckJob
      <3>1. SubSeq(inflight, 1, Len(inflight) - 1) \in Seq(Cycles)
        OBVIOUS
      <3> QED BY <2>6, <3>1 DEF AckJob
    <2> QED BY <1>4, <2>1, <2>2, <2>3, <2>4, <2>5, <2>6, <2>7 DEF Execute
  <1>5. CASE Connection
    BY <1>5 DEF Connection, Connect, SendEhlo, ReaderTo, Nothing
  <1>6. CASE LinkDrop
    BY <1>6 DEF LinkDrop, CutConnection
  <1>7. CASE MinionCrash
    <2>1. inflight \o jobs \in Seq(Cycles)
      OBVIOUS
    <2> QED BY <1>7, <2>1 DEF MinionCrash, CutConnection, Nothing
  <1>8. CASE MasterCrash
    BY <1>8 DEF MasterCrash
  <1>9. CASE UNCHANGED vars
    BY <1>9 DEF vars
  <1> QED BY <1>1, <1>2, <1>3, <1>4, <1>5, <1>6, <1>7, <1>8, <1>9 DEF Next

LEMMA TypeNext == TypeOK /\ Named /\ [Next]_vars => TypeOK' /\ Named'
  <1> SUFFICES ASSUME TypeOK, Named, [Next]_vars PROVE TypeOK' /\ Named'
    OBVIOUS
  <1>1. WireOK /\ LocalOK
    BY TwoParts
  <1>2. WireOK' /\ LocalOK'
    BY <1>1, WireNext, LocalNext
  <1>3. (TypeOK /\ Named)' <=> (WireOK /\ LocalOK)'
    BY TwoParts, PTL
  <1> QED BY <1>2, <1>3

-----------------------------------------------------------------------------
(* A ModelAck, wherever it is prepared, kept, repeated or read, is for a   *)
(* command that ran.                                                       *)
Backed ==
    /\ cleared \subseteq ran
    /\ \A c \in Cycles : (journal[c] \cup todo[c]) \cap {"modelAck", "modelEvent"} # {} => c \in ran
    /\ \A c \in Cycles : ledger[c] = "completed" => c \in ran
    /\ \A a \in Actors : pc[a] \in Acking => cyc[a] \in ran
Justified == Backed /\ \A f \in Underway : f.kind = "modelAck" => f.cycle \in ran

LEMMA RanGrows == ASSUME [Next]_vars PROVE ran \subseteq ran'
  BY DEF Next, vars, Submission, Enqueue, BroadcastCommand, MasterTask, HandleEhlo, HandleTraits, HandleEvent,
      HandleModelAck, ReplayCommand, RecordEvent, Reader, ClaimCommand, DuplicateCommand, ReceiveCycleAck,
      ReceiveTraitsRequest, AddJob, ReplayCycle, ModelAckBy, JournalAck, MarkComplete, LedgerComplete,
      SendModelAck, AckStep, Execute, FetchJob, CheckCompleted, StartModel, ActionEvent, EndModel, AckJob,
      Dispatch, RunnerTo, AddFails, RefuseLaunch, Connection, Connect, SendEhlo, LinkDrop, MinionCrash,
      MasterCrash, historyVars

\* No step makes, repeats or obeys a ModelAck for a command that did not run.
LEMMA JustifiedNext ==
    ASSUME TypeOK, WireOK, LocalOK, Justified, [Next]_vars
    PROVE  Justified'
  <1>1. \A f \in Underway' : f.kind = "modelAck" => f.cycle \in ran'
    BY RanGrows, WireNext DEF Traffic, Justified, Backed, Acking
  <1> SUFFICES Backed'
    BY <1>1 DEF Justified
  <1>0. /\ Backed
        /\ pc \in [Actors -> Places] /\ cyc \in [Actors -> AnyCycle]
        /\ journal \in [Cycles -> SUBSET Kinds] /\ todo \in [Cycles -> SUBSET Kinds]
        /\ ledger \in [Cycles -> {"none", "accepted", "running", "completed"}]
        /\ pc.runner # "idle" => cyc.runner \in Cycles
        /\ pc.reader \in Acking \cup {"add"} => cyc.reader \in Cycles
    BY DEF Justified, LocalOK
  <1> USE DEF masterVars, storeVars, actorVars, linkVars, historyVars, Acking, Actors
  <1>s. ASSUME UNCHANGED <<ledger, journal, pc, cyc, todo, cleared, ran>> PROVE Backed'
    BY <1>0, <1>s DEF Backed
  <1>8. ASSUME NEW b \in Actors, ModelAckBy(b) PROVE Backed'
    <2> USE DEF AckStep
    <2>1. cyc[b] \in ran /\ cyc[b] \in Cycles
      BY <1>0, <1>8 DEF ModelAckBy, JournalAck, MarkComplete, LedgerComplete, SendModelAck, Backed
    <2>2. CASE JournalAck(b)
      BY <1>0, <2>1, <2>2 DEF JournalAck, Backed
    <2>3. CASE MarkComplete(b)
      BY <1>0, <2>1, <2>3 DEF MarkComplete, Backed
    <2>4. CASE LedgerComplete(b)
      BY <1>0, <2>1, <2>4 DEF LedgerComplete, Backed
    <2>5. CASE SendModelAck(b)
      <3>1. pc'[b] \notin Acking /\ \A a \in Actors \ {b} : pc'[a] = pc[a] /\ cyc'[a] = cyc[a]
        BY <1>0, <2>5 DEF SendModelAck, AckSent
      <3> QED BY <1>0, <2>5, <3>1 DEF SendModelAck, Backed
    <2> QED BY <1>8, <2>2, <2>3, <2>4, <2>5 DEF ModelAckBy
  <1>2. CASE Submission
    BY <1>2, <1>s DEF Submission, Enqueue, BroadcastCommand
  <1>3. CASE MasterTask
    <2>1. ASSUME NEW frame \in Spawned, HandleModelAck(frame) PROVE Backed'
      <3>1. FrameOf(frame) \in Underway
        BY <2>1, ProcessTakes DEF HandleModelAck
      <3>2. frame.cycle \in ran
        BY <2>1, <3>1 DEF HandleModelAck, FrameOf, Justified
      <3> QED BY <1>0, <2>1, <3>2 DEF HandleModelAck, Backed
    <2> QED BY <1>3, <1>s, <2>1 DEF MasterTask, HandleEhlo, HandleTraits, HandleEvent, ReplayCommand, RecordEvent
  <1>4. CASE Reader
    <2> USE DEF ReaderTo
    <2>1. ASSUME NEW frame \in Frames, ClaimCommand(frame) PROVE Backed'
      <3>1. frame.cycle \in Cycles
        BY <2>1, FrameHasCycle DEF ClaimCommand
      <3> QED BY <1>0, <2>1, <3>1 DEF ClaimCommand, Backed
    <2>2. ASSUME NEW frame \in Frames, DuplicateCommand(frame) PROVE Backed'
      <3>1. frame.cycle \in Cycles
        BY <2>2, FrameHasCycle DEF DuplicateCommand
      <3>2. CASE ledger[frame.cycle] = "completed"
        BY <1>0, <2>2, <3>1, <3>2 DEF DuplicateCommand, Backed
      <3>3. CASE ledger[frame.cycle] # "completed"
        BY <2>2, <3>3, <1>s DEF DuplicateCommand
      <3> QED BY <3>2, <3>3
    <2>3. ASSUME NEW frame \in Frames, ReceiveCycleAck(frame) PROVE Backed'
      BY <1>0, <2>3 DEF ReceiveCycleAck, Backed
    <2>4. ASSUME NEW frame \in Frames, ReceiveTraitsRequest(frame) PROVE Backed'
      BY <1>0, <2>4 DEF ReceiveTraitsRequest, Backed
    <2>5. CASE AddJob
      BY <1>0, <2>5 DEF AddJob, Backed
    <2>6. ASSUME NEW c \in Cycles, ReplayCycle(c) PROVE Backed'
      <3>1. CASE "modelEvent" \in todo[c] /\ "modelAck" \notin todo[c]
        BY <1>0, <2>6, <3>1 DEF ReplayCycle, Backed
      <3>2. CASE ~("modelEvent" \in todo[c] /\ "modelAck" \notin todo[c])
        BY <1>0, <2>6, <3>2 DEF ReplayCycle, Backed
      <3> QED BY <3>1, <3>2
    <2> QED BY <1>4, <1>8, <2>1, <2>2, <2>3, <2>4, <2>5, <2>6 DEF Reader
  <1>5. CASE Execute
    <2> USE DEF RunnerTo, Dispatch, JournalAndSend
    <2>1. CASE FetchJob \/ CheckCompleted \/ StartModel \/ AckJob
      BY <1>0, <2>1 DEF FetchJob, CheckCompleted, StartModel, AckJob, Backed
    <2>2. CASE ActionEvent
      BY <1>0, <2>2 DEF ActionEvent, Backed
    <2>3. CASE EndModel
      BY <1>0, <2>3 DEF EndModel, Backed
    <2> QED BY <1>5, <1>8, <2>1, <2>2, <2>3 DEF Execute
  <1>6. CASE AddFails \/ RefuseLaunch
    BY <1>0, <1>6 DEF AddFails, RefuseLaunch, RunnerTo, Dispatch, JournalAndSend, ReaderTo, Backed
  <1>7. CASE Connection \/ LinkDrop \/ MinionCrash \/ MasterCrash \/ UNCHANGED vars
    BY <1>0, <1>7, DeliveryAssumption DEF Connection, Connect, SendEhlo, ReaderTo, Nothing, LinkDrop, MinionCrash, MasterCrash, vars, Backed
  <1> QED BY <1>2, <1>3, <1>4, <1>5, <1>6, <1>7 DEF Next


-----------------------------------------------------------------------------
(* An event is recorded by the task that claimed its identity, and that    *)
(* task holds the lock until it is recorded.                               *)
ClaimFirst == \A c \in Cycles : /\ c \notin claimed => recorded[c] = 0
                                /\ c \in recording => c \in claimed /\ recorded[c] = 0
                                /\ recorded[c] <= 1

LEMMA ClaimNext ==
    ASSUME TypeOK, WireOK, LocalOK, ClaimFirst, [Next]_vars
    PROVE  ClaimFirst'
  <1>1. ASSUME NEW frame \in Spawned, HandleEvent(frame) PROVE ClaimFirst'
    <2>1. frame.cycle \in Cycles
      BY <1>1, FrameHasCycle DEF HandleEvent
    <2> QED BY <1>1, <2>1 DEF HandleEvent, Process, Lock, ClaimFirst
  <1>2. ASSUME NEW c \in Cycles, RecordEvent(c) PROVE ClaimFirst'
    <2>1. recorded \in [Cycles -> Nat]
      BY DEF LocalOK
    <2> QED BY <1>2, <2>1 DEF RecordEvent, ClaimFirst
  <1>3. CASE MasterCrash
    BY <1>3 DEF MasterCrash, ClaimFirst
  <1>4. CASE UNCHANGED <<claimed, recorded, recording>>
    BY <1>4 DEF ClaimFirst
  <1>5. CASE Submission \/ Reader \/ Execute \/ AddFails \/ RefuseLaunch
    BY <1>4, <1>5 DEF masterVars, Submission, Enqueue, BroadcastCommand, Reader, ClaimCommand,
       DuplicateCommand, ReceiveCycleAck, ReceiveTraitsRequest, AddJob, ReplayCycle, ModelAckBy, JournalAck,
       MarkComplete, LedgerComplete, SendModelAck, AckStep, Execute, FetchJob, CheckCompleted, StartModel,
       ActionEvent, EndModel, AckJob, Dispatch, RunnerTo, AddFails, RefuseLaunch
  <1>6. CASE Connection \/ LinkDrop \/ MinionCrash \/ UNCHANGED vars
    BY <1>4, <1>6 DEF masterVars, Connection, Connect, SendEhlo, LinkDrop, MinionCrash, vars
  <1>7. CASE MasterTask
    BY <1>1, <1>2, <1>4, <1>7 DEF MasterTask, HandleEhlo, HandleTraits, HandleModelAck, ReplayCommand, masterVars
  <1> QED BY <1>3, <1>5, <1>6, <1>7 DEF Next

-----------------------------------------------------------------------------
(* The minion's queue with the job in progress at its head.                *)
Line == inflight \o jobs

Held == inflight = IF pc.runner = "idle" THEN <<>> ELSE <<cyc.runner>>

Fetched == {"idle", "check", "dispatch"}

(* A cycle enters the queue once, by a claim, and is not started before it *)
(* is at the head and past Dispatch.                                       *)
Enlisted ==
    /\ \A i \in 1..Len(Line) : /\ ledger[Line[i]] # "none"
                               /\ Line[i] \in started => i = 1 /\ pc.runner \notin Fetched
    /\ pc.reader = "add" => /\ ledger[cyc.reader] # "none" /\ cyc.reader \notin started
                            /\ \A i \in 1..Len(Line) : Line[i] # cyc.reader
    /\ \A c \in Cycles : ledger[c] = "none" => c \notin started

Orderly == Held /\ OneJobPerCycle /\ Enlisted

\* What each operation on the queue does to the line.
LEMMA LineSteps ==
    ASSUME LocalOK, Held
    PROVE  /\ Line \in Seq(Cycles)
           /\ pc.runner # "idle" => Len(Line) >= 1 /\ Line[1] = cyc.runner
           /\ AddJob => Line' = Append(Line, cyc.reader)
           /\ AckJob => Line = <<cyc.runner>> \o Line'
           /\ FetchJob \/ MinionCrash \/ UNCHANGED <<jobs, inflight>> => Line' = Line
           /\ FetchJob => Held'
           /\ AckJob => Held'
  <1>0. jobs \in Seq(Cycles) /\ inflight \in Seq(Cycles) /\ pc \in [Actors -> Places]
        /\ cyc \in [Actors -> AnyCycle] /\ (pc.runner # "idle" => cyc.runner \in Cycles)
        /\ (pc.reader = "add" => cyc.reader \in Cycles)
    BY DEF LocalOK, Acking
  <1> USE DEF Actors
  <1>1. ASSUME FetchJob PROVE Line' = Line /\ Held'
    <2>1. inflight = <<>> /\ pc'.runner = "check" /\ cyc'.runner = Head(jobs)
          /\ inflight' = <<Head(jobs)>> /\ jobs' = Tail(jobs)
      BY <1>0, <1>1 DEF FetchJob, RunnerTo, Held
    <2>2. <<Head(jobs)>> \o Tail(jobs) = jobs /\ <<>> \o jobs = jobs
      BY <1>0, <1>1 DEF FetchJob
    <2> QED BY <2>1, <2>2 DEF Held, Line
  <1>2. ASSUME AckJob PROVE Line = <<cyc.runner>> \o Line' /\ Held'
    <2>1. inflight = <<cyc.runner>> /\ pc'.runner = "idle" /\ jobs' = jobs
      BY <1>0, <1>2 DEF AckJob, RunnerTo, Held
    <2>2. inflight' = <<>> /\ <<>> \o jobs = jobs
      BY <1>0, <1>2, <2>1 DEF AckJob
    <2> QED BY <1>2, <2>1, <2>2 DEF Held, Line
  <1>3. ASSUME AddJob PROVE Line' = Append(Line, cyc.reader)
    <2>1. inflight \o Append(jobs, cyc.reader) = Append(inflight \o jobs, cyc.reader)
      BY <1>0, <1>3 DEF AddJob
    <2> QED BY <1>3, <2>1 DEF AddJob, Line
  <1>4. ASSUME MinionCrash PROVE Line' = Line
    <2>1. <<>> \o (inflight \o jobs) = inflight \o jobs
      BY <1>0
    <2> QED BY <1>4, <2>1 DEF MinionCrash, Line
  <1>5. ASSUME UNCHANGED <<jobs, inflight>> PROVE Line' = Line
    BY <1>5 DEF Line
  <1>6. ASSUME pc.runner # "idle" PROVE Len(Line) >= 1 /\ Line[1] = cyc.runner
    <2>1. inflight = <<cyc.runner>>
      BY <1>6 DEF Held
    <2> QED BY <1>0, <2>1 DEF Line
  <1>7. Line \in Seq(Cycles)
    BY <1>0 DEF Line
  <1> QED BY <1>1, <1>2, <1>3, <1>4, <1>5, <1>6, <1>7

\* The job in progress is the one inflight.
LEMMA HeldNext ==
    ASSUME LocalOK, Held, [Next]_vars
    PROVE  Held'
  <1>0. pc \in [Actors -> Places] /\ cyc \in [Actors -> AnyCycle]
    BY DEF LocalOK
  <1> USE DEF Actors
  <1>s. ASSUME inflight' = inflight, pc'.runner = "idle" <=> pc.runner = "idle", cyc'.runner = cyc.runner
        PROVE  Held'
    BY <1>s DEF Held
  <1>1. CASE AddJob
    BY <1>0, <1>1, <1>s DEF AddJob, ReaderTo
  <1>4. CASE MinionCrash
    BY <1>4 DEF MinionCrash, Held
  <1>5. CASE Submission \/ MasterTask \/ Connection \/ LinkDrop \/ MasterCrash \/ UNCHANGED vars
    BY <1>0, <1>5, <1>s DEF Submission, Enqueue, BroadcastCommand, MasterTask, HandleEhlo, HandleTraits, HandleEvent,
       HandleModelAck, ReplayCommand, RecordEvent, Connection, Connect, SendEhlo, ReaderTo, LinkDrop, MasterCrash,
       storeVars, actorVars, vars
  <1>6. CASE Reader \/ AddFails
    <2>1. ASSUME ModelAckBy("reader") PROVE Held'
      BY <1>0, <1>s, <2>1 DEF ModelAckBy, JournalAck, MarkComplete, LedgerComplete, SendModelAck, AckStep
    <2>2. ASSUME NEW c \in Cycles, ReplayCycle(c) PROVE Held'
      BY <1>0, <1>s, <2>2 DEF ReplayCycle, ReaderTo, storeVars
    <2>3. ASSUME NEW frame \in Frames, \/ ClaimCommand(frame) \/ DuplicateCommand(frame)
                                       \/ ReceiveCycleAck(frame) \/ ReceiveTraitsRequest(frame)
          PROVE Held'
      BY <1>0, <1>s, <2>3 DEF ClaimCommand, DuplicateCommand, ReceiveCycleAck, ReceiveTraitsRequest,
         ReaderTo, storeVars, actorVars
    <2>4. CASE AddFails
      BY <1>0, <1>s, <2>4 DEF AddFails, ReaderTo
    <2> QED BY <1>1, <1>6, <2>1, <2>2, <2>3, <2>4 DEF Reader
  <1>7. CASE Execute \/ RefuseLaunch
    <2>1. ASSUME ModelAckBy("runner") PROVE Held'
      BY <1>0, <1>s, <2>1 DEF ModelAckBy, JournalAck, MarkComplete, LedgerComplete, SendModelAck, AckStep, AckSent
    <2>2. ASSUME CheckCompleted \/ StartModel \/ ActionEvent \/ EndModel \/ RefuseLaunch PROVE Held'
      BY <1>0, <1>s, <2>2 DEF CheckCompleted, StartModel, ActionEvent, EndModel, RefuseLaunch, Dispatch, RunnerTo, storeVars
    <2> QED BY <1>7, <2>1, <2>2, LineSteps DEF Execute
  <1> QED BY <1>4, <1>5, <1>6, <1>7 DEF Next

\* Every step keeps the line without repetition and its jobs unstarted behind the head.
LEMMA OrderlyNext ==
    ASSUME WireOK, TypeOK, LocalOK, Orderly, [Next]_vars
    PROVE  Orderly'
  <1>0. /\ pc \in [Actors -> Places] /\ cyc \in [Actors -> AnyCycle]
        /\ ledger \in [Cycles -> {"none", "accepted", "running", "completed"}]
        /\ pc.runner # "idle" => cyc.runner \in Cycles
        /\ pc.reader \in Acking \cup {"add"} => cyc.reader \in Cycles
        /\ started \subseteq Cycles
    BY DEF LocalOK
  <1>1. /\ Held /\ Line \in Seq(Cycles) /\ Held'
        /\ pc.runner # "idle" => Len(Line) >= 1 /\ Line[1] = cyc.runner
    BY LineSteps, HeldNext DEF Orderly
  <1>2. \A i \in 1..Len(Line) : Line[i] \in Cycles
    BY <1>1
  <1>3. \A i, j \in 1..Len(Line) : Line[i] = Line[j] => i = j
    BY DEF Orderly, OneJobPerCycle, Line
  <1>4. Enlisted
    BY DEF Orderly
  <1> DEFINE Goal == OneJobPerCycle' /\ Enlisted'
  <1> SUFFICES Goal
    BY <1>1 DEF Orderly
  <1> USE DEF Actors
  <1>k. ASSUME Line' = Line,
               started' \subseteq started,
               started' = {} \/ (pc.runner \notin Fetched => pc'.runner \notin Fetched),
               \A c \in Cycles : ledger[c] # "none" => ledger'[c] # "none",
               pc'.reader = "add" => pc.reader = "add" /\ cyc'.reader = cyc.reader
        PROVE  Goal
    <2>1. OneJobPerCycle'
      BY <1>3, <1>k DEF OneJobPerCycle, Line
    <2>2. \A i \in 1..Len(Line') : /\ ledger'[Line'[i]] # "none"
                                   /\ Line'[i] \in started' => i = 1 /\ pc'.runner \notin Fetched
      BY <1>2, <1>4, <1>k DEF Enlisted
    <2>3. pc'.reader = "add" => /\ ledger'[cyc'.reader] # "none" /\ cyc'.reader \notin started'
                                /\ \A i \in 1..Len(Line') : Line'[i] # cyc'.reader
      BY <1>0, <1>4, <1>k DEF Enlisted
    <2>4. \A c \in Cycles : ledger'[c] = "none" => c \notin started'
      BY <1>4, <1>k DEF Enlisted
    <2> QED BY <2>1, <2>2, <2>3, <2>4 DEF Enlisted
  <1>8. ASSUME NEW a \in Actors, ModelAckBy(a) PROVE Goal
    <2> USE DEF AckStep
    <2>1. /\ UNCHANGED <<jobs, inflight, started>>
          /\ ledger' = ledger \/ ledger' = [ledger EXCEPT ![cyc[a]] = IF @ = "none" THEN @ ELSE "completed"]
      BY <1>8 DEF ModelAckBy, JournalAck, MarkComplete, LedgerComplete, SendModelAck, historyVars
    <2>2. /\ pc'.reader = "add" => pc.reader = "add" /\ cyc'.reader = cyc.reader
          /\ pc.runner \notin Fetched => pc'.runner \notin Fetched
      BY <1>0, <1>8 DEF ModelAckBy, JournalAck, MarkComplete, LedgerComplete, SendModelAck, AckSent, Fetched
    <2>3. \A c \in Cycles : ledger[c] # "none" => ledger'[c] # "none"
      BY <1>0, <2>1
    <2> QED BY <1>1, <1>k, <2>1, <2>2, <2>3, LineSteps
  <1>5. CASE Submission \/ MasterTask \/ Connection \/ LinkDrop \/ MasterCrash \/ UNCHANGED vars
    <2>1. /\ UNCHANGED <<jobs, inflight, ledger, started>> /\ pc'.runner = pc.runner
          /\ pc'.reader = "add" => pc.reader = "add" /\ cyc'.reader = cyc.reader
      BY <1>0, <1>5 DEF Submission, Enqueue, BroadcastCommand, MasterTask, HandleEhlo, HandleTraits, HandleEvent,
       HandleModelAck, ReplayCommand, RecordEvent, Connection, Connect, SendEhlo, ReaderTo, LinkDrop, MasterCrash,
       storeVars, actorVars, historyVars, vars
    <2> QED BY <1>1, <1>k, <2>1, LineSteps
  <1>6. CASE MinionCrash
    <2>1. started' = {} /\ ledger' = ledger /\ pc'.reader = "off"
      BY <1>6 DEF MinionCrash
    <2> QED BY <1>1, <1>6, <1>k, <2>1, LineSteps
  <1>7. CASE Reader \/ AddFails
    <2>1. ASSUME NEW frame \in Frames, ClaimCommand(frame) PROVE Goal
      <3>1. frame.cycle \in Cycles
        BY <2>1, FrameHasCycle DEF ClaimCommand
      <3>2. /\ Line' = Line /\ started' = started /\ pc'.runner = pc.runner
            /\ pc'.reader = "add" /\ cyc'.reader = frame.cycle
            /\ ledger[frame.cycle] = "none" /\ ledger' = [ledger EXCEPT ![frame.cycle] = "accepted"]
        BY <1>0, <1>1, <2>1, LineSteps DEF ClaimCommand, ReaderTo, historyVars
      <3>3. OneJobPerCycle'
        BY <1>3, <3>2 DEF OneJobPerCycle, Line
      <3> QED BY <1>0, <1>2, <1>4, <3>1, <3>2, <3>3 DEF Enlisted
    <2>2. ASSUME NEW frame \in Frames,
                 DuplicateCommand(frame) \/ ReceiveCycleAck(frame) \/ ReceiveTraitsRequest(frame)
          PROVE  Goal
      <3>1. /\ UNCHANGED <<jobs, inflight, ledger, started>> /\ pc'.runner = pc.runner
            /\ pc'.reader = "add" => pc.reader = "add" /\ cyc'.reader = cyc.reader
        BY <1>0, <2>2 DEF DuplicateCommand, ReceiveCycleAck, ReceiveTraitsRequest, ReaderTo, storeVars, actorVars, historyVars
      <3> QED BY <1>1, <1>k, <3>1, LineSteps
    <2>3. CASE AddJob
      <3>1. /\ Line' = Append(Line, cyc.reader) /\ UNCHANGED <<ledger, started>>
            /\ pc.reader = "add" /\ pc'.reader = "idle" /\ pc'.runner = pc.runner
        BY <1>0, <1>1, <2>3, LineSteps DEF AddJob, ReaderTo, historyVars
      <3>2. \A i \in 1..Len(Line') : \/ i \in 1..Len(Line) /\ Line'[i] = Line[i]
                                     \/ i = Len(Line) + 1 /\ Line'[i] = cyc.reader
        BY <1>1, <3>1
      <3>3. \A i, j \in 1..Len(Line') : Line'[i] = Line'[j] => i = j
        BY <1>3, <1>4, <3>1, <3>2 DEF Enlisted
      <3>4. OneJobPerCycle'
        BY <3>3 DEF OneJobPerCycle, Line
      <3> QED BY <1>0, <1>4, <3>1, <3>2, <3>4 DEF Enlisted
    <2>4. CASE AddFails
      <3>1. /\ Line' = Line /\ started' = started /\ pc.reader = "add" /\ pc'.reader = "idle"
            /\ pc'.runner = pc.runner /\ ledger' = [ledger EXCEPT ![cyc.reader] = "none"]
        BY <1>0, <1>1, <2>4, LineSteps DEF AddFails, ReaderTo, historyVars
      <3>2. OneJobPerCycle'
        BY <1>3, <3>1 DEF OneJobPerCycle, Line
      <3> QED BY <1>0, <1>2, <1>4, <3>1, <3>2 DEF Enlisted
    <2>5. ASSUME NEW c \in Cycles, ReplayCycle(c) PROVE Goal
      <3>1. /\ UNCHANGED <<jobs, inflight, ledger, started>> /\ pc'.runner = pc.runner
            /\ pc'.reader # "add"
        BY <1>0, <2>5 DEF ReplayCycle, ReaderTo, storeVars, historyVars
      <3> QED BY <1>1, <1>k, <3>1, LineSteps
    <2> QED BY <1>7, <1>8, <2>1, <2>2, <2>3, <2>4, <2>5 DEF Reader
  <1>9. CASE Execute \/ RefuseLaunch
    <2> USE DEF RunnerTo, Dispatch, Fetched
    <2>1. CASE FetchJob
      <3>1. UNCHANGED <<ledger, started>> /\ pc.runner = "idle" /\ pc'.reader = pc.reader /\ cyc'.reader = cyc.reader
        BY <1>0, <2>1 DEF FetchJob
      <3> QED BY <1>1, <1>k, <2>1, <3>1, LineSteps
    <2>2. CASE CheckCompleted \/ ActionEvent \/ EndModel
      <3>1. /\ UNCHANGED <<jobs, inflight, ledger, started>> /\ pc'.reader = pc.reader /\ cyc' = cyc
            /\ pc.runner \notin Fetched => pc'.runner \notin Fetched
        BY <1>0, <2>2 DEF CheckCompleted, ActionEvent, EndModel, storeVars
      <3> QED BY <1>1, <1>k, <3>1, LineSteps
    <2>3. CASE RefuseLaunch
      <3>1. /\ UNCHANGED <<jobs, inflight, started>> /\ pc'.reader = pc.reader /\ cyc' = cyc /\ pc.runner = "dispatch"
            /\ ledger' = [ledger EXCEPT ![cyc.runner] = IF @ = "none" THEN @ ELSE "running"]
        BY <1>0, <2>3 DEF RefuseLaunch, JournalAndSend
      <3> QED BY <1>0, <1>1, <1>k, <3>1, LineSteps
    <2>4. CASE StartModel
      <3>1. /\ Line' = Line /\ pc'.reader = pc.reader /\ cyc' = cyc
            /\ pc.runner = "dispatch" /\ pc'.runner = "actions"
            /\ started' = started \cup {cyc.runner}
            /\ ledger' = [ledger EXCEPT ![cyc.runner] = IF @ = "none" THEN @ ELSE "running"]
        BY <1>0, <1>1, <2>4, LineSteps DEF StartModel
      <3>2. \A i \in 1..Len(Line) : Line[i] = cyc.runner => i = 1
        BY <1>1, <1>3, <3>1
      <3>3. ledger[cyc.runner] # "none" /\ (pc.reader = "add" => cyc.reader # cyc.runner)
        BY <1>1, <1>4, <3>1 DEF Enlisted
      <3>4. OneJobPerCycle'
        BY <1>3, <3>1 DEF OneJobPerCycle, Line
      <3>5. \A c \in Cycles : (ledger'[c] = "none") <=> (ledger[c] = "none")
        BY <1>0, <3>1, <3>3
      <3>6. \A i \in 1..Len(Line') : /\ ledger'[Line'[i]] # "none"
                                     /\ Line'[i] \in started' => i = 1 /\ pc'.runner \notin Fetched
        BY <1>2, <1>4, <3>1, <3>2, <3>5 DEF Enlisted
      <3>7. pc'.reader = "add" => /\ ledger'[cyc'.reader] # "none" /\ cyc'.reader \notin started'
                                  /\ \A i \in 1..Len(Line') : Line'[i] # cyc'.reader
        BY <1>0, <1>4, <3>1, <3>3, <3>5 DEF Enlisted
      <3>8. \A c \in Cycles : ledger'[c] = "none" => c \notin started'
        BY <1>4, <3>1, <3>3, <3>5 DEF Enlisted
      <3> QED BY <3>4, <3>6, <3>7, <3>8 DEF Enlisted
    <2>5. CASE AckJob
      <3>1. /\ Line = <<cyc.runner>> \o Line' /\ UNCHANGED <<ledger, started>>
            /\ pc'.reader = pc.reader /\ cyc'.reader = cyc.reader
        BY <1>0, <1>1, <2>5, LineSteps DEF AckJob
      <3>2. Line' \in Seq(Cycles)
        BY <2>5, LocalNext, LineSteps, HeldNext, <1>1 DEF Line, LocalOK
      <3>3. \A i \in 1..Len(Line') : i + 1 \in 1..Len(Line) /\ Line'[i] = Line[i + 1]
        BY <3>1, <3>2
      <3>4. \A i, j \in 1..Len(Line') : Line'[i] = Line'[j] => i = j
        BY <1>3, <3>2, <3>3
      <3>5. OneJobPerCycle'
        BY <3>4 DEF OneJobPerCycle, Line
      <3>6. \A i \in 1..Len(Line') : ledger[Line'[i]] # "none" /\ Line'[i] \notin started
        BY <1>4, <3>2, <3>3 DEF Enlisted
      <3> QED BY <1>0, <1>4, <3>1, <3>3, <3>5, <3>6 DEF Enlisted
    <2> QED BY <1>8, <1>9, <2>1, <2>2, <2>3, <2>4, <2>5 DEF Execute
  <1> QED BY <1>5, <1>6, <1>7, <1>9 DEF Next

-----------------------------------------------------------------------------
(* Only what the operator submitted is sent, claimed and executed.         *)
Submitted == {c \in Cycles : cmdq[c] # "none"} \cup cleared
Running == IF pc.runner \in {"actions", "model"} THEN {cyc.runner} ELSE {}

Asked ==
    /\ toBcast \cup replaying \cup ran \subseteq Submitted
    /\ \A f \in Frames : f.kind = "command" => f.cycle \in Submitted
    /\ \A c \in Cycles : ledger[c] # "none" => c \in Submitted

\* What a step does to the queued commands and the cleared ones.
LEMMA CommandSteps ==
    ASSUME TypeOK, WireOK, LocalOK, Justified, [Next]_vars
    PROVE  \/ \E c \in Cycles : Enqueue(c) /\ Submitted' = Submitted \cup {c}
           \/ \E c \in ran \cap Cycles :
                /\ Submitted' = Submitted \cup {c} /\ cleared' = cleared \cup {c}
                /\ UNCHANGED <<toBcast, replaying, actorVars, ledger, ran, started>> /\ Frames' \subseteq Frames \cup {[kind |-> "cycleAck", cycle |-> c]}
           \/ Submitted' = Submitted /\ cleared' = cleared
  <1> DEFINE Goal == \/ \E c \in Cycles : Enqueue(c) /\ Submitted' = Submitted \cup {c}
                     \/ \E c \in ran \cap Cycles :
                          /\ Submitted' = Submitted \cup {c} /\ cleared' = cleared \cup {c}
                          /\ UNCHANGED <<toBcast, replaying, actorVars, ledger, ran, started>>
                          /\ Frames' \subseteq Frames \cup {[kind |-> "cycleAck", cycle |-> c]}
                     \/ Submitted' = Submitted /\ cleared' = cleared
  <1> SUFFICES Goal
    OBVIOUS
  <1>0. cmdq \in [Cycles -> {"none", "pending", "replayed"}]
    BY DEF LocalOK
  <1>1. ASSUME NEW c \in Cycles, Enqueue(c) PROVE Goal
    <2>1. Submitted' = Submitted \cup {c}
      BY <1>0, <1>1 DEF Enqueue, Submitted, historyVars
    <2> QED BY <1>1, <2>1
  <1>2. ASSUME NEW frame \in Spawned, HandleModelAck(frame) PROVE Goal
    <2>1. FrameOf(frame) \in Underway /\ frame.cycle \in Cycles
      BY <1>2, ProcessTakes, FrameHasCycle DEF HandleModelAck
    <2>2. frame.cycle \in ran
      BY <1>2, <2>1 DEF HandleModelAck, FrameOf, Justified
    <2>3. Submitted' = Submitted \cup {frame.cycle}
      BY <1>0, <1>2, <2>1 DEF HandleModelAck, Submitted
    <2>4. Frames' \subseteq Frames \cup {[kind |-> "cycleAck", cycle |-> frame.cycle]}
      <3>1. CASE direct' = direct
        BY <1>2, <3>1 DEF HandleModelAck, Frames
      <3>2. CASE SendDirect("cycleAck", frame.cycle)
        BY <1>2, <2>1, <3>2, DirectAdds DEF HandleModelAck
      <3> QED BY <1>2, <3>1, <3>2 DEF HandleModelAck
    <2> QED BY <1>2, <2>1, <2>2, <2>3, <2>4 DEF HandleModelAck, storeVars, actorVars
  <1>3. ASSUME NEW c \in Cycles, ReplayCommand(c) PROVE Goal
    BY <1>0, <1>3 DEF ReplayCommand, Submitted, historyVars
  <1>4. CASE UNCHANGED <<cmdq, cleared>>
    BY <1>4 DEF Submitted
  <1>5. CASE Reader \/ Execute \/ AddFails \/ RefuseLaunch
    BY <1>4, <1>5 DEF masterVars, historyVars, Reader, ClaimCommand, DuplicateCommand, ReceiveCycleAck,
       ReceiveTraitsRequest, AddJob, ReplayCycle, ModelAckBy, JournalAck, MarkComplete, LedgerComplete,
       SendModelAck, AckStep, Execute, FetchJob, CheckCompleted, StartModel, ActionEvent, EndModel, AckJob,
       Dispatch, RunnerTo, AddFails, RefuseLaunch
  <1>6. CASE Connection \/ LinkDrop \/ MinionCrash \/ MasterCrash \/ UNCHANGED vars
    BY <1>4, <1>6 DEF masterVars, historyVars, Connection, Connect, SendEhlo, LinkDrop, MinionCrash,
       MasterCrash, vars
  <1>7. CASE MasterTask \/ Submission
    BY <1>1, <1>2, <1>3, <1>4, <1>7 DEF MasterTask, HandleEhlo, HandleTraits, HandleEvent, RecordEvent,
       Submission, BroadcastCommand, masterVars, historyVars
  <1> QED BY <1>5, <1>6, <1>7 DEF Next

\* What is queued, sent, claimed or executed was submitted, and stays so.
LEMMA AskedNext ==
    ASSUME TypeOK, WireOK, LocalOK, Justified, Orderly, Asked, [Next]_vars
    PROVE  Asked'
  <1>0. /\ pc \in [Actors -> Places] /\ cyc \in [Actors -> AnyCycle]
        /\ cmdq \in [Cycles -> {"none", "pending", "replayed"}]
        /\ ledger \in [Cycles -> {"none", "accepted", "running", "completed"}]
    BY DEF LocalOK
  <1>1. Submitted \subseteq Submitted'
    BY CommandSteps
  <1>2. \A f \in Frames' : f.kind = "command" => f.cycle \in Submitted'
    BY <1>1, WireNext DEF Traffic, Asked
  <1>h. /\ pc.runner # "idle" => ledger[cyc.runner] # "none" /\ cyc.runner \in Cycles
        /\ pc.reader \in Acking => cyc.reader \in ran
    <2>1. pc.runner # "idle" => cyc.runner \in Cycles /\ 1 \in 1..Len(Line) /\ Line[1] = cyc.runner
      BY LineSteps DEF Orderly, LocalOK
    <2> QED BY <2>1 DEF Orderly, Enlisted, Justified, Backed, Actors
  <1>a. pc.runner # "idle" => cyc.runner \in Submitted
    BY <1>h DEF Asked
  <1>s. ASSUME toBcast' \subseteq toBcast, replaying' \subseteq replaying, ran' = ran,
               \A c \in Cycles : ledger'[c] # "none" => ledger[c] # "none"
        PROVE  Asked'
    BY <1>1, <1>2, <1>s DEF Asked
  <1> USE DEF masterVars, storeVars, actorVars, linkVars, historyVars
  <1>8. ASSUME NEW b \in Actors, ModelAckBy(b) PROVE Asked'
    <2>1. /\ UNCHANGED <<toBcast, replaying, ran>>
          /\ ledger' = ledger \/ ledger' = [ledger EXCEPT ![cyc[b]] = IF @ = "none" THEN @ ELSE "completed"]
      BY <1>8 DEF ModelAckBy, JournalAck, MarkComplete, LedgerComplete, SendModelAck, AckStep
    <2>2. \A c \in Cycles : ledger'[c] # "none" => ledger[c] # "none"
      BY <1>0, <2>1
    <2> QED BY <1>s, <2>1, <2>2
  <1>3. CASE Submission
    <2>1. ASSUME NEW c \in Cycles, Enqueue(c) PROVE Asked'
      <3>1. c \in Submitted'
        BY <1>0, <2>1 DEF Enqueue, Submitted
      <3> QED BY <1>1, <1>2, <2>1, <3>1 DEF Enqueue, Asked
    <2> QED BY <1>3, <1>s, <2>1 DEF Submission, BroadcastCommand
  <1>4. CASE MasterTask
    <2>1. ASSUME NEW frame \in Spawned, HandleTraits(frame) PROVE Asked'
      <3>1. replaying' \subseteq Submitted'
        BY <1>1, <2>1 DEF HandleTraits, Asked, Submitted
      <3> QED BY <1>1, <1>2, <2>1, <3>1 DEF HandleTraits, Asked
    <2> QED BY <1>4, <1>s, <2>1 DEF MasterTask, HandleEhlo, HandleEvent, HandleModelAck, ReplayCommand, RecordEvent
  <1>5. CASE Reader \/ AddFails
    <2>1. ASSUME NEW frame \in Frames, ClaimCommand(frame) PROVE Asked'
      <3>1. frame.cycle \in Submitted'
        BY <1>1, <2>1 DEF ClaimCommand, Asked
      <3>2. \A c \in Cycles : ledger'[c] # "none" => ledger[c] # "none" \/ c = frame.cycle
        BY <1>0, <2>1 DEF ClaimCommand
      <3> QED BY <1>1, <1>2, <2>1, <3>1, <3>2 DEF ClaimCommand, Asked
    <2>2. CASE AddFails
      <3>1. \A c \in Cycles : ledger'[c] # "none" => ledger[c] # "none"
        BY <1>0, <2>2 DEF AddFails
      <3> QED BY <1>s, <2>2, <3>1 DEF AddFails
    <2> QED BY <1>5, <1>8, <1>s, <2>1, <2>2 DEF Reader, DuplicateCommand, ReceiveCycleAck, ReceiveTraitsRequest,
          AddJob, ReplayCycle, Actors
  <1>6. CASE Execute \/ RefuseLaunch
    <2> USE DEF RunnerTo
    <2>1. CASE EndModel
      <3>1. ran' = ran \cup {cyc.runner} /\ pc.runner # "idle" /\ UNCHANGED <<toBcast, replaying, ledger>>
        BY <2>1 DEF EndModel
      <3> QED BY <1>1, <1>2, <1>a, <3>1 DEF Asked
    <2>2. CASE StartModel \/ RefuseLaunch
      <3>1. \A c \in Cycles : ledger'[c] # "none" => ledger[c] # "none"
        BY <1>0, <2>2 DEF StartModel, RefuseLaunch, Dispatch
      <3> QED BY <1>s, <2>2, <3>1 DEF StartModel, RefuseLaunch, Dispatch
    <2> QED BY <1>6, <1>8, <1>s, <2>1, <2>2 DEF Execute, FetchJob, CheckCompleted, ActionEvent, AckJob, Actors
  <1>7. CASE Connection \/ LinkDrop \/ MinionCrash \/ MasterCrash \/ UNCHANGED vars
    BY <1>7, <1>s DEF Connection, Connect, SendEhlo, LinkDrop, MinionCrash, CutConnection, MasterCrash, vars
  <1> QED BY <1>3, <1>4, <1>5, <1>6, <1>7 DEF Next

-----------------------------------------------------------------------------
(* The inductive invariant and the theorems.                               *)
Inv == TypeOK /\ Named /\ Justified /\ ClaimFirst /\ Orderly /\ Asked

LEMMA InvInit == Init => Inv
  <1> SUFFICES ASSUME Init PROVE Inv
    OBVIOUS
  <1>1. TypeOK /\ Named
    BY TypeInit
  <1>2. Underway = {} /\ Frames = {}
    BY DEF Init, Underway, OnWire, Frames
  <1>3. Justified
    BY <1>2 DEF Init, Justified, Backed, Nothing, Acking, Actors
  <1>4. ClaimFirst
    BY DEF Init, ClaimFirst
  <1>5. Orderly
    BY DEF Init, Orderly, Held, OneJobPerCycle, Enlisted, Line
  <1>6. Asked
    BY <1>2 DEF Init, Asked
  <1> QED BY <1>1, <1>3, <1>4, <1>5, <1>6 DEF Inv

LEMMA InvNext == Inv /\ [Next]_vars => Inv'
  <1> SUFFICES ASSUME Inv, [Next]_vars PROVE Inv'
    OBVIOUS
  <1>1. WireOK /\ LocalOK
    BY TwoParts DEF Inv
  <1> QED BY <1>1, TypeNext, JustifiedNext, ClaimNext, OrderlyNext, AskedNext DEF Inv

LEMMA InvHolds == Spec => []Inv
  BY InvInit, InvNext, PTL DEF Spec

\* The state of the two programs and of what is between them keeps its types, for any number
\* of commands, lost connections, crashes and failures.
THEOREM DeliveryTyped == Spec => []TypeOK
  <1>1. Inv => TypeOK
    BY DEF Inv
  <1> QED BY InvHolds, <1>1, PTL

\* on_model_ack clears a queued command only after the minion executed it to its end.
THEOREM ClearedHasRun == Spec => []ClearedOnlyAfterRun
  <1>1. Inv => ClearedOnlyAfterRun
    BY DEF Inv, Justified, Backed, ClearedOnlyAfterRun
  <1> QED BY InvHolds, <1>1, PTL

\* claim_inbound_command and the reader's add put at most one job of a cycle into the queue.
THEOREM QueuedOnce == Spec => []OneJobPerCycle
  <1>1. Inv => OneJobPerCycle
    BY DEF Inv, Orderly
  <1> QED BY InvHolds, <1>1, PTL

\* claim_replay_key lets the master record an event at most once.
THEOREM RecordedOnce == Spec => []EventRecordedOnce
  <1>1. Inv => EventRecordedOnce
    BY DEF Inv, ClaimFirst, EventRecordedOnce
  <1> QED BY InvHolds, <1>1, PTL

(* Until the minion crashes, what is claimed stays in the queue to the end *)
(* of its execution, unless its launch is refused.                         *)
FaultCounts == [drops : Nat, crashes : Nat, masterCrashes : Nat, failures : Nat]

Tended ==
    /\ completed \subseteq ran /\ ran \subseteq started
    /\ pc.runner \in {"actions", "model"} => cyc.runner \in started
    /\ pc.runner \in {"send", "finish"} => ledger[cyc.runner] = "completed" \/ Refused(cyc.runner)
    /\ \A c \in Cycles : ledger[c] \in {"accepted", "running"} =>
         c \in Queued \/ (pc.reader = "add" /\ cyc.reader = c) \/ Refused(c)
    /\ faults.failures = 0 => emitted \subseteq started

\* What is left of it without a refused launch.
Kept ==
    /\ completed \subseteq ran /\ ran \subseteq started
    /\ pc.runner \in {"send", "finish"} => ledger[cyc.runner] = "completed"
    /\ \A c \in Cycles : ledger[c] \in {"accepted", "running"} =>
         c \in Queued \/ (pc.reader = "add" /\ cyc.reader = c)

LEMMA TendedKeeps == Inv /\ Tended /\ faults.failures = 0 => Kept
  <1> SUFFICES ASSUME Inv, Tended, faults.failures = 0 PROVE Kept
    OBVIOUS
  <1>1. \A c : ~Refused(c)
    BY DEF Tended, Refused
  <1> QED BY <1>1 DEF Tended, Kept

LEMMA QueuedIsLine == LocalOK => Queued = {Line[i] : i \in 1..Len(Line)}
  <1> SUFFICES ASSUME LocalOK PROVE Queued = {Line[i] : i \in 1..Len(Line)}
    OBVIOUS
  <1>1. jobs \in Seq(Cycles) /\ inflight \in Seq(Cycles) /\ Line = inflight \o jobs
    BY DEF LocalOK, Line
  <1>2. /\ Len(Line) = Len(inflight) + Len(jobs)
        /\ \A i \in 1..Len(Line) : Line[i] = IF i <= Len(inflight) THEN inflight[i] ELSE jobs[i - Len(inflight)]
    BY <1>1
  <1> HIDE DEF Line
  <1>3. Len(inflight) \in Nat /\ Len(jobs) \in Nat
    BY <1>1
  <1>4. \A x : (\E i \in 1..Len(Line) : x = Line[i])
               <=> (\E i \in 1..Len(jobs) : x = jobs[i]) \/ (\E i \in 1..Len(inflight) : x = inflight[i])
    <2>1. ASSUME NEW i \in 1..Len(inflight) PROVE i \in 1..Len(Line) /\ Line[i] = inflight[i]
      BY <1>2, <1>3
    <2>2. ASSUME NEW i \in 1..Len(jobs)
          PROVE  i + Len(inflight) \in 1..Len(Line) /\ Line[i + Len(inflight)] = jobs[i]
      BY <1>2, <1>3
    <2>3. ASSUME NEW i \in 1..Len(Line)
          PROVE  \/ i \in 1..Len(inflight) /\ Line[i] = inflight[i]
                 \/ i - Len(inflight) \in 1..Len(jobs) /\ Line[i] = jobs[i - Len(inflight)]
      BY <1>2, <1>3
    <2> QED BY <2>1, <2>2, <2>3
  <1> QED BY <1>4 DEF Queued

LEMMA FaultsNext ==
    ASSUME faults \in FaultCounts, [Next]_vars
    PROVE  /\ faults' \in FaultCounts
           /\ faults'.crashes = 0 => faults.crashes = 0 /\ ~MinionCrash
           /\ faults'.failures = 0 => faults.failures = 0 /\ ~AddFails /\ ~RefuseLaunch
  <1> USE DEF FaultCounts
  <1>1. CASE UNCHANGED faults
    BY <1>1 DEF MinionCrash, AddFails, RefuseLaunch
  <1>2. CASE LinkDrop \/ MinionCrash \/ MasterCrash \/ AddFails \/ RefuseLaunch
    BY <1>2 DEF LinkDrop, MinionCrash, MasterCrash, AddFails, RefuseLaunch
  <1> QED BY <1>1, <1>2 DEF Next, vars, Submission, Enqueue, BroadcastCommand, MasterTask, HandleEhlo, HandleTraits,
      HandleEvent, HandleModelAck, ReplayCommand, RecordEvent, Reader, ClaimCommand, DuplicateCommand,
      ReceiveCycleAck, ReceiveTraitsRequest, AddJob, ReplayCycle, ModelAckBy, JournalAck, MarkComplete,
      LedgerComplete, SendModelAck, AckStep, Execute, FetchJob, CheckCompleted, StartModel, ActionEvent,
      EndModel, AckJob, Dispatch, Connection, Connect, SendEhlo

\* A step that is no crash loses no claimed command.
LEMMA TendedNext ==
    ASSUME TypeOK, WireOK, LocalOK, Justified, Orderly, Tended, LocalOK', Orderly', [Next]_vars,
           ~MinionCrash, faults'.failures = 0 => faults.failures = 0 /\ ~AddFails /\ ~RefuseLaunch
    PROVE  Tended'
  <1> DEFINE HasJob(c) == (\E i \in 1..Len(Line) : Line[i] = c) \/ (pc.reader = "add" /\ cyc.reader = c)
  <1>0. /\ pc \in [Actors -> Places] /\ cyc \in [Actors -> AnyCycle]
        /\ ledger \in [Cycles -> {"none", "accepted", "running", "completed"}]
        /\ Line \in Seq(Cycles) /\ Line' \in Seq(Cycles)
        /\ pc.runner # "idle" => cyc.runner \in Cycles /\ 1 \in 1..Len(Line) /\ Line[1] = cyc.runner
                                 /\ ledger[cyc.runner] # "none"
        /\ pc.reader = "add" => cyc.reader \in Cycles
    <2>1. Line \in Seq(Cycles)
          /\ (pc.runner # "idle" => cyc.runner \in Cycles /\ 1 \in 1..Len(Line) /\ Line[1] = cyc.runner)
      BY LineSteps DEF Orderly, LocalOK
    <2>2. jobs' \in Seq(Cycles) /\ inflight' \in Seq(Cycles)
      BY DEF LocalOK
    <2>3. Line' \in Seq(Cycles)
      BY <2>2 DEF Line
    <2> QED BY <2>1, <2>3 DEF LocalOK, Orderly, Enlisted
  <1>1. /\ completed \subseteq ran /\ ran \subseteq started
        /\ pc.runner \in {"actions", "model"} => cyc.runner \in started
        /\ pc.runner \in {"send", "finish"} => ledger[cyc.runner] = "completed" \/ Refused(cyc.runner)
        /\ \A c \in Cycles : ledger[c] \in {"accepted", "running"} => HasJob(c) \/ Refused(c)
        /\ faults'.failures = 0 => emitted \subseteq started
    BY QueuedIsLine DEF Tended
  <1>2. ASSUME completed' \subseteq ran' /\ ran' \subseteq started',
               pc'.runner \in {"actions", "model"} => cyc'.runner \in started',
               pc'.runner \in {"send", "finish"} => ledger'[cyc'.runner] = "completed" \/ cyc'.runner \in emitted' \ started',
               \A c \in Cycles : ledger'[c] \in {"accepted", "running"} =>
                 \/ (\E i \in 1..Len(Line') : Line'[i] = c) \/ (pc'.reader = "add" /\ cyc'.reader = c)
                 \/ c \in emitted' \ started',
               faults'.failures = 0 => emitted' \subseteq started'
        PROVE  Tended'
    <2>1. (LocalOK => Queued = {Line[i] : i \in 1..Len(Line)})'
      BY QueuedIsLine, PTL
    <2> QED BY <1>2, <2>1 DEF Tended, Refused
  <1> HIDE DEF HasJob, Refused
  <1> USE DEF masterVars, storeVars, actorVars, linkVars, historyVars, Actors
  <1>k. ASSUME UNCHANGED <<jobs, inflight, ran, started>>, completed' \subseteq completed \cup ran,
               pc'.reader = "add" <=> pc.reader = "add", pc.reader = "add" => cyc'.reader = cyc.reader,
               cyc'.runner = cyc.runner,
               pc'.runner \in {"actions", "model"} => pc.runner \in {"actions", "model"},
               emitted \subseteq emitted', emitted' \subseteq emitted \cup started,
               pc'.runner \in {"send", "finish"} => ledger'[cyc.runner] = "completed" \/ Refused(cyc.runner),
               \A c \in Cycles : ledger'[c] \in {"accepted", "running"} => ledger[c] \in {"accepted", "running"}
        PROVE  Tended'
    <2>1. Line' = Line
      BY <1>k DEF Line
    <2> QED BY <1>1, <1>2, <1>k, <2>1 DEF HasJob, Refused
  <1>8. ASSUME NEW b \in Actors, ModelAckBy(b) PROVE Tended'
    <2>1. cyc[b] \in ran /\ cyc[b] \in Cycles /\ pc[b] \in Acking
      BY <1>8 DEF ModelAckBy, JournalAck, MarkComplete, LedgerComplete, SendModelAck, AckStep,
         Justified, Backed, Acking, LocalOK
    <2>2. /\ ledger' = ledger \/ ledger' = [ledger EXCEPT ![cyc[b]] = IF @ = "none" THEN @ ELSE "completed"]
          /\ pc[b] = "ledger" => ledger' = [ledger EXCEPT ![cyc[b]] = IF @ = "none" THEN @ ELSE "completed"]
          /\ pc' = [pc EXCEPT ![b] = pc'[b]]
          /\ pc'[b] \notin {"add", "actions", "model"}
          /\ b = "runner" /\ pc'[b] \in {"send", "finish"} => pc[b] \in {"ledger", "send"}
          /\ UNCHANGED <<jobs, inflight, ran, started, emitted>> /\ completed' \subseteq completed \cup ran
          /\ cyc'.runner = cyc.runner /\ (pc.reader = "add" => cyc'.reader = cyc.reader)
      BY <1>0, <1>8, <2>1 DEF ModelAckBy, JournalAck, MarkComplete, LedgerComplete, SendModelAck, AckStep, AckSent
    <2>3. \A c \in Cycles : ledger'[c] \in {"accepted", "running"} => ledger[c] \in {"accepted", "running"}
      BY <1>0, <2>1, <2>2
    <2>4. pc'.runner \in {"send", "finish"} => ledger'[cyc.runner] = "completed" \/ Refused(cyc.runner)
      BY <1>0, <1>1, <2>1, <2>2 DEF Acking
    <2>5. (pc'.reader = "add" <=> pc.reader = "add")
          /\ (pc'.runner \in {"actions", "model"} => pc.runner \in {"actions", "model"})
      BY <1>0, <2>1, <2>2 DEF Acking
    <2> QED BY <1>k, <2>2, <2>3, <2>4, <2>5
  <1>3. CASE Submission \/ MasterTask \/ Connection \/ LinkDrop \/ MasterCrash \/ UNCHANGED vars
    <2>1. /\ UNCHANGED <<jobs, inflight, ran, started, emitted, completed, ledger>>
          /\ pc'.runner = pc.runner /\ cyc'.runner = cyc.runner
          /\ pc'.reader = "add" <=> pc.reader = "add"
          /\ pc.reader = "add" => cyc'.reader = cyc.reader
      BY <1>0, <1>3 DEF Submission, Enqueue, BroadcastCommand, MasterTask, HandleEhlo, HandleTraits, HandleEvent,
         HandleModelAck, ReplayCommand, RecordEvent, Connection, Connect, SendEhlo, ReaderTo, LinkDrop,
         MasterCrash, vars
    <2> QED BY <1>1, <1>k, <2>1
  <1>4. CASE Reader
    <2>1. ASSUME NEW frame \in Frames, ClaimCommand(frame) PROVE Tended'
      <3>1. frame.cycle \in Cycles
        BY <2>1, FrameHasCycle DEF ClaimCommand
      <3>2. /\ Line' = Line /\ UNCHANGED <<completed, ran, started, emitted>>
            /\ pc.reader = "idle" /\ pc'.reader = "add" /\ cyc'.reader = frame.cycle
            /\ pc'.runner = pc.runner /\ cyc'.runner = cyc.runner
            /\ ledger[frame.cycle] = "none" /\ ledger' = [ledger EXCEPT ![frame.cycle] = "accepted"]
        BY <1>0, <2>1 DEF ClaimCommand, Receive, ReaderTo, Line
      <3> QED BY <1>0, <1>1, <1>2, <3>1, <3>2 DEF HasJob, Refused
    <2>2. CASE AddJob
      <3>1. /\ Line' = Append(Line, cyc.reader) /\ UNCHANGED <<completed, ran, started, emitted, ledger>>
            /\ pc.reader = "add" /\ pc'.runner = pc.runner /\ cyc'.runner = cyc.runner
        BY <1>0, <2>2, LineSteps DEF AddJob, ReaderTo, Orderly
      <3>2. /\ \A i \in 1..Len(Line) : i \in 1..Len(Line') /\ Line'[i] = Line[i]
            /\ Len(Line) + 1 \in 1..Len(Line') /\ Line'[Len(Line) + 1] = cyc.reader
        BY <1>0, <3>1
      <3> QED BY <1>1, <1>2, <3>1, <3>2 DEF HasJob, Refused
    <2>3. ASSUME NEW frame \in Frames,
                 DuplicateCommand(frame) \/ ReceiveCycleAck(frame) \/ ReceiveTraitsRequest(frame)
          PROVE  Tended'
      <3>1. /\ UNCHANGED <<jobs, inflight, ran, started, emitted, ledger>> /\ completed' \subseteq completed
            /\ pc'.runner = pc.runner /\ cyc'.runner = cyc.runner
            /\ pc.reader # "add" /\ pc'.reader # "add"
        BY <1>0, <2>3 DEF DuplicateCommand, ReceiveCycleAck, ReceiveTraitsRequest, Receive, ReaderTo
      <3> QED BY <1>1, <1>k, <3>1
    <2>4. ASSUME NEW c \in Cycles, ReplayCycle(c) PROVE Tended'
      <3>1. /\ UNCHANGED <<jobs, inflight, ran, started, emitted, ledger, completed>>
            /\ pc'.runner = pc.runner /\ cyc'.runner = cyc.runner
            /\ pc.reader # "add" /\ pc'.reader # "add"
        BY <1>0, <2>4 DEF ReplayCycle, ReaderTo
      <3> QED BY <1>1, <1>k, <3>1
    <2> QED BY <1>4, <1>8, <2>1, <2>2, <2>3, <2>4 DEF Reader
  <1>5. CASE Execute
    <2> USE DEF RunnerTo, Dispatch
    <2>1. CASE FetchJob
      <3>1. /\ Line' = Line /\ UNCHANGED <<completed, ran, started, emitted, ledger>>
            /\ pc'.runner = "check" /\ pc'.reader = pc.reader /\ cyc'.reader = cyc.reader
        BY <1>0, <2>1, LineSteps DEF FetchJob, Orderly
      <3> QED BY <1>1, <1>2, <3>1 DEF HasJob, Refused
    <2>2. CASE CheckCompleted
      <3>1. cyc.runner \notin started
        BY <1>0, <2>2 DEF CheckCompleted, Orderly, Enlisted, Fetched
      <3>2. /\ UNCHANGED <<jobs, inflight, ran, started, emitted, ledger, completed, cyc>>
            /\ pc'.runner = "dispatch" /\ pc'.reader = pc.reader
        BY <1>0, <1>1, <2>2, <3>1 DEF CheckCompleted
      <3> QED BY <1>1, <1>k, <3>2
    <2>3. CASE StartModel
      <3>1. /\ Line' = Line /\ UNCHANGED <<ran, emitted, completed, cyc>> /\ pc.runner = "dispatch"
            /\ started' = started \cup {cyc.runner} /\ pc'.runner = "actions" /\ pc'.reader = pc.reader
            /\ ledger' = [ledger EXCEPT ![cyc.runner] = IF @ = "none" THEN @ ELSE "running"]
        BY <1>0, <2>3 DEF StartModel, JournalAndSend, Line
      <3>2. \A c \in Cycles : ledger'[c] \in {"accepted", "running"} =>
                                c = cyc.runner \/ ledger[c] \in {"accepted", "running"}
        BY <1>0, <3>1
      <3>3. 1 \in 1..Len(Line) /\ Line[1] = cyc.runner
        BY <1>0, <3>1
      <3> QED BY <1>1, <1>2, <3>1, <3>2, <3>3 DEF HasJob, Refused
    <2>4. CASE ActionEvent
      <3>1. /\ UNCHANGED <<jobs, inflight, ran, started, ledger, completed, cyc>>
            /\ emitted' = emitted \cup {cyc.runner}
            /\ pc.runner = "actions" /\ pc'.runner = "model" /\ pc'.reader = pc.reader
        BY <1>0, <2>4 DEF ActionEvent, JournalAndSend
      <3> QED BY <1>1, <1>k, <3>1
    <2>5. CASE EndModel
      <3>1. /\ Line' = Line /\ UNCHANGED <<started, ledger, completed, cyc>> /\ ran' = ran \cup {cyc.runner}
            /\ emitted' = emitted \/ emitted' = emitted \cup {cyc.runner}
            /\ pc.runner = "model" /\ pc'.runner = "ack" /\ pc'.reader = pc.reader
        BY <1>0, <2>5 DEF EndModel, JournalAndSend, Line
      <3> QED BY <1>1, <1>2, <3>1 DEF HasJob, Refused
    <2>6. CASE AckJob
      <3>1. /\ Line = <<cyc.runner>> \o Line' /\ UNCHANGED <<ran, started, emitted, ledger, completed>>
            /\ pc.runner = "finish" /\ pc'.runner = "idle" /\ pc'.reader = pc.reader /\ cyc'.reader = cyc.reader
        BY <1>0, <2>6, LineSteps DEF AckJob, Orderly
      <3>2. \A i \in 1..Len(Line) : i = 1 \/ (i - 1 \in 1..Len(Line') /\ Line[i] = Line'[i - 1])
        BY <1>0, <3>1
      <3>3. Line[1] = cyc.runner /\ (ledger[cyc.runner] = "completed" \/ Refused(cyc.runner))
        BY <1>0, <1>1, <3>1
      <3> QED BY <1>1, <1>2, <3>1, <3>2, <3>3 DEF HasJob, Refused
    <2> QED BY <1>5, <1>8, <2>1, <2>2, <2>3, <2>4, <2>5, <2>6 DEF Execute
  <1>6. CASE AddFails
    <2>1. /\ Line' = Line /\ UNCHANGED <<completed, ran, started, emitted>> /\ faults'.failures # 0
          /\ pc.reader = "add" /\ pc'.reader = "idle" /\ pc'.runner = pc.runner /\ cyc'.runner = cyc.runner
          /\ ledger' = [ledger EXCEPT ![cyc.reader] = "none"]
      BY <1>0, <1>6 DEF AddFails, ReaderTo, Line
    <2>2. pc.runner # "idle" => cyc.runner # cyc.reader
      BY <1>0, <2>1 DEF Orderly, Enlisted
    <2> QED BY <1>0, <1>1, <1>2, <2>1, <2>2 DEF HasJob, Refused
  <1>7. CASE RefuseLaunch
    <2>1. /\ Line' = Line /\ UNCHANGED <<completed, ran, started, cyc>> /\ faults'.failures # 0
          /\ pc.runner = "dispatch" /\ pc'.runner = "finish" /\ pc'.reader = pc.reader
          /\ emitted' = emitted \cup {cyc.runner}
          /\ ledger' = [ledger EXCEPT ![cyc.runner] = IF @ = "none" THEN @ ELSE "running"]
      BY <1>0, <1>7 DEF RefuseLaunch, Dispatch, RunnerTo, JournalAndSend, Line
    <2>2. cyc.runner \notin started
      BY <1>0, <2>1 DEF Orderly, Enlisted, Fetched
    <2> QED BY <1>0, <1>1, <1>2, <2>1, <2>2 DEF HasJob, Refused
  <1> QED BY <1>3, <1>4, <1>5, <1>6, <1>7 DEF Next

Claims == faults \in FaultCounts /\ (faults.crashes = 0 => Tended)

LEMMA ClaimsNext == Inv /\ Inv' /\ Claims /\ [Next]_vars => Claims'
  <1> SUFFICES ASSUME Inv, Inv', Claims, [Next]_vars PROVE Claims'
    OBVIOUS
  <1>1. TypeOK /\ WireOK /\ LocalOK /\ Justified /\ Orderly /\ Orderly'
    BY TwoParts DEF Inv
  <1>2. LocalOK'
    BY <1>1, LocalNext
  <1> QED BY <1>1, <1>2, FaultsNext, TendedNext DEF Claims

LEMMA ClaimsHold == Spec => []Claims
  <1>1. Init => Claims
    BY DEF Init, Claims, FaultCounts, Tended, Refused
  <1> QED BY InvHolds, <1>1, ClaimsNext, PTL DEF Spec

\* A command the minion claimed keeps its job until it is completed, as long as the minion has
\* not crashed and unless its launch was refused: duplicates, all dropped, are not needed.
THEOREM ClaimKept == Spec => []ClaimedHasJob
  <1>1. Claims => ClaimedHasJob
    BY DEF Claims, Tended, ClaimedHasJob
  <1> QED BY ClaimsHold, <1>1, PTL

\* Every step of the two programs is one step of the contract or none.
LEMMA ContractStep == Inv /\ [Next]_vars => [Contract!Next]_(Contract!vars)
  <1> SUFFICES ASSUME Inv, [Next]_vars PROVE Contract!Next \/ UNCHANGED Contract!vars
    OBVIOUS
  <1>0. TypeOK /\ WireOK /\ LocalOK /\ Justified /\ Orderly /\ Asked
    BY TwoParts DEF Inv
  <1>1. pc \in [Actors -> Places] /\ cyc \in [Actors -> AnyCycle] /\ pc.runner \in Places
    BY <1>0 DEF LocalOK, Actors
  <1>s. ASSUME UNCHANGED <<Submitted, started, Running, ran, cleared>>
        PROVE  UNCHANGED Contract!vars
    BY <1>s DEF Contract!vars, Submitted, Running
  <1>h. pc.runner # "idle" => cyc.runner \in Cycles /\ 1 \in 1..Len(Line) /\ Line[1] = cyc.runner
    BY <1>0, LineSteps DEF Orderly, LocalOK
  <1> DEFINE Same == Submitted' = Submitted /\ cleared' = cleared
  <1> USE DEF masterVars, storeVars, actorVars, linkVars, historyVars, Actors
  <1>r. ASSUME pc'.runner = pc.runner, cyc'.runner = cyc.runner PROVE Running' = Running
    BY <1>r DEF Running
  <1>8. ASSUME NEW b \in Actors, ModelAckBy(b), Same PROVE UNCHANGED Contract!vars
    <2>1. Running' = Running /\ UNCHANGED <<started, ran>>
      BY <1>1, <1>8 DEF ModelAckBy, JournalAck, MarkComplete, LedgerComplete, SendModelAck, AckStep, AckSent, Running
    <2> QED BY <1>8, <1>s, <2>1
  <1>2. ASSUME NEW c \in Cycles, Enqueue(c), Submitted' = Submitted \cup {c} PROVE Contract!Next
    <2>1. UNCHANGED <<started, Running, ran, cleared>>
      BY <1>2 DEF Enqueue, Running
    <2>2. Contract!Submit(c)
      BY <1>2, <2>1 DEF Contract!Submit, Submitted, Running
    <2> QED BY <2>2 DEF Contract!Next
  <1>3. ASSUME NEW c \in ran \cap Cycles, Submitted' = Submitted \cup {c}, cleared' = cleared \cup {c},
               UNCHANGED <<pc, cyc, ran, started>>
        PROVE  Contract!Next
    <2>1. Submitted' = Submitted /\ Running' = Running
      BY <1>0, <1>3 DEF Asked, Running
    <2>2. Contract!Clear(c)
      BY <1>3, <2>1 DEF Contract!Clear, Submitted, Running
    <2> QED BY <2>2 DEF Contract!Next
  <1>4. ASSUME StartModel, Same PROVE Contract!Next
    <2>1. /\ pc.runner = "dispatch" /\ pc'.runner = "actions" /\ cyc' = cyc
          /\ started' = started \cup {cyc.runner} /\ ran' = ran
      BY <1>1, <1>4 DEF StartModel, Dispatch, RunnerTo
    <2>2. cyc.runner \in Submitted \ started
      BY <1>0, <1>h, <2>1 DEF Orderly, Enlisted, Asked, Fetched
    <2>3. Running = {} /\ Running' = {cyc.runner}
      BY <2>1 DEF Running
    <2>4. Contract!Start(cyc.runner)
      BY <1>4, <2>1, <2>2, <2>3 DEF Contract!Start, Submitted, Running
    <2> QED BY <1>h, <2>1, <2>4 DEF Contract!Next
  <1>5. ASSUME EndModel, Same PROVE Contract!Next
    <2>1. /\ pc.runner = "model" /\ pc'.runner = "ack" /\ cyc' = cyc
          /\ ran' = ran \cup {cyc.runner} /\ started' = started
      BY <1>1, <1>5 DEF EndModel, RunnerTo
    <2>2. Running = {cyc.runner} /\ Running' = {}
      BY <2>1 DEF Running
    <2>3. Contract!End(cyc.runner)
      BY <1>5, <2>1, <2>2 DEF Contract!End, Submitted, Running
    <2> QED BY <1>h, <2>1, <2>3 DEF Contract!Next
  <1>6. ASSUME MinionCrash, Same PROVE Contract!Next
    <2>1. Running' = {} /\ started' = {} /\ ran' = ran
      BY <1>6 DEF MinionCrash, Running
    <2>2. Contract!Restart
      BY <1>6, <2>1 DEF Contract!Restart, Submitted, Running
    <2> QED BY <2>2 DEF Contract!Next
  <1>7. ASSUME Reader \/ AddFails, Same PROVE UNCHANGED Contract!vars
    <2>1. CASE ModelAckBy("reader")
      BY <1>7, <1>8, <2>1
    <2>2. CASE (Reader /\ ~ModelAckBy("reader")) \/ AddFails
      <3>1. pc'.runner = pc.runner /\ cyc'.runner = cyc.runner /\ UNCHANGED <<started, ran>>
        BY <1>1, <2>2 DEF Reader, ClaimCommand, DuplicateCommand, ReceiveCycleAck, ReceiveTraitsRequest,
           AddJob, ReplayCycle, AddFails, ReaderTo
      <3> QED BY <1>7, <1>r, <1>s, <3>1
    <2> QED BY <1>7, <2>1, <2>2
  <1>9. ASSUME Execute \/ RefuseLaunch, Same PROVE Contract!Next \/ UNCHANGED Contract!vars
    <2>1. CASE FetchJob \/ CheckCompleted \/ ActionEvent \/ AckJob \/ RefuseLaunch
      <3>1. Running' = Running /\ UNCHANGED <<started, ran>>
        BY <1>1, <2>1 DEF FetchJob, CheckCompleted, ActionEvent, AckJob, RefuseLaunch, Dispatch, RunnerTo, Running
      <3> QED BY <1>9, <1>s, <3>1
    <2> QED BY <1>4, <1>5, <1>8, <1>9, <2>1 DEF Execute
  <1>10. ASSUME Submission \/ MasterTask \/ Connection \/ LinkDrop \/ MasterCrash \/ UNCHANGED vars, Same
         PROVE  UNCHANGED Contract!vars
    <2>1. pc'.runner = pc.runner /\ cyc'.runner = cyc.runner /\ UNCHANGED <<started, ran>>
      BY <1>1, <1>10 DEF Submission, Enqueue, BroadcastCommand, MasterTask, HandleEhlo, HandleTraits, HandleEvent,
         HandleModelAck, ReplayCommand, RecordEvent, Connection, Connect, SendEhlo, ReaderTo, LinkDrop,
         MasterCrash, vars
    <2> QED BY <1>10, <1>r, <1>s, <2>1
  <1>11. CASE Same
    BY <1>4, <1>5, <1>6, <1>7, <1>9, <1>10, <1>11 DEF Next
  <1> QED BY <1>0, <1>2, <1>3, <1>11, CommandSteps

\* The two programs implement the contract, through drops, crashes, replays and failures.
THEOREM DeliversContract == Spec => ImplementsContract
  <1>1. Init => Contract!Init
    BY DEF Init, Contract!Init
  <1> QED BY InvHolds, ContractStep, <1>1, PTL DEF Spec, Contract!Spec, ImplementsContract
-----------------------------------------------------------------------------
(* The minion's queue, which DurableDelivery has in single steps, behaves  *)
(* as JobQueue.tla allows, of which DiskPersistentQueue_proofs shows that  *)
(* the tree operations implement it.  Two histories are observed beside    *)
(* the specification: the cycles whose closure returned to the queue, ever *)
(* and since the minion's last start.                                      *)
VARIABLES finished, settled

Ends == IF pc.runner = "finish" THEN {cyc.runner} ELSE {}
InHand == IF pc.runner \in {"idle", "finish"} THEN {} ELSE {cyc.runner}

Observe ==
    /\ finished' = finished \cup Ends'
    /\ settled' = IF MinionCrash THEN {} ELSE settled \cup Ends'

ObservedSpec ==
    /\ Init /\ finished = {} /\ settled = {}
    /\ [][Next /\ Observe]_<<vars, finished, settled>>

Queue == INSTANCE JobQueue WITH
    Jobs <- Cycles, Runners <- {"runner"},
    owed <- Queued \ finished, done <- finished, closed <- finished \ Queued,
    running <- [r \in {"runner"} |-> InHand]

(* What a queued cycle is, and what an actor works on.                     *)
Listed ==
    /\ Line \in Seq(Cycles) /\ Queued = {Line[i] : i \in 1..Len(Line)}
    /\ pc.runner # "idle" => cyc.runner \in Queued
    /\ pc.reader = "add" => cyc.reader \in Cycles \ Queued
    /\ \A c \in Queued : c \in Cycles /\ ledger[c] # "none"

LEMMA QueuedFacts == Inv => Listed
  <1> SUFFICES ASSUME Inv PROVE Listed
    OBVIOUS
  <1>1. LocalOK /\ Held /\ Enlisted
    BY TwoParts DEF Inv, Orderly
  <1>2. /\ Line \in Seq(Cycles) /\ Queued = {Line[i] : i \in 1..Len(Line)}
        /\ pc.runner # "idle" => Len(Line) >= 1 /\ Line[1] = cyc.runner
    BY <1>1, LineSteps, QueuedIsLine
  <1>3. pc.reader = "add" => cyc.reader \in Cycles
    BY <1>1 DEF LocalOK
  <1> HIDE DEF Line
  <1>4. pc.runner # "idle" => cyc.runner \in Queued
    <2>1. Len(Line) >= 1 => 1 \in 1..Len(Line)
      BY <1>2
    <2> QED BY <1>2, <2>1
  <1> QED BY <1>1, <1>2, <1>3, <1>4 DEF Enlisted, Listed

\* A step of the minion as the queue sees it.
Idles == pc'.runner = pc.runner /\ cyc'.runner = cyc.runner
Added == /\ pc.reader = "add" /\ pc'.reader # "add"
         /\ Queued' = Queued \cup {cyc.reader} /\ Idles
Taken == /\ pc.runner = "idle" /\ pc'.runner = "check" /\ Queued' = Queued
Worked == /\ pc.runner \notin {"idle", "finish"} /\ pc'.runner # "idle" /\ cyc'.runner = cyc.runner
          /\ Queued' = Queued
Acked == /\ pc.runner = "finish" /\ pc'.runner = "idle"
         /\ Queued' = Queued \ {cyc.runner}
Restarted == pc'.runner = "idle" /\ pc'.reader = "off" /\ Queued' = Queued

LEMMA JobAdded ==
    ASSUME LocalOK, Held, Listed, Listed', AddJob
    PROVE  Queued' = Queued \cup {cyc.reader}
  <1>1. /\ Line \in Seq(Cycles) /\ Queued = {Line[i] : i \in 1..Len(Line)}
        /\ Queued' = {Line'[i] : i \in 1..Len(Line')} /\ Line' = Append(Line, cyc.reader)
    BY LineSteps DEF Listed
  <1> HIDE DEF Line
  <1>2. /\ Len(Line') = Len(Line) + 1 /\ Len(Line) \in Nat
        /\ \A i \in 1..Len(Line) : Line'[i] = Line[i]
        /\ Line'[Len(Line) + 1] = cyc.reader
    BY <1>1
  <1>3. \A i \in 1..Len(Line') : i \in 1..Len(Line) \/ i = Len(Line) + 1
    BY <1>2
  <1>4. \A i \in 1..Len(Line) : i \in 1..Len(Line')
    BY <1>2
  <1>5. Len(Line) + 1 \in 1..Len(Line')
    BY <1>2
  <1> QED BY <1>1, <1>2, <1>3, <1>4, <1>5

LEMMA QueueMoves ==
    ASSUME Inv, Listed, Listed', [Next]_vars
    PROVE  \/ MinionCrash /\ Restarted
           \/ (Queued' = Queued /\ Idles) \/ Added \/ Taken \/ Worked \/ Acked
  <1>0. /\ LocalOK /\ Held /\ OneJobPerCycle
        /\ pc \in [Actors -> Places] /\ cyc \in [Actors -> AnyCycle]
    BY TwoParts DEF Inv, Orderly, LocalOK
  <1>1. /\ Line \in Seq(Cycles) /\ Queued = {Line[i] : i \in 1..Len(Line)}
        /\ Line' \in Seq(Cycles) /\ Queued' = {Line'[i] : i \in 1..Len(Line')}
    BY DEF Listed
  <1>k. Line' = Line => Queued' = Queued
    BY <1>1
  <1> USE DEF Actors
  <1>2. ASSUME NEW a \in Actors, ModelAckBy(a) PROVE (Queued' = Queued /\ Idles) \/ Worked
    <2>1. UNCHANGED <<jobs, inflight>>
      BY <1>2 DEF ModelAckBy, JournalAck, MarkComplete, LedgerComplete, SendModelAck, AckStep
    <2>2. \/ Idles
          \/ pc.runner \in Acking /\ pc'.runner \in Acking \cup {"finish"} /\ cyc'.runner = cyc.runner
      BY <1>0, <1>2 DEF ModelAckBy, JournalAck, MarkComplete, LedgerComplete, SendModelAck, AckStep, AckSent, Acking, Idles
    <2>3. Line' = Line
      BY <2>1 DEF Line
    <2> QED BY <1>k, <2>2, <2>3 DEF Worked, Acking
  <1>3. CASE Submission \/ MasterTask \/ Connection \/ LinkDrop \/ MasterCrash \/ UNCHANGED vars
    <2>1. UNCHANGED <<jobs, inflight>> /\ Idles
      BY <1>0, <1>3 DEF Submission, Enqueue, BroadcastCommand, MasterTask, HandleEhlo, HandleTraits, HandleEvent,
         HandleModelAck, ReplayCommand, RecordEvent, Connection, Connect, SendEhlo, ReaderTo, LinkDrop, MasterCrash,
         storeVars, actorVars, vars, Idles
    <2> QED BY <1>k, <2>1 DEF Line
  <1>4. CASE MinionCrash
    <2>1. Line' = Line /\ pc'.runner = "idle" /\ pc'.reader = "off"
      BY <1>0, <1>4, LineSteps DEF MinionCrash
    <2> QED BY <1>4, <1>k, <2>1 DEF Restarted
  <1>5. CASE AddJob
    <2>1. pc.reader = "add" /\ pc'.reader # "add" /\ Idles
      BY <1>0, <1>5 DEF AddJob, ReaderTo, Idles
    <2> QED BY <1>0, <1>5, <2>1, JobAdded DEF Added
  <1>6. CASE AckJob
    <2>1. Line = <<cyc.runner>> \o Line' /\ pc.runner = "finish" /\ pc'.runner = "idle"
      BY <1>0, <1>6, LineSteps DEF AckJob, RunnerTo
    <2>2. \A i, j \in 1..Len(Line) : Line[i] = Line[j] => i = j
      BY <1>0 DEF OneJobPerCycle, Line
    <2> HIDE DEF Line
    <2>3. Queued' = Queued \ {cyc.runner}
      <3>1. /\ Len(Line) = Len(Line') + 1 /\ Len(Line') \in Nat /\ Line[1] = cyc.runner
            /\ \A i \in 1..Len(Line') : Line[i + 1] = Line'[i]
        BY <1>1, <2>1
      <3>2. /\ 1 \in 1..Len(Line)
            /\ \A i \in 1..Len(Line') : i + 1 \in 1..Len(Line) /\ i + 1 # 1
            /\ \A i \in 1..Len(Line) : i = 1 \/ (i - 1 \in 1..Len(Line') /\ (i - 1) + 1 = i)
        BY <3>1
      <3>3. ASSUME NEW i \in 1..Len(Line') PROVE Line'[i] \in Queued \ {cyc.runner}
        <4>1. i + 1 \in 1..Len(Line) /\ i + 1 # 1 /\ Line'[i] = Line[i + 1]
          BY <3>1, <3>2
        <4> QED BY <1>1, <2>2, <3>1, <3>2, <4>1
      <3>4. ASSUME NEW i \in 1..Len(Line) PROVE Line[i] = cyc.runner \/ Line[i] \in Queued'
        <4>1. CASE i - 1 \in 1..Len(Line')
          <5>1. Line[i] = Line'[i - 1]
            BY <3>1, <3>2, <4>1
          <5> QED BY <1>1, <4>1, <5>1
        <4> QED BY <3>1, <3>2, <4>1
      <3> QED BY <1>1, <3>3, <3>4
    <2> QED BY <2>1, <2>3 DEF Acked
  <1>7. CASE Reader \/ AddFails
    <2>1. CASE (Reader /\ ~AddJob /\ ~ModelAckBy("reader")) \/ AddFails
      <3>1. UNCHANGED <<jobs, inflight>> /\ Idles
        BY <1>0, <2>1 DEF Reader, ClaimCommand, DuplicateCommand, ReceiveCycleAck, ReceiveTraitsRequest,
           ReplayCycle, AddFails, ReaderTo, storeVars, actorVars, Idles
      <3> QED BY <1>k, <3>1 DEF Line
    <2> QED BY <1>2, <1>5, <1>7, <2>1
  <1>8. CASE Execute \/ RefuseLaunch
    <2>1. CASE FetchJob
      <3>1. Line' = Line /\ pc.runner = "idle" /\ pc'.runner = "check"
        BY <1>0, <2>1, LineSteps DEF FetchJob, RunnerTo
      <3> QED BY <1>k, <3>1 DEF Taken
    <2>2. CASE CheckCompleted \/ StartModel \/ ActionEvent \/ EndModel \/ RefuseLaunch
      <3>1. /\ UNCHANGED <<jobs, inflight>> /\ cyc' = cyc
            /\ pc.runner \in {"check", "dispatch", "actions", "model"}
            /\ pc'.runner \in {"finish", "dispatch", "actions", "model", "ack"}
        BY <1>0, <2>2 DEF CheckCompleted, StartModel, ActionEvent, EndModel, RefuseLaunch, Dispatch, RunnerTo, storeVars
      <3>2. Line' = Line
        BY <3>1 DEF Line
      <3> QED BY <1>k, <3>1, <3>2 DEF Worked
    <2> QED BY <1>2, <1>6, <1>8, <2>1, <2>2 DEF Execute
  <1> QED BY <1>3, <1>4, <1>7, <1>8 DEF Next

\* A cycle is claimed for good once it is in the queue.
LEMMA ClaimStays ==
    ASSUME Inv, [Next]_vars
    PROVE  /\ \A c \in Cycles : ledger[c] # "none"
                                => ledger'[c] # "none" \/ (pc.reader = "add" /\ cyc.reader = c)
           /\ pc'.reader = "add" => \/ pc.reader = "add" /\ cyc'.reader = cyc.reader
                                    \/ ledger[cyc'.reader] = "none"
  <1>0. /\ pc \in [Actors -> Places] /\ cyc \in [Actors -> AnyCycle]
        /\ ledger \in [Cycles -> {"none", "accepted", "running", "completed"}]
    BY TwoParts DEF Inv, LocalOK
  <1> USE DEF Actors
  <1>1. ASSUME NEW a \in Actors, ModelAckBy(a)
        PROVE  /\ \A c \in Cycles : ledger[c] # "none" => ledger'[c] # "none"
               /\ pc'.reader = "add" => pc.reader = "add" /\ cyc'.reader = cyc.reader
    BY <1>0, <1>1 DEF ModelAckBy, JournalAck, MarkComplete, LedgerComplete, SendModelAck, AckStep, AckSent
  <1>2. CASE Submission \/ MasterTask \/ Connection \/ LinkDrop \/ MasterCrash \/ MinionCrash \/ UNCHANGED vars
    BY <1>0, <1>2 DEF Submission, Enqueue, BroadcastCommand, MasterTask, HandleEhlo, HandleTraits, HandleEvent,
       HandleModelAck, ReplayCommand, RecordEvent, Connection, Connect, SendEhlo, ReaderTo, LinkDrop, MasterCrash,
       MinionCrash, storeVars, actorVars, vars
  <1>3. CASE Reader \/ AddFails
    BY <1>0, <1>1, <1>3 DEF Reader, ClaimCommand, DuplicateCommand, ReceiveCycleAck, ReceiveTraitsRequest,
       AddJob, ReplayCycle, AddFails, ReaderTo, storeVars, actorVars
  <1>4. CASE Execute \/ RefuseLaunch
    <2>1. CASE FetchJob \/ CheckCompleted \/ StartModel \/ ActionEvent \/ EndModel \/ AckJob \/ RefuseLaunch
      BY <1>0, <2>1 DEF FetchJob, CheckCompleted, StartModel, ActionEvent, EndModel, AckJob, RefuseLaunch,
         Dispatch, RunnerTo, storeVars
    <2> QED BY <1>1, <1>4, <2>1 DEF Execute
  <1> QED BY <1>2, <1>3, <1>4 DEF Next

(* What finished is not claimed anew, and waits again only after a restart. *)
Ended ==
    /\ settled \subseteq finished /\ finished \subseteq Cycles
    /\ \A c \in finished : ledger[c] # "none" /\ ~(pc.reader = "add" /\ cyc.reader = c)
    /\ settled \cap Queued \subseteq Ends /\ Ends \subseteq settled

LEMMA EndedNext ==
    ASSUME Inv, Listed, Listed', Ended, [Next /\ Observe]_<<vars, finished, settled>>
    PROVE  Ended'
  <1>0. CASE UNCHANGED <<vars, finished, settled>>
    BY <1>0 DEF Ended, Ends, Queued, vars
  <1>1. CASE Next /\ Observe
    <2>1. /\ pc.runner # "idle" => cyc.runner \in Queued
          /\ pc.reader = "add" => cyc.reader \in Cycles \ Queued
          /\ pc'.runner # "idle" => cyc'.runner \in Queued'
          /\ pc'.reader = "add" => cyc'.reader \in Cycles \ Queued'
          /\ Queued' \subseteq Cycles
          /\ \A c \in Queued' : ledger'[c] # "none"
      BY DEF Listed
    <2>2. finished' = finished \cup Ends' /\ settled' = IF MinionCrash THEN {} ELSE settled \cup Ends'
      BY <1>1 DEF Observe
    <2>3. Ends' = IF pc'.runner = "finish" THEN {cyc'.runner} ELSE {}
      BY DEF Ends
    <2>4. settled' \subseteq finished' /\ finished' \subseteq Cycles
      BY <2>1, <2>2, <2>3 DEF Ended
    <2>5. \A c \in finished' : ledger'[c] # "none" /\ ~(pc'.reader = "add" /\ cyc'.reader = c)
      <3>1. ASSUME NEW c \in finished
            PROVE  ledger'[c] # "none" /\ ~(pc'.reader = "add" /\ cyc'.reader = c)
        BY <1>1, <3>1, ClaimStays DEF Ended
      <3>2. ASSUME NEW c \in Ends' PROVE ledger'[c] # "none" /\ ~(pc'.reader = "add" /\ cyc'.reader = c)
        BY <2>1, <2>3, <3>2
      <3> QED BY <2>2, <3>1, <3>2
    <2>6. settled' \cap Queued' \subseteq Ends' /\ Ends' \subseteq settled'
      <3>1. CASE MinionCrash
        <4>1. pc'.runner = "idle"
          BY <3>1 DEF MinionCrash
        <4> QED BY <2>2, <2>3, <3>1, <4>1
      <3>2. CASE ~MinionCrash
        <4>1. settled' = settled \cup Ends'
          BY <2>2, <3>2
        <4>2. (Queued' = Queued /\ Idles) \/ Added \/ Taken \/ Worked \/ Acked
          BY <1>1, <3>2, QueueMoves
        <4>3. settled \cap Queued' \subseteq Ends'
          BY <2>3, <4>2 DEF Ended, Ends, Idles, Added, Taken, Worked, Acked
        <4> QED BY <4>1, <4>3
      <3> QED BY <3>1, <3>2
    <2> QED BY <2>4, <2>5, <2>6 DEF Ended
  <1> QED BY <1>0, <1>1

LEMMA QueueStep ==
    ASSUME Inv, Listed, Listed', Ended, [Next /\ Observe]_<<vars, finished, settled>>
    PROVE  [Queue!Next]_(Queue!vars)
  <1>0. CASE UNCHANGED <<vars, finished, settled>>
    BY <1>0 DEF Queue!vars, Queued, InHand, vars
  <1>1. CASE Next /\ Observe
    <2> DEFINE run == [r \in {"runner"} |-> InHand]
    <2>1. /\ pc.runner # "idle" => cyc.runner \in Queued
          /\ pc.reader = "add" => cyc.reader \in Cycles \ Queued
          /\ pc'.runner # "idle" => cyc'.runner \in Queued'
          /\ Queued \subseteq Cycles /\ Queued' \subseteq Cycles
      BY DEF Listed
    <2>2. finished' = finished \cup Ends' /\ settled' = IF MinionCrash THEN {} ELSE settled \cup Ends'
      BY <1>1 DEF Observe
    <2>3. /\ Ends' = IF pc'.runner = "finish" THEN {cyc'.runner} ELSE {}
          /\ Ends = IF pc.runner = "finish" THEN {cyc.runner} ELSE {}
          /\ InHand' = IF pc'.runner \in {"idle", "finish"} THEN {} ELSE {cyc'.runner}
          /\ InHand = IF pc.runner \in {"idle", "finish"} THEN {} ELSE {cyc.runner}
      BY DEF Ends, InHand
    <2>4. settled \subseteq finished /\ settled \cap Queued \subseteq Ends /\ Ends \subseteq settled
          /\ (pc.reader = "add" => cyc.reader \notin finished)
      BY DEF Ended
    <2>5. run' = [r \in {"runner"} |-> InHand']
      OBVIOUS
    <2> HIDE DEF run
    <2>6. CASE MinionCrash
      <3>1. pc'.runner = "idle" /\ Queued' = Queued
        <4>1. Line' = Line /\ pc'.runner = "idle"
          BY <2>6, TwoParts, LineSteps DEF MinionCrash, Inv, Orderly
        <4> QED BY <4>1 DEF Listed
      <3>2. Queue!Restart
        BY <2>2, <2>3, <2>5, <2>6, <3>1 DEF Queue!Restart, run
      <3> QED BY <3>2 DEF Queue!Next
    <2>7. CASE ~MinionCrash
      <3>0. settled' = settled \cup Ends'
        BY <2>2, <2>7
      <3>1. CASE Queued' = Queued /\ Idles
        <4>1. finished' = finished /\ settled' = settled /\ InHand' = InHand
          BY <2>2, <2>3, <2>4, <3>0, <3>1 DEF Idles
        <4> QED BY <3>1, <4>1 DEF Queue!vars
      <3>2. CASE Added
        <4>1. finished' = finished /\ settled' = settled /\ InHand' = InHand
          BY <2>2, <2>3, <2>4, <3>0, <3>2 DEF Added, Idles
        <4>2. Queue!Accept(cyc.reader)
          BY <2>1, <2>4, <3>2, <4>1 DEF Queue!Accept, Added
        <4> QED BY <2>1, <3>2, <4>2 DEF Queue!Next, Added
      <3>3. CASE Taken
        <4>1. /\ finished' = finished /\ settled' = settled /\ Ends = {}
              /\ InHand' = {cyc'.runner} /\ InHand = {} /\ cyc'.runner \in Queued
          BY <2>1, <2>2, <2>3, <3>0, <3>3 DEF Taken
        <4>2. Queue!Start("runner", cyc'.runner)
          BY <2>4, <3>3, <4>1 DEF Queue!Start, Taken
        <4> QED BY <2>1, <4>1, <4>2 DEF Queue!Next
      <3>4. CASE Worked /\ pc'.runner # "finish"
        <4>1. finished' = finished /\ settled' = settled /\ InHand' = InHand
          BY <2>2, <2>3, <3>0, <3>4 DEF Worked
        <4> QED BY <3>4, <4>1 DEF Queue!vars, Worked
      <3>5. CASE Worked /\ pc'.runner = "finish"
        <4>1. /\ finished' = finished \cup InHand /\ settled' = settled \cup InHand
              /\ InHand' = {} /\ InHand = {cyc.runner} /\ cyc.runner \in Queued
          BY <2>1, <2>2, <2>3, <3>0, <3>5 DEF Worked
        <4>2. Queue!Finish("runner")
          BY <3>5, <4>1 DEF Queue!Finish, Worked
        <4> QED BY <4>2 DEF Queue!Next
      <3>6. CASE Acked
        <4>1. /\ finished' = finished /\ settled' = settled
              /\ InHand' = {} /\ InHand = {} /\ cyc.runner \in finished /\ cyc.runner \in Queued
          BY <2>1, <2>2, <2>3, <2>4, <3>0, <3>6 DEF Acked
        <4>2. Queue!Close(cyc.runner)
          BY <3>6, <4>1 DEF Queue!Close, Acked
        <4> QED BY <2>1, <4>1, <4>2 DEF Queue!Next
      <3> QED BY <1>1, <2>7, <3>1, <3>2, <3>3, <3>4, <3>5, <3>6, QueueMoves
    <2> QED BY <2>6, <2>7
  <1> QED BY <1>0, <1>1

(* Claiming, fetching, finishing and acknowledging a command, and the      *)
(* minion's restarts, use the queue as JobQueue.tla allows: a command that *)
(* was added is owed until it ran, it starts again only after a restart,   *)
(* and it never does after the queue's ack.                                *)
THEOREM DeliveryUsesQueue == ObservedSpec => Queue!Spec
  <1>1. Init /\ finished = {} /\ settled = {} => Ended /\ Queue!Init
    BY DEF Init, Ended, Ends, InHand, Queued, Queue!Init
  <1>2. [Next /\ Observe]_<<vars, finished, settled>> => [Next]_vars
    BY DEF vars
  <1> QED BY <1>1, <1>2, InvInit, InvNext, QueuedFacts, EndedNext, QueueStep, PTL DEF ObservedSpec, Queue!Spec

-----------------------------------------------------------------------------
(* No queued command is stranded.  What is on a stream stays there until   *)
(* it is read, and what is written on a connection that is up arrives.     *)

LEMMA SendReaches ==
    ASSUME TypeOK, NEW fs \in Seq(MasterFrames), SendToMaster(fs), UNCHANGED tasks
    PROVE  /\ Spawned \subseteq Spawned'
           /\ link # "down" => \A i \in 1..Len(fs) : Task(fs[i], TRUE) \in Spawned'
  <1>1. toMaster \in Seq(MasterFrames)
    BY DEF TypeOK, MasterFrames, MasterKinds, AnyCycle
  <1>2. CASE link = "down"
    BY <1>2 DEF SendToMaster, Spawned
  <1>3. CASE link # "down"
    <2>1. toMaster' = toMaster \o fs
      BY <1>3 DEF SendToMaster
    <2>2. /\ \A i \in 1..Len(toMaster) : i \in 1..Len(toMaster') /\ toMaster'[i] = toMaster[i]
          /\ \A i \in 1..Len(fs) : i + Len(toMaster) \in 1..Len(toMaster') /\ toMaster'[i + Len(toMaster)] = fs[i]
      BY <1>1, <2>1
    <2> QED BY <2>2 DEF Spawned, Tasks
  <1> QED BY <1>2, <1>3

LEMMA OneReaches ==
    ASSUME TypeOK, NEW k \in MasterKinds, NEW c \in AnyCycle, SendToMaster(Msg(k, c)), UNCHANGED tasks
    PROVE  /\ Spawned \subseteq Spawned'
           /\ link # "down" => Task([kind |-> k, cycle |-> c], TRUE) \in Spawned'
  <1>1. /\ Msg(k, c) \in Seq(MasterFrames) /\ 1 \in 1..Len(Msg(k, c))
        /\ Msg(k, c)[1] = [kind |-> k, cycle |-> c]
    BY DEF Msg, MasterFrames
  <1>2. /\ Spawned \subseteq Spawned'
        /\ link # "down" => \A i \in 1..Len(Msg(k, c)) : Task(Msg(k, c)[i], TRUE) \in Spawned'
    BY <1>1, SendReaches
  <1> QED BY <1>1, <1>2

LEMMA ProcessLeaves ==
    ASSUME TypeOK, NEW frame \in Spawned, Process(frame)
    PROVE  Spawned \ {frame} \subseteq Spawned'
  <1>1. CASE frame \in tasks /\ tasks' = tasks \ {frame} /\ toMaster' = toMaster
    BY <1>1 DEF Spawned
  <1>2. ASSUME NEW i \in 1..Len(toMaster),
               frame = Task(toMaster[i], TRUE),
               tasks' = tasks \cup Tasks(SubSeq(toMaster, 1, i - 1), TRUE),
               toMaster' = SubSeq(toMaster, i + 1, Len(toMaster))
        PROVE  Spawned \ {frame} \subseteq Spawned'
    <2> DEFINE read == SubSeq(toMaster, 1, i - 1)
    <2>1. toMaster \in Seq(MasterFrames)
      BY DEF TypeOK, MasterFrames, MasterKinds, AnyCycle
    <2>2. \A j \in 1..Len(toMaster) :
            \/ j \in 1..Len(read) /\ read[j] = toMaster[j]
            \/ j = i
            \/ j - i \in 1..Len(toMaster') /\ toMaster'[j - i] = toMaster[j]
      <3> SUFFICES ASSUME NEW j \in 1..Len(toMaster)
                   PROVE  \/ j \in 1..Len(read) /\ read[j] = toMaster[j]
                          \/ j = i
                          \/ j - i \in 1..Len(toMaster') /\ toMaster'[j - i] = toMaster[j]
        OBVIOUS
      <3>1. CASE j < i
        BY <2>1, <3>1
      <3>2. CASE j > i
        BY <1>2, <2>1, <3>2
      <3> QED BY <3>1, <3>2
    <2> HIDE DEF read
    <2>3. \A j \in 1..Len(toMaster) :
            Task(toMaster[j], TRUE) \in Tasks(read, TRUE) \cup Tasks(toMaster', TRUE) \cup {frame}
      BY <1>2, <2>2 DEF Tasks
    <2>4. tasks' = tasks \cup Tasks(read, TRUE)
      BY <1>2 DEF read
    <2> QED BY <2>3, <2>4 DEF Spawned, Tasks
  <1> QED BY <1>1, <1>2 DEF Process

LEMMA ReceiveLeaves ==
    ASSUME TypeOK, NEW frame, Receive(frame)
    PROVE  Frames \ {frame} \subseteq Frames'
  <1>1. direct \in Seq(FrameTo({"command", "cycleAck"})) /\ bcast \in Seq(FrameTo({"command", "traits"}))
    BY DEF TypeOK
  <1>2. ASSUME direct # <<>>, frame = Head(direct), direct' = Tail(direct), bcast' = bcast
        PROVE  Frames \ {frame} \subseteq Frames'
    <2>1. \A i \in 1..Len(direct) : \/ direct[i] = frame
                                    \/ i - 1 \in 1..Len(direct') /\ direct'[i - 1] = direct[i]
      BY <1>1, <1>2
    <2> QED BY <1>2, <2>1 DEF Frames
  <1>3. ASSUME bcast # <<>>, frame = Head(bcast), bcast' = Tail(bcast), direct' = direct
        PROVE  Frames \ {frame} \subseteq Frames'
    <2>1. \A i \in 1..Len(bcast) : \/ bcast[i] = frame
                                   \/ i - 1 \in 1..Len(bcast') /\ bcast'[i - 1] = bcast[i]
      BY <1>1, <1>3
    <2> QED BY <1>3, <2>1 DEF Frames
  <1> QED BY <1>2, <1>3 DEF Receive

LEMMA StreamsGrow ==
    ASSUME TypeOK, NEW k, NEW c
    PROVE  /\ SendDirect(k, c) /\ UNCHANGED bcast => Frames \cup {[kind |-> k, cycle |-> c]} \subseteq Frames'
           /\ Broadcast(k, c) /\ UNCHANGED direct =>
                /\ Frames \subseteq Frames'
                /\ link # "down" => [kind |-> k, cycle |-> c] \in Frames'
  <1> DEFINE f == [kind |-> k, cycle |-> c]
  <1>1. Msg(k, c) = <<f>>
    BY DEF Msg
  <1> HIDE DEF f
  <1>2. ASSUME NEW S, NEW s \in Seq(S), NEW t, t = s \o <<f>>
        PROVE  /\ \A i \in 1..Len(s) : i \in 1..Len(t) /\ t[i] = s[i]
               /\ Len(s) + 1 \in 1..Len(t) /\ t[Len(s) + 1] = f
    BY <1>2
  <1>3. direct \in Seq(FrameTo({"command", "cycleAck"})) /\ bcast \in Seq(FrameTo({"command", "traits"}))
    BY DEF TypeOK
  <1>4. ASSUME SendDirect(k, c), UNCHANGED bcast PROVE Frames \cup {f} \subseteq Frames'
    <2>1. direct' = direct \o <<f>>
      BY <1>1, <1>4 DEF SendDirect
    <2>2. /\ \A i \in 1..Len(direct) : i \in 1..Len(direct') /\ direct'[i] = direct[i]
          /\ Len(direct) + 1 \in 1..Len(direct') /\ direct'[Len(direct) + 1] = f
      BY <1>2, <1>3, <2>1
    <2> QED BY <1>4, <2>2 DEF Frames
  <1>5. ASSUME Broadcast(k, c), UNCHANGED direct PROVE Frames \subseteq Frames' /\ (link # "down" => f \in Frames')
    <2>1. CASE link = "down"
      BY <1>5, <2>1 DEF Broadcast, Frames
    <2>2. CASE link # "down"
      <3>1. bcast' = bcast \o <<f>>
        BY <1>1, <1>5, <2>2 DEF Broadcast
      <3>2. /\ \A i \in 1..Len(bcast) : i \in 1..Len(bcast') /\ bcast'[i] = bcast[i]
            /\ Len(bcast) + 1 \in 1..Len(bcast') /\ bcast'[Len(bcast) + 1] = f
        BY <1>2, <1>3, <3>1
      <3> QED BY <1>5, <3>2 DEF Frames
    <2> QED BY <2>1, <2>2
  <1> QED BY <1>4, <1>5 DEF f

\* What a step must leave of the promises of one cycle.
LEMMA PledgeStays ==
    ASSUME NEW c \in Cycles, Pledged(c),
           link' = "live" => link = "live",
           \A frame \in Spawned : frame.kind # "event" /\ ~(frame.kind = "modelAck" /\ frame.cycle # c)
                                  => frame \in Spawned',
           \A frame \in Frames : frame.kind # "cycleAck" /\ ~(frame.kind = "command" /\ frame.cycle # c)
                                 => frame \in Frames',
           c \in toBcast \cup replaying => c \in toBcast' \cup replaying',
           ToRun(c) => ToRun(c)' \/ AckDue(c)',
           \A a \in Actors : pc[a] \in Acking /\ cyc[a] = c => AckDue(c)'
    PROVE  Pledged(c)'
  <1>1. CASE ReplayDue
    BY <1>1 DEF ReplayDue, Pledged
  <1>2. CASE c \in toBcast \cup replaying
    BY <1>2 DEF Pledged
  <1>3. CASE \E frame \in Frames : frame.kind = "command" /\ frame.cycle = c
    BY <1>3 DEF Pledged
  <1>4. CASE ToRun(c)
    BY <1>4 DEF Pledged
  <1>5. CASE AckDue(c)
    BY <1>5 DEF AckDue, Pledged, Acking
  <1> QED BY <1>1, <1>2, <1>3, <1>4, <1>5 DEF Pledged

\* A step that is no crash and no failure leaves every queued command a way on.
LEMMA PledgeNext ==
    ASSUME Inv, Listed, Listed', Kept, Next, ~MinionCrash, ~AddFails, ~RefuseLaunch,
           NEW c \in Cycles, cmdq[c] # "none" => Pledged(c), cmdq'[c] # "none"
    PROVE  Pledged(c)'
  <1>0. /\ TypeOK /\ WireOK /\ LocalOK /\ Held /\ Enlisted
        /\ pc \in [Actors -> Places] /\ cyc \in [Actors -> AnyCycle]
        /\ cmdq \in [Cycles -> {"none", "pending", "replayed"}]
        /\ ledger \in [Cycles -> {"none", "accepted", "running", "completed"}]
        /\ toMaster \in Seq(MasterFrames)
    BY TwoParts DEF Inv, Orderly, LocalOK, WireOK
  <1> USE DEF masterVars, storeVars, actorVars, linkVars, historyVars, Actors
  <1>j. UNCHANGED <<jobs, inflight>> => Queued' = Queued
    BY DEF Queued
  <1>a. UNCHANGED <<pc, cyc>> => \A a \in Actors : pc[a] \in Acking /\ cyc[a] = c => AckDue(c)'
    BY DEF AckDue, Acking
  <1>r. UNCHANGED <<jobs, inflight, pc, cyc>> => (ToRun(c) => ToRun(c)')
    BY <1>j DEF ToRun
  <1>s. UNCHANGED <<toMaster, tasks>> => Spawned' = Spawned
    BY DEF Spawned
  <1>f. UNCHANGED <<direct, bcast>> => Frames' = Frames
    BY DEF Frames
  <1>q. UNCHANGED cmdq => Pledged(c)
    OBVIOUS
  <1>1. CASE Submission
    <2>1. ASSUME NEW d \in Cycles, Enqueue(d) PROVE Pledged(c)'
      <3>1. CASE d = c
        BY <2>1, <3>1 DEF Enqueue, Pledged
      <3>2. CASE d # c
        <4>1. Pledged(c)
          BY <1>0, <2>1, <3>2 DEF Enqueue
        <4>2. UNCHANGED <<jobs, inflight, pc, cyc, toMaster, tasks, direct, bcast, link, replaying>>
              /\ toBcast \subseteq toBcast'
          BY <2>1 DEF Enqueue
        <4> QED BY <1>a, <1>r, <1>s, <1>f, <4>1, <4>2, PledgeStays
      <3> QED BY <3>1, <3>2
    <2>2. ASSUME NEW d \in Cycles, BroadcastCommand(d) PROVE Pledged(c)'
      <3>1. /\ UNCHANGED <<cmdq, jobs, inflight, pc, cyc, toMaster, tasks, direct, link, replaying>>
            /\ toBcast' = toBcast \ {d} /\ Broadcast("command", d)
        BY <2>2 DEF BroadcastCommand
      <3>2. Frames \subseteq Frames' /\ (link # "down" => [kind |-> "command", cycle |-> d] \in Frames')
        BY <1>0, <3>1, StreamsGrow
      <3>3. CASE d = c /\ link = "down"
        BY <3>1, <3>3 DEF Pledged, ReplayDue
      <3>4. CASE d = c /\ link # "down"
        BY <3>2, <3>4 DEF Pledged
      <3>5. CASE d # c
        BY <1>a, <1>r, <1>s, <1>q, <3>1, <3>2, <3>5, PledgeStays
      <3> QED BY <3>3, <3>4, <3>5
    <2> QED BY <1>1, <2>1, <2>2 DEF Submission
  <1>2. CASE MasterTask
    <2>1. ASSUME NEW frame \in Spawned, HandleEhlo(frame) PROVE Pledged(c)'
      <3>1. UNCHANGED <<direct, link>> /\ Broadcast("traits", NoCycle)
        BY <2>1 DEF HandleEhlo
      <3>2. link = "live" => [kind |-> "traits", cycle |-> NoCycle] \in Frames'
        BY <1>0, <3>1, StreamsGrow
      <3> QED BY <3>1, <3>2 DEF Pledged, ReplayDue
    <2>2. ASSUME NEW frame \in Spawned, HandleTraits(frame) PROVE Pledged(c)'
      BY <2>2 DEF HandleTraits, Pledged
    <2>3. ASSUME NEW frame \in Spawned, HandleEvent(frame) PROVE Pledged(c)'
      <3>1. /\ UNCHANGED <<cmdq, toBcast, replaying, jobs, inflight, pc, cyc, direct, bcast, link>>
            /\ frame.kind = "event" /\ Spawned \ {frame} \subseteq Spawned'
        BY <1>0, <2>3, ProcessLeaves DEF HandleEvent
      <3> QED BY <1>a, <1>r, <1>f, <1>q, <3>1, PledgeStays
    <2>4. ASSUME NEW frame \in Spawned, HandleModelAck(frame) PROVE Pledged(c)'
      <3>1. /\ UNCHANGED <<toBcast, replaying, jobs, inflight, pc, cyc, bcast, link>>
            /\ frame.kind = "modelAck" /\ Spawned \ {frame} \subseteq Spawned'
            /\ cmdq' = [cmdq EXCEPT ![frame.cycle] = "none"]
            /\ UNCHANGED direct \/ SendDirect("cycleAck", frame.cycle)
        BY <1>0, <2>4, ProcessLeaves DEF HandleModelAck
      <3>2. frame.cycle # c /\ Pledged(c)
        BY <1>0, <3>1
      <3>3. Frames \subseteq Frames'
        BY <1>0, <1>f, <3>1, StreamsGrow
      <3> QED BY <1>a, <1>r, <3>1, <3>2, <3>3, PledgeStays
    <2>5. ASSUME NEW d \in Cycles, ReplayCommand(d) PROVE Pledged(c)'
      <3>1. /\ UNCHANGED <<toBcast, jobs, inflight, pc, cyc, toMaster, tasks, bcast, link>>
            /\ replaying' = replaying \ {d} /\ SendDirect("command", d)
            /\ cmdq' = [cmdq EXCEPT ![d] = IF @ = "none" THEN @ ELSE "replayed"]
        BY <2>5 DEF ReplayCommand
      <3>2. Frames \cup {[kind |-> "command", cycle |-> d]} \subseteq Frames'
        BY <1>0, <3>1, StreamsGrow
      <3>3. CASE d = c
        BY <3>2, <3>3 DEF Pledged
      <3>4. CASE d # c
        <4>1. Pledged(c)
          BY <1>0, <3>1, <3>4
        <4> QED BY <1>a, <1>r, <1>s, <3>1, <3>2, <3>4, <4>1, PledgeStays
      <3> QED BY <3>3, <3>4
    <2>6. ASSUME NEW d \in Cycles, RecordEvent(d) PROVE Pledged(c)'
      <3>1. UNCHANGED <<cmdq, toBcast, replaying, jobs, inflight, pc, cyc, toMaster, tasks, direct, bcast, link>>
        BY <2>6 DEF RecordEvent
      <3> QED BY <1>a, <1>r, <1>s, <1>f, <1>q, <3>1, PledgeStays
    <2> QED BY <1>2, <2>1, <2>2, <2>3, <2>4, <2>5, <2>6 DEF MasterTask
  \* One step of a ModelAck: at the end it is on the connection, if there is one.
  <1>3. ASSUME NEW b \in Actors, ModelAckBy(b) PROVE Pledged(c)'
    <2>1. /\ UNCHANGED <<cmdq, toBcast, replaying, jobs, inflight, link, tasks, direct, bcast>>
          /\ pc[b] \in Acking /\ cyc[b] \in AnyCycle
          /\ \A a \in Actors \ {b} : pc'[a] = pc[a] /\ cyc'[a] = cyc[a]
          /\ b = "runner" => cyc' = cyc
      BY <1>0, <1>3 DEF ModelAckBy, JournalAck, MarkComplete, LedgerComplete, SendModelAck, AckStep, Acking
    <2>2. CASE ~SendModelAck(b)
      <3>1. UNCHANGED <<toMaster, cyc>> /\ pc'[b] \in Acking
        BY <1>0, <1>3, <2>2 DEF ModelAckBy, JournalAck, MarkComplete, LedgerComplete, AckStep, Acking
      <3>2. \A a \in Actors : pc[a] \in Acking /\ cyc[a] = c => AckDue(c)'
        BY <2>1, <3>1 DEF AckDue, Acking
      <3>3. ToRun(c) => ToRun(c)'
        BY <1>j, <2>1, <3>1 DEF ToRun, Acking
      <3> QED BY <1>s, <1>f, <1>q, <2>1, <3>1, <3>2, <3>3, PledgeStays
    <2>3. CASE SendModelAck(b)
      <3>1. SendToMaster(Msg("modelAck", cyc[b])) /\ (b = "runner" => pc'.runner = "finish")
            /\ pc' = [pc EXCEPT ![b] = AckSent(b)]
        BY <1>0, <2>3 DEF SendModelAck, AckStep, AckSent
      <3>2. /\ Spawned \subseteq Spawned'
            /\ link # "down" => Task([kind |-> "modelAck", cycle |-> cyc[b]], TRUE) \in Spawned'
        BY <1>0, <2>1, <3>1, OneReaches DEF MasterKinds
      <3>3. CASE link = "down"
        BY <2>1, <3>3 DEF Pledged, ReplayDue
      <3>4. CASE link # "down" /\ cyc[b] = c
        <4>1. AckDue(c)'
          BY <3>2, <3>4 DEF AckDue, Task
        <4> QED BY <4>1 DEF Pledged
      <3>5. CASE cyc[b] # c
        <4>1. \A a \in Actors : pc[a] \in Acking /\ cyc[a] = c => AckDue(c)'
          BY <2>1, <3>5 DEF AckDue, Acking
        <4>2. ToRun(c) => ToRun(c)'
          BY <1>j, <2>1, <3>5 DEF ToRun, Acking
        <4> QED BY <1>f, <1>q, <2>1, <3>2, <4>1, <4>2, PledgeStays
      <3> QED BY <3>3, <3>4, <3>5
    <2> QED BY <2>2, <2>3
  <1>4. CASE Reader
    <2>1. ASSUME NEW frame \in Frames, ClaimCommand(frame) PROVE Pledged(c)'
      <3>1. /\ UNCHANGED <<cmdq, toBcast, replaying, jobs, inflight, link, toMaster, tasks>>
            /\ pc.reader = "idle" /\ pc'.reader = "add" /\ cyc'.reader = frame.cycle
            /\ pc'.runner = pc.runner /\ cyc'.runner = cyc.runner
            /\ frame.kind = "command" /\ Frames \ {frame} \subseteq Frames'
        BY <1>0, <2>1, ReceiveLeaves DEF ClaimCommand, Receive, ReaderTo
      <3>2. CASE frame.cycle = c
        BY <3>1, <3>2 DEF Pledged, ToRun
      <3>3. CASE frame.cycle # c
        <4>1. \A a \in Actors : pc[a] \in Acking /\ cyc[a] = c => AckDue(c)'
          BY <3>1 DEF AckDue, Acking
        <4>2. ToRun(c) => ToRun(c)'
          BY <1>j, <3>1 DEF ToRun
        <4> QED BY <1>s, <1>q, <3>1, <3>3, <4>1, <4>2, PledgeStays
      <3> QED BY <3>2, <3>3
    \* A duplicate is dropped while its command has a job, and answered when it is completed.
    <2>2. ASSUME NEW frame \in Frames, DuplicateCommand(frame) PROVE Pledged(c)'
      <3>1. /\ UNCHANGED <<cmdq, toBcast, replaying, jobs, inflight, link, toMaster, tasks>>
            /\ pc.reader = "idle" /\ pc'.runner = pc.runner /\ cyc'.runner = cyc.runner
            /\ pc'.reader \in {"idle", "ack"}
            /\ frame.kind = "command" /\ Frames \ {frame} \subseteq Frames' /\ ledger[frame.cycle] # "none"
            /\ ledger[frame.cycle] = "completed" => pc'.reader = "ack" /\ cyc'.reader = frame.cycle
        BY <1>0, <2>2, ReceiveLeaves DEF DuplicateCommand, Receive, ReaderTo
      <3>2. ToRun(c) => ToRun(c)'
        BY <1>j, <3>1 DEF ToRun
      <3>3. CASE frame.cycle = c /\ ledger[c] = "completed"
        BY <3>1, <3>3 DEF Pledged, AckDue
      <3>4. CASE frame.cycle = c /\ ledger[c] # "completed"
        <4>1. c \in Queued
          BY <1>0, <3>1, <3>4 DEF Kept
        <4>2. ~(pc.runner = "finish" /\ cyc.runner = c)
          BY <3>4 DEF Kept
        <4> QED BY <3>2, <4>1, <4>2 DEF ToRun, Pledged
      <3>5. CASE frame.cycle # c
        <4>1. \A a \in Actors : pc[a] \in Acking /\ cyc[a] = c => AckDue(c)'
          BY <3>1 DEF AckDue, Acking
        <4> QED BY <1>s, <1>q, <3>1, <3>2, <3>5, <4>1, PledgeStays
      <3> QED BY <3>3, <3>4, <3>5
    <2>3. ASSUME NEW frame \in Frames, ReceiveCycleAck(frame) PROVE Pledged(c)'
      <3>1. /\ UNCHANGED <<cmdq, toBcast, replaying, jobs, inflight, pc, cyc, link, toMaster, tasks>>
            /\ frame.kind = "cycleAck" /\ Frames \ {frame} \subseteq Frames'
        BY <1>0, <2>3, ReceiveLeaves DEF ReceiveCycleAck
      <3> QED BY <1>a, <1>r, <1>s, <1>q, <3>1, PledgeStays
    <2>4. ASSUME NEW frame \in Frames, ReceiveTraitsRequest(frame) PROVE Pledged(c)'
      <3>1. UNCHANGED <<link, tasks>> /\ SendToMaster(Msg("traits", NoCycle))
        BY <2>4 DEF ReceiveTraitsRequest
      <3>2. link # "down" => Task([kind |-> "traits", cycle |-> NoCycle], TRUE) \in Spawned'
        BY <1>0, <3>1, OneReaches DEF MasterKinds, AnyCycle
      <3> QED BY <3>1, <3>2 DEF Pledged, ReplayDue, Task
    <2>5. CASE AddJob
      <3>1. /\ UNCHANGED <<cmdq, toBcast, replaying, link, toMaster, tasks, direct, bcast>>
            /\ pc.reader = "add" /\ pc'.reader = "idle"
            /\ pc'.runner = pc.runner /\ cyc'.runner = cyc.runner
        BY <1>0, <2>5 DEF AddJob, ReaderTo
      <3>2. Queued' = Queued \cup {cyc.reader}
        BY <1>0, <2>5, JobAdded
      <3>3. pc.runner = "finish" => cyc.runner # cyc.reader
        BY <3>1 DEF Listed
      <3>4. ToRun(c) => ToRun(c)'
        BY <3>1, <3>2, <3>3 DEF ToRun
      <3>5. \A a \in Actors : pc[a] \in Acking /\ cyc[a] = c => AckDue(c)'
        BY <3>1 DEF AckDue, Acking
      <3> QED BY <1>s, <1>f, <1>q, <3>1, <3>4, <3>5, PledgeStays
    <2>6. ASSUME NEW d \in Cycles, ReplayCycle(d) PROVE Pledged(c)'
      <3> DEFINE fs == (IF "event" \in todo[d] THEN Msg("event", d) ELSE <<>>)
                       \o (IF "modelAck" \in todo[d] THEN Msg("modelAck", d) ELSE <<>>)
      <3>1. /\ UNCHANGED <<cmdq, toBcast, replaying, jobs, inflight, link, tasks, direct, bcast>>
            /\ pc.reader = "replay" /\ pc'.reader # "add" /\ SendToMaster(fs)
            /\ pc'.runner = pc.runner /\ cyc'.runner = cyc.runner
        BY <1>0, <2>6 DEF ReplayCycle, ReaderTo
      <3>2. Msg("event", d) \in Seq(MasterFrames) /\ Msg("modelAck", d) \in Seq(MasterFrames)
        BY DEF Msg, MasterFrames, MasterKinds, AnyCycle
      <3>3. fs \in Seq(MasterFrames)
        BY <3>2
      <3> HIDE DEF fs
      <3>4. Spawned \subseteq Spawned'
        BY <1>0, <3>1, <3>3, SendReaches
      <3>5. \A a \in Actors : pc[a] \in Acking /\ cyc[a] = c => AckDue(c)'
        BY <3>1 DEF AckDue, Acking
      <3>6. ToRun(c) => ToRun(c)'
        BY <1>j, <3>1 DEF ToRun
      <3> QED BY <1>f, <1>q, <3>1, <3>4, <3>5, <3>6, PledgeStays
    <2> QED BY <1>3, <1>4, <2>1, <2>2, <2>3, <2>4, <2>5, <2>6 DEF Reader
  <1>5. CASE Execute
    \* The runner moves on, and the job stays where it is.
    <2>w. ASSUME UNCHANGED <<cmdq, toBcast, replaying, link, tasks, direct, bcast>>, Queued' = Queued,
                 Spawned \subseteq Spawned', pc.runner \notin Acking,
                 pc'.runner # "finish", pc'.reader = pc.reader, cyc'.reader = cyc.reader
          PROVE  Pledged(c)'
      <3>1. \A a \in Actors : pc[a] \in Acking /\ cyc[a] = c => AckDue(c)'
        BY <2>w DEF AckDue, Acking
      <3>2. ToRun(c) => ToRun(c)'
        BY <2>w DEF ToRun
      <3> QED BY <1>f, <1>q, <2>w, <3>1, <3>2, PledgeStays
    <2> USE DEF RunnerTo
    <2>1. CASE FetchJob
      <3>1. /\ UNCHANGED <<cmdq, toBcast, replaying, link, toMaster, tasks, direct, bcast>>
            /\ pc.runner = "idle" /\ pc'.runner = "check" /\ pc'.reader = pc.reader /\ cyc'.reader = cyc.reader
        BY <1>0, <2>1 DEF FetchJob
      <3>2. Queued' = Queued
        BY <1>0, <2>1, LineSteps DEF Listed
      <3> QED BY <1>s, <2>w, <3>1, <3>2 DEF Acking
    <2>2. CASE CheckCompleted
      <3>1. pc.runner = "check" /\ cyc.runner \notin started
        BY <1>0, <2>2, LineSteps DEF CheckCompleted, Enlisted, Fetched
      <3>2. /\ UNCHANGED <<cmdq, toBcast, replaying, link, toMaster, tasks, direct, bcast, jobs, inflight, cyc>>
            /\ pc'.runner = "dispatch" /\ pc'.reader = pc.reader
        BY <1>0, <2>2, <3>1 DEF CheckCompleted, Kept
      <3> QED BY <1>j, <1>s, <2>w, <3>1, <3>2 DEF Acking
    <2>3. ASSUME StartModel \/ ActionEvent \/ EndModel PROVE Pledged(c)'
      <3>1. /\ UNCHANGED <<cmdq, toBcast, replaying, link, tasks, direct, bcast, jobs, inflight, cyc>>
            /\ pc.runner \in {"dispatch", "actions", "model"} /\ pc'.runner \in {"actions", "model", "ack"}
            /\ pc'.reader = pc.reader
            /\ UNCHANGED toMaster \/ SendToMaster(Msg("event", cyc.runner))
        BY <1>0, <2>3 DEF StartModel, ActionEvent, EndModel, Dispatch, JournalAndSend
      <3>2. Spawned \subseteq Spawned'
        BY <1>0, <1>s, <3>1, OneReaches DEF MasterKinds
      <3> QED BY <1>j, <2>w, <3>1, <3>2 DEF Acking
    <2>4. CASE AckJob
      <3>1. /\ UNCHANGED <<cmdq, toBcast, replaying, link, toMaster, tasks, direct, bcast>>
            /\ pc.runner = "finish" /\ pc'.runner = "idle" /\ pc'.reader = pc.reader /\ cyc'.reader = cyc.reader
        BY <1>0, <2>4 DEF AckJob
      <3>2. Queued' = Queued \ {cyc.runner}
        <4>1. [Next]_vars /\ ~Idles
          BY <3>1 DEF Idles
        <4>2. (Queued' = Queued /\ Idles) \/ Added \/ Taken \/ Worked \/ Acked
          BY <4>1, QueueMoves
        <4> QED BY <3>1, <4>1, <4>2 DEF Added, Taken, Worked, Acked
      <3>3. \A a \in Actors : pc[a] \in Acking /\ cyc[a] = c => AckDue(c)'
        BY <3>1 DEF AckDue, Acking
      <3>4. ToRun(c) => ToRun(c)'
        BY <3>1, <3>2 DEF ToRun
      <3> QED BY <1>s, <1>f, <1>q, <3>1, <3>3, <3>4, PledgeStays
    <2> QED BY <1>3, <1>5, <2>1, <2>2, <2>3, <2>4 DEF Execute
  <1>6. CASE SendEhlo
    <2>1. link = "secured" /\ UNCHANGED tasks /\ SendToMaster(Msg("ehlo", NoCycle))
      BY <1>6 DEF SendEhlo
    <2>2. Task([kind |-> "ehlo", cycle |-> NoCycle], TRUE) \in Spawned'
      BY <1>0, <2>1, OneReaches DEF MasterKinds, AnyCycle
    <2> QED BY <2>2 DEF Pledged, ReplayDue, Task
  <1>7. CASE Connect \/ LinkDrop \/ MasterCrash
    BY <1>7 DEF Connect, LinkDrop, MasterCrash, CutConnection, Pledged, ReplayDue
  <1> QED BY <1>1, <1>2, <1>4, <1>5, <1>6, <1>7 DEF Next, Connection

\* The safety half of "delivery is at-least-once": lost connections and restarts of the master,
\* in any number and at any point, leave a queued command on its way to the minion, in the
\* minion's queue, or with its ModelAck due, unless the next replay is already under way.
THEOREM NeverStranded == Spec => []NothingStranded
  <1> DEFINE I == NothingStranded
  <1>1. Init => I
    BY DEF Init, NothingStranded
  <1>2. Inv /\ Listed /\ Listed' /\ Claims /\ I /\ [Next]_vars => I'
    <2> SUFFICES ASSUME Inv, Listed, Listed', Claims, I, [Next]_vars PROVE I'
      OBVIOUS
    <2>1. CASE UNCHANGED vars
      <3>1. Queued' = Queued /\ Spawned' = Spawned /\ Frames' = Frames
        BY <2>1 DEF vars, Queued, Spawned, Frames
      <3> QED BY <2>1, <3>1 DEF vars, NothingStranded, Unbroken, Pledged, ReplayDue, ToRun, AckDue
    <2>2. CASE Next
      <3> SUFFICES ASSUME Unbroken', NEW c \in Cycles, cmdq'[c] # "none" PROVE Pledged(c)'
        BY DEF NothingStranded
      <3>1. Unbroken /\ ~MinionCrash /\ ~AddFails /\ ~RefuseLaunch
        BY FaultsNext DEF Claims, Unbroken
      <3>2. Kept /\ (cmdq[c] # "none" => Pledged(c))
        BY <3>1, TendedKeeps DEF Claims, Unbroken, NothingStranded
      <3> QED BY <2>2, <3>1, <3>2, PledgeNext
    <2> QED BY <2>1, <2>2
  <1> HIDE DEF I
  <1>3. Spec => []I
    BY InvHolds, QueuedFacts, ClaimsHold, <1>1, <1>2, PTL DEF Spec
  <1> QED BY <1>3 DEF I
=============================================================================
