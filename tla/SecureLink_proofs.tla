-------------------------- MODULE SecureLink_proofs -------------------------
(***************************************************************************)
(* Theorems about the secure link of SecureLink.tla, for any number of     *)
(* senders, connections and messages.                                      *)
(*                                                                         *)
(* That the master opens a prefix of what was sealed follows from what     *)
(* holds of every frame on its way (FramesOK): its counter and session say *)
(* where in the order of sealing it belongs.  That nothing is refused when *)
(* sends do not overlap needs the exact contents of the wire (Lockstep).   *)
(***************************************************************************)
EXTENDS SecureLink, TLAPS

Between == {"opened", "cleared", "hello"}

(* Where the recovery is and what belongs to the latest connection.        *)
PhaseOK ==
    /\ chan <= conn
    /\ phase \in Between => conn # 0 /\ chan < conn /\ sealed[conn] = <<>>
    /\ phase = "secure" => conn # 0 /\ chan = conn
    /\ phase \in {"cleared", "hello"} => chan = 0
    /\ alive => stream /\ phase # "down"
    /\ peer \/ wire # <<>> \/ alive => conn # 0

(* Sessions that did not begin are empty, and no session has more messages *)
(* than were sent.                                                         *)
SealedOK ==
    /\ \A e \in Sessions : e > conn => sealed[e] = <<>> /\ opened[e] = <<>>
    /\ \A e \in Sessions : Len(sealed[e]) <= sent

(* A sealed frame is the message of its session with its counter.          *)
Genuine(f) == f.session # 0 => /\ f.n \in 1 .. Len(sealed[f.session])
                               /\ sealed[f.session][f.n] = f.msg

FramesOK == /\ \A s \in Busy : Genuine(held[s][1])
            /\ \A i \in DOMAIN wire : Genuine(wire[i])

(* The master's side: its counter is the number of messages opened, and    *)
(* these are the first ones sealed.                                        *)
OpenedOK ==
    /\ peer => rx = Len(opened[conn])
    /\ ~peer /\ (alive \/ wire # <<>>) => opened[conn] = <<>>
    /\ \A e \in Sessions : /\ Len(opened[e]) <= Len(sealed[e])
                           /\ \A i \in 1 .. Len(opened[e]) : opened[e][i] = sealed[e][i]

LinkInv == TypeOK /\ PhaseOK /\ SealedOK /\ CounterIsFresh /\ FramesOK /\ OpenedOK

(* As long as no send overlapped anything: one frame at most is about to   *)
(* be written, it is the newest of the session, and the wire carries the   *)
(* hello or the frames the master expects, without a gap.                  *)
Single ==
    /\ \A s, t \in Busy : s = t
    /\ phase \in Between => Busy = {}
    /\ phase = "secure" => \A s \in Busy : /\ held[s][1].session = conn
                                           /\ held[s][1].n = Len(sealed[conn])

Handshake ==
    /\ phase \in {"opened", "cleared"} => ~peer /\ wire = <<>>
    /\ phase = "hello" /\ peer => wire = <<>>
    /\ phase = "secure" => peer
    /\ \A i \in DOMAIN replies : replies[i] = "ack" => peer

Pause == IF Busy = {} THEN 0 ELSE 1
Counted == phase = "secure" /\ alive => Len(sealed[conn]) = rx + Len(wire) + Pause

InOrder ==
    /\ ~peer => wire \in {<<>>, <<Hello>>}
    /\ peer => \A i \in DOMAIN wire : wire[i].session = conn /\ wire[i].n = rx + i

Lockstep == ~refused /\ Single /\ Handshake /\ Counted /\ InOrder

Inv == LinkInv /\ (exclusive => Lockstep)

-----------------------------------------------------------------------------
LEMMA HelloIsFrame == Hello \in Frames
  BY BoundsAssumption DEF Hello, Plain, Frames

\* What a sender holds and what is on the wire are frames.
LEMMA FrameTypes ==
    ASSUME TypeOK
    PROVE  /\ \A s \in Busy : held[s] = <<held[s][1]>> /\ held[s][1] \in Frames
           /\ \A i \in DOMAIN wire : wire[i] \in Frames
  BY DEF TypeOK, Busy

\* Reading a frame leaves the ones behind it.
LEMMA TailFrames ==
    ASSUME TypeOK, wire # <<>>
    PROVE  /\ Head(wire) = wire[1] /\ 1 \in DOMAIN wire /\ Tail(wire) \in Seq(Frames)
           /\ Len(Tail(wire)) = Len(wire) - 1
           /\ \A i \in DOMAIN Tail(wire) : i + 1 \in DOMAIN wire /\ Tail(wire)[i] = wire[i + 1]
  BY DEF TypeOK

\* A frame that is written comes last.
LEMMA AppendWire ==
    ASSUME NEW q \in Seq(Frames), NEW f \in Frames
    PROVE  /\ q \o <<f>> = Append(q, f) /\ Append(q, f) \in Seq(Frames)
           /\ Len(Append(q, f)) = Len(q) + 1 /\ Append(q, f)[Len(q) + 1] = f
           /\ \A i \in DOMAIN Append(q, f) :
                 (i \in DOMAIN q /\ Append(q, f)[i] = q[i]) \/ (i = Len(q) + 1 /\ Append(q, f)[i] = f)
  OBVIOUS

\* A message that is added to a session leaves the others as they are.
LEMMA AppendTo ==
    ASSUME NEW q \in [Sessions -> Seq(Messages)], NEW e \in Sessions, NEW m \in Messages
    PROVE  LET r == [q EXCEPT ![e] = Append(@, m)]
           IN  /\ r \in [Sessions -> Seq(Messages)]
               /\ Len(r[e]) = Len(q[e]) + 1 /\ r[e][Len(q[e]) + 1] = m
               /\ \A i \in 1 .. Len(q[e]) : r[e][i] = q[e][i]
               /\ \A d \in Sessions \ {e} : r[d] = q[d]
  <1>1. q[e] \in Seq(Messages)
    OBVIOUS
  <1> QED
    BY <1>1

\* A link that has never been opened.
LEMMA LinkInit == Init => Inv
  <1> SUFFICES ASSUME Init PROVE Inv
    OBVIOUS
  <1> USE BoundsAssumption DEF Init
  <1>1. TypeOK
    <2>1. held \in [Senders -> {<<>>} \cup {<<g>> : g \in Frames}]
      OBVIOUS
    <2>2. wire \in Seq(Frames) /\ replies \in Seq({"ack", "diag"})
      OBVIOUS
    <2>3. sealed \in [Sessions -> Seq(Messages)] /\ opened \in [Sessions -> Seq(Messages)]
      OBVIOUS
    <2>4. 0 \in 0 .. MaxConns /\ 0 \in 0 .. MaxMessages
      OBVIOUS
    <2> QED
      BY <2>1, <2>2, <2>3, <2>4 DEF TypeOK
  <1>2. PhaseOK /\ SealedOK /\ CounterIsFresh /\ FramesOK /\ OpenedOK
    BY DEF PhaseOK, Between, SealedOK, CounterIsFresh, FramesOK, Genuine, Busy, OpenedOK
  <1>3. Lockstep
    BY DEF Lockstep, Single, Handshake, Counted, InOrder, Between, Busy
  <1> QED
    BY <1>1, <1>2, <1>3 DEF Inv, LinkInv

\* Sealing keeps the invariant, with a channel and without one.
LEMMA SealKeeps ==
    ASSUME LinkInv, NEW s \in Senders, Seal(s)
    PROVE  LinkInv'
  <1> DEFINE m == sent + 1
  <1> USE BoundsAssumption DEF Seal, LinkInv, netVars, masterVars
  <1>1. m \in Messages /\ sent \in Nat
    BY DEF TypeOK, Messages
  <1>2. CASE chan # 0
    <2> USE <1>2
    <2>1. /\ tx' = tx + 1 /\ sealed' = [sealed EXCEPT ![chan] = Append(@, m)]
          /\ held' = [held EXCEPT ![s] = <<[session |-> chan, n |-> tx + 1, msg |-> m]>>]
      OBVIOUS
    <2>2. /\ chan \in Sessions /\ tx \in Nat /\ tx = Len(sealed[chan]) /\ tx <= sent
          /\ tx + 1 \in 1 .. MaxMessages
      BY DEF TypeOK, Sessions, CounterIsFresh, SealedOK
    <2>3. PICK f \in Frames : /\ f.session = chan /\ f.n = tx + 1 /\ f.msg = m
                              /\ held' = [held EXCEPT ![s] = <<f>>]
      <3>1. [session |-> chan, n |-> tx + 1, msg |-> m] \in Frames
        BY <1>1, <2>2 DEF Frames, Messages, Sessions
      <3> QED
        BY <2>1, <3>1
    <2>4. /\ sealed' \in [Sessions -> Seq(Messages)]
          /\ Len(sealed'[chan]) = tx + 1 /\ sealed'[chan][tx + 1] = m
          /\ \A i \in 1 .. tx : sealed'[chan][i] = sealed[chan][i]
          /\ \A e \in Sessions \ {chan} : sealed'[e] = sealed[e]
      BY <1>1, <2>1, <2>2, AppendTo DEF TypeOK
    <2>5. /\ held' \in [Senders -> {<<>>} \cup {<<g>> : g \in Frames}] /\ held'[s] = <<f>>
          /\ Busy' = Busy \cup {s} /\ \A t \in Busy' \ {s} : held'[t] = held[t]
      BY <2>3 DEF TypeOK, Busy
    <2>6. \A g \in Frames : Genuine(g) => (Genuine(g))'
      <3> SUFFICES ASSUME NEW g \in Frames, Genuine(g), g.session # 0
                   PROVE  /\ g.n \in 1 .. Len(sealed'[g.session])
                          /\ sealed'[g.session][g.n] = g.msg
        BY DEF Genuine
      <3>1. g.session \in Sessions /\ g.n \in 1 .. Len(sealed[g.session])
            /\ sealed[g.session][g.n] = g.msg
        BY DEF Genuine, Frames, Sessions
      <3>2. CASE g.session = chan
        BY <2>2, <2>4, <3>1, <3>2 DEF Messages
      <3>3. CASE g.session # chan
        BY <2>4, <3>1, <3>3
      <3> QED
        BY <3>2, <3>3
    <2>7. Genuine(f)'
      <3>1. f.n \in 1 .. Len(sealed'[chan]) /\ sealed'[chan][f.n] = f.msg
        BY <2>2, <2>3, <2>4
      <3> QED
        BY <2>3, <3>1 DEF Genuine
    <2>8. TypeOK'
      <3>1. tx' \in 0 .. MaxMessages /\ sent' \in 0 .. MaxMessages
        BY <1>1, <2>1, <2>2 DEF Messages
      <3> QED
        BY <2>4, <2>5, <3>1 DEF TypeOK
    <2>9. PhaseOK'
      <3>1. phase \in Between => chan # conn /\ conn \in Sessions
        BY DEF PhaseOK, TypeOK, Sessions
      <3> QED
        BY <2>4, <3>1 DEF PhaseOK, Between
    <2>10. SealedOK'
      <3>1. sent' = sent + 1 /\ \A e \in Sessions : Len(sealed[e]) \in Nat /\ Len(sealed[e]) <= sent
        BY DEF SealedOK, TypeOK
      <3>2. \A e \in Sessions : e > conn => e # chan
        BY DEF PhaseOK, TypeOK, Sessions
      <3>3. \A e \in Sessions : Len(sealed'[e]) <= sent'
        <4>1. Len(sealed'[chan]) <= sent'
          BY <1>1, <2>2, <2>4, <3>1
        <4>2. \A e \in Sessions \ {chan} : Len(sealed'[e]) <= sent'
          BY <1>1, <2>4, <3>1
        <4> QED
          BY <4>1, <4>2
      <3> QED
        BY <2>4, <3>2, <3>3 DEF SealedOK
    <2>11. CounterIsFresh'
      BY <2>1, <2>4 DEF CounterIsFresh
    <2>12. FramesOK'
      <3>1. \A t \in Busy' : (Genuine(held[t][1]))'
        <4> SUFFICES ASSUME NEW t \in Busy' PROVE (Genuine(held[t][1]))'
          OBVIOUS
        <4>1. CASE t = s
          <5>1. held'[t][1] = f
            BY <2>5, <4>1
          <5> QED
            BY <2>7, <5>1 DEF Genuine
        <4>2. CASE t # s
          <5>1. t \in Busy /\ held'[t] = held[t] /\ held[t][1] \in Frames /\ Genuine(held[t][1])
            BY <2>5, <4>2, FrameTypes DEF FramesOK
          <5> QED
            BY <2>6, <5>1 DEF Genuine
        <4> QED
          BY <4>1, <4>2
      <3>2. \A i \in DOMAIN wire : (Genuine(wire[i]))'
        BY <2>6, FrameTypes DEF FramesOK, Genuine
      <3> QED
        BY <3>1, <3>2 DEF FramesOK
    <2>13. OpenedOK'
      <3>1. Len(opened[chan]) \in Nat /\ Len(opened[chan]) <= tx
        BY <2>2 DEF OpenedOK, TypeOK
      <3>2. /\ Len(opened[chan]) <= Len(sealed'[chan])
            /\ \A i \in 1 .. Len(opened[chan]) : opened[chan][i] = sealed'[chan][i]
        <4>1. \A i \in 1 .. Len(opened[chan]) : opened[chan][i] = sealed[chan][i]
          BY <2>2 DEF OpenedOK
        <4>2. \A i \in 1 .. Len(opened[chan]) : i \in 1 .. tx
          BY <2>2, <3>1
        <4> QED
          BY <2>2, <2>4, <3>1, <4>1, <4>2
      <3>3. \A e \in Sessions \ {chan} :
               /\ Len(opened[e]) <= Len(sealed'[e])
               /\ \A i \in 1 .. Len(opened[e]) : opened[e][i] = sealed'[e][i]
        BY <2>4 DEF OpenedOK
      <3> QED
        BY <3>2, <3>3 DEF OpenedOK
    <2> QED
      BY <2>8, <2>9, <2>10, <2>11, <2>12, <2>13
  <1>3. CASE chan = 0
    <2>1. Plain(m) \in Frames
      BY <1>1 DEF Plain, Frames, Messages
    <2> DEFINE f == Plain(m)
    <2>a. held' = [held EXCEPT ![s] = <<f>>] /\ f \in Frames
      BY <1>3, <2>1
    <2> HIDE DEF f
    <2>2. /\ held' \in [Senders -> {<<>>} \cup {<<g>> : g \in Frames}] /\ held'[s] = <<f>>
          /\ Busy' = Busy \cup {s} /\ \A t \in Busy' \ {s} : held'[t] = held[t]
      BY <2>a DEF TypeOK, Busy
    <2>3. TypeOK'
      <3>1. sent' \in 0 .. MaxMessages
        BY <1>1 DEF Messages
      <3> QED
        BY <1>3, <2>2, <3>1 DEF TypeOK
    <2>4. PhaseOK' /\ CounterIsFresh'
      BY <1>3 DEF PhaseOK, Between, CounterIsFresh
    <2>5. SealedOK'
      BY <1>1, <1>3 DEF SealedOK, TypeOK
    <2>6. FramesOK'
      BY <1>3, <2>2 DEF FramesOK, Genuine, Plain, Busy, f
    <2>7. OpenedOK'
      BY <1>3 DEF OpenedOK
    <2> QED
      BY <2>3, <2>4, <2>5, <2>6, <2>7
  <1> QED
    BY <1>2, <1>3

\* Every step of sender, recovery, network and reader keeps it.
LEMMA LinkNext == LinkInv /\ [Next]_vars => LinkInv'
  <1> SUFFICES ASSUME TypeOK, PhaseOK, SealedOK, CounterIsFresh, FramesOK, OpenedOK, [Next]_vars
               PROVE  LinkInv'
    BY DEF LinkInv
  <1> USE BoundsAssumption DEF minionVars, netVars, masterVars, Sessions
  <1>1. ASSUME NEW s \in Senders, Seal(s) PROVE LinkInv'
    BY <1>1, SealKeeps DEF LinkInv
  <1>2. ASSUME NEW s \in Senders, Write(s) PROVE LinkInv'
    <2> USE <1>2 DEF Write
    <2>a. held[s] = <<held[s][1]>> /\ held[s][1] \in Frames
      BY FrameTypes DEF Busy
    <2> DEFINE f == held[s][1]
    <2>e. wire' = wire \/ (stream /\ alive /\ wire' = wire \o <<f>>)
      BY <2>a
    <2>g. f \in Frames /\ wire \in Seq(Frames)
      BY <2>a DEF TypeOK
    <2> HIDE DEF f
    <2>b. /\ wire' \in Seq(Frames)
          /\ wire' = wire \/ (/\ stream /\ alive /\ wire' = Append(wire, f)
                              /\ \A i \in DOMAIN wire' : \/ i \in DOMAIN wire /\ wire'[i] = wire[i]
                                                       \/ wire'[i] = f)
      <3>1. CASE wire' = wire
        BY <2>g, <3>1
      <3>2. CASE stream /\ alive /\ wire' = wire \o <<f>>
        <4>1. wire' = Append(wire, f)
          BY <2>g, <3>2, AppendWire
        <4>2. /\ Append(wire, f) \in Seq(Frames)
              /\ \A i \in DOMAIN Append(wire, f) : \/ i \in DOMAIN wire /\ Append(wire, f)[i] = wire[i]
                                                   \/ Append(wire, f)[i] = f
          BY <2>g, AppendWire
        <4> QED
          BY <3>2, <4>1, <4>2
      <3> QED
        BY <2>e, <3>1, <3>2
    <2>c. held' \in [Senders -> {<<>>} \cup {<<g>> : g \in Frames}]
      BY DEF TypeOK
    <2>d. Busy' \subseteq Busy /\ \A t \in Busy' : held'[t] = held[t]
      BY DEF Busy, TypeOK
    <2>1. TypeOK'
      BY <2>b, <2>c DEF TypeOK
    <2>2. PhaseOK'
      BY <2>b DEF PhaseOK, Between
    <2>3. SealedOK'
      BY DEF TypeOK, SealedOK
    <2>4. CounterIsFresh'
      BY DEF TypeOK, CounterIsFresh, PhaseOK, Between
    <2>5. FramesOK'
      <3>1. Genuine(f) /\ sealed' = sealed
        BY DEF FramesOK, Busy, f
      <3>2. \A i \in DOMAIN wire' : Genuine(wire'[i])
        BY <2>b, <3>1 DEF FramesOK
      <3> QED
        BY <2>d, <3>1, <3>2 DEF FramesOK, Genuine
    <2>6. OpenedOK'
      BY <2>b DEF OpenedOK, PhaseOK
    <2> QED
      BY <2>1, <2>2, <2>3, <2>4, <2>5, <2>6 DEF LinkInv
  <1>3. CASE ClearStreams
    <2> USE <1>3 DEF ClearStreams
    <2>1. TypeOK'
      BY DEF TypeOK, Frames, Plain, Hello
    <2>2. PhaseOK'
      BY DEF TypeOK, PhaseOK, Between
    <2>3. SealedOK'
      BY DEF TypeOK, SealedOK
    <2>4. CounterIsFresh'
      BY DEF TypeOK, CounterIsFresh, PhaseOK, Between
    <2>5. FramesOK'
      BY FrameTypes, TailFrames DEF TypeOK, FramesOK, Busy, Genuine, Plain, Hello
    <2>6. OpenedOK'
      BY FrameTypes, TailFrames DEF TypeOK, OpenedOK, PhaseOK
    <2> QED
      BY <2>1, <2>2, <2>3, <2>4, <2>5, <2>6 DEF LinkInv
  <1>4. CASE OpenStream
    <2> USE <1>4 DEF OpenStream
    <2>1. TypeOK'
      <3>1. /\ conn' \in 0 .. MaxConns /\ chan' \in 0 .. MaxConns
            /\ tx' \in 0 .. MaxMessages /\ rx' \in 0 .. MaxMessages
        BY DEF TypeOK
      <3>2. wire' \in Seq(Frames) /\ replies' \in Seq({"ack", "diag"})
        OBVIOUS
      <3> QED
        BY <3>1, <3>2 DEF TypeOK
    <2>2. PhaseOK'
      <3>1. conn' \in Sessions /\ conn' > conn /\ conn \in Nat /\ chan \in Nat
        BY DEF TypeOK
      <3> QED
        BY <3>1 DEF PhaseOK, SealedOK, Between
    <2>3. SealedOK'
      <3>1. conn' = conn + 1 /\ conn \in Nat /\ \A e \in Sessions : e \in Nat
        BY DEF TypeOK
      <3> QED
        BY <3>1 DEF SealedOK
    <2>4. CounterIsFresh'
      BY DEF TypeOK, CounterIsFresh, PhaseOK, Between
    <2>5. FramesOK'
      BY FrameTypes, TailFrames DEF TypeOK, FramesOK, Busy, Genuine, Plain, Hello
    <2>6. OpenedOK'
      <3>1. conn' \in Sessions /\ conn' > conn
        BY DEF TypeOK
      <3> QED
        BY <3>1 DEF OpenedOK, SealedOK
    <2> QED
      BY <2>1, <2>2, <2>3, <2>4, <2>5, <2>6 DEF LinkInv
  <1>5. CASE ForgetChannel
    <2> USE <1>5 DEF ForgetChannel
    <2>1. TypeOK'
      BY DEF TypeOK
    <2>2. PhaseOK'
      BY DEF TypeOK, PhaseOK, Between
    <2>3. SealedOK'
      BY DEF TypeOK, SealedOK
    <2>4. CounterIsFresh'
      BY DEF TypeOK, CounterIsFresh, PhaseOK, Between
    <2>5. FramesOK'
      BY FrameTypes, TailFrames DEF TypeOK, FramesOK, Busy, Genuine, Plain, Hello
    <2>6. OpenedOK'
      BY FrameTypes, TailFrames DEF TypeOK, OpenedOK, PhaseOK
    <2> QED
      BY <2>1, <2>2, <2>3, <2>4, <2>5, <2>6 DEF LinkInv
  <1>6. CASE SendHello
    <2> USE <1>6 DEF SendHello
    <2>a. /\ wire' \in Seq(Frames)
          /\ wire' = wire \/ (/\ alive /\ wire' = Append(wire, Hello)
                              /\ \A i \in DOMAIN wire' : \/ i \in DOMAIN wire /\ wire'[i] = wire[i]
                                                       \/ wire'[i] = Hello)
      BY HelloIsFrame, AppendWire DEF TypeOK
    <2>1. TypeOK'
      BY <2>a DEF TypeOK
    <2>2. PhaseOK'
      BY <2>a DEF PhaseOK, Between
    <2>3. SealedOK'
      BY DEF TypeOK, SealedOK
    <2>4. CounterIsFresh'
      BY DEF TypeOK, CounterIsFresh, PhaseOK, Between
    <2>5. FramesOK'
      BY <2>a DEF FramesOK, Genuine, Busy, Hello, Plain
    <2>6. OpenedOK'
      BY <2>a DEF OpenedOK, PhaseOK
    <2> QED
      BY <2>1, <2>2, <2>3, <2>4, <2>5, <2>6 DEF LinkInv
  <1>7. CASE AcceptAck
    <2> USE <1>7 DEF AcceptAck
    <2>1. TypeOK'
      <3>1. replies' \in Seq({"ack", "diag"})
        BY DEF TypeOK
      <3> QED
        BY <3>1 DEF TypeOK
    <2>2. PhaseOK'
      BY DEF TypeOK, PhaseOK, Between
    <2>3. SealedOK'
      BY DEF TypeOK, SealedOK
    <2>4. CounterIsFresh'
      BY DEF TypeOK, CounterIsFresh, PhaseOK, Between
    <2>5. FramesOK'
      BY FrameTypes, TailFrames DEF TypeOK, FramesOK, Busy, Genuine, Plain, Hello
    <2>6. OpenedOK'
      BY FrameTypes, TailFrames DEF TypeOK, OpenedOK, PhaseOK
    <2> QED
      BY <2>1, <2>2, <2>3, <2>4, <2>5, <2>6 DEF LinkInv
  <1>8. CASE BootstrapFails
    <2> USE <1>8 DEF BootstrapFails
    <2>1. TypeOK'
      BY DEF TypeOK, Frames, Plain, Hello
    <2>2. PhaseOK'
      BY DEF TypeOK, PhaseOK, Between
    <2>3. SealedOK'
      BY DEF TypeOK, SealedOK
    <2>4. CounterIsFresh'
      BY DEF TypeOK, CounterIsFresh, PhaseOK, Between
    <2>5. FramesOK'
      BY FrameTypes, TailFrames DEF TypeOK, FramesOK, Busy, Genuine, Plain, Hello
    <2>6. OpenedOK'
      BY FrameTypes, TailFrames DEF TypeOK, OpenedOK, PhaseOK
    <2> QED
      BY <2>1, <2>2, <2>3, <2>4, <2>5, <2>6 DEF LinkInv
  <1>9. CASE LoseConnection
    <2> USE <1>9 DEF LoseConnection
    <2>1. TypeOK'
      BY DEF TypeOK, Frames, Plain, Hello
    <2>2. PhaseOK'
      BY DEF TypeOK, PhaseOK, Between
    <2>3. SealedOK'
      BY DEF TypeOK, SealedOK
    <2>4. CounterIsFresh'
      BY DEF TypeOK, CounterIsFresh, PhaseOK, Between
    <2>5. FramesOK'
      BY FrameTypes, TailFrames DEF TypeOK, FramesOK, Busy, Genuine, Plain, Hello
    <2>6. OpenedOK'
      BY FrameTypes, TailFrames DEF TypeOK, OpenedOK, PhaseOK
    <2> QED
      BY <2>1, <2>2, <2>3, <2>4, <2>5, <2>6 DEF LinkInv
  <1>10. CASE ReadHello
    <2> USE <1>10 DEF ReadHello
    <2>1. TypeOK'
      <3>1. wire' \in Seq(Frames) /\ replies' \in Seq({"ack", "diag"})
        BY TailFrames DEF TypeOK
      <3> QED
        BY <3>1 DEF TypeOK
    <2>2. PhaseOK'
      BY DEF TypeOK, PhaseOK, Between
    <2>3. SealedOK'
      BY DEF TypeOK, SealedOK
    <2>4. CounterIsFresh'
      BY DEF TypeOK, CounterIsFresh, PhaseOK, Between
    <2>5. FramesOK'
      BY FrameTypes, TailFrames DEF TypeOK, FramesOK, Busy, Genuine, Plain, Hello
    <2>6. OpenedOK'
      BY FrameTypes, TailFrames DEF TypeOK, OpenedOK, PhaseOK
    <2> QED
      BY <2>1, <2>2, <2>3, <2>4, <2>5, <2>6 DEF LinkInv
  <1>11. CASE OpenData
    <2> USE <1>11 DEF OpenData
    <2> DEFINE f == Head(wire)
    <2>a. /\ f \in Frames /\ f = wire[1] /\ conn \in Sessions /\ f.session = conn
          /\ f.n = rx + 1 /\ rx = Len(opened[conn])
      BY FrameTypes, TailFrames DEF TypeOK, PhaseOK, OpenedOK, Accepts, InSequence
    <2>b. f.n \in 1 .. Len(sealed[conn]) /\ sealed[conn][f.n] = f.msg
      BY <2>a, TailFrames DEF FramesOK, Genuine
    <2>c. f.msg \in Messages /\ f.n \in 0 .. MaxMessages
      <3>1. sealed[conn] \in Seq(Messages)
        BY <2>a DEF TypeOK
      <3>2. f.msg \in Messages
        BY <2>b, <3>1
      <3> QED
        BY <2>a, <3>2 DEF Frames
    <2>d. /\ opened' \in [Sessions -> Seq(Messages)]
          /\ Len(opened'[conn]) = f.n /\ opened'[conn][f.n] = f.msg
          /\ \A i \in 1 .. Len(opened[conn]) : opened'[conn][i] = opened[conn][i]
          /\ \A e \in Sessions \ {conn} : opened'[e] = opened[e]
      BY <2>a, <2>c, AppendTo DEF TypeOK
    <2> HIDE DEF f
    <2>1. TypeOK'
      <3>1. wire' \in Seq(Frames) /\ rx' \in 0 .. MaxMessages
        BY <2>c, TailFrames DEF f
      <3> QED
        BY <2>d, <3>1 DEF TypeOK
    <2>2. PhaseOK'
      BY DEF TypeOK, PhaseOK, Between
    <2>3. SealedOK'
      <3>1. \A e \in Sessions : e > conn => opened'[e] = opened[e]
        BY <2>a, <2>d
      <3> QED
        BY <3>1 DEF SealedOK
    <2>4. CounterIsFresh'
      BY DEF TypeOK, CounterIsFresh, PhaseOK, Between
    <2>5. FramesOK'
      BY FrameTypes, TailFrames DEF TypeOK, FramesOK, Busy, Genuine, Plain, Hello
    <2>6. OpenedOK'
      <3>1. peer' /\ rx' = Len(opened'[conn])
        BY <2>d DEF f
      <3>2. /\ Len(opened'[conn]) <= Len(sealed[conn])
            /\ \A i \in 1 .. Len(opened'[conn]) : opened'[conn][i] = sealed[conn][i]
        BY <2>a, <2>b, <2>d DEF OpenedOK, TypeOK
      <3>3. \A e \in Sessions \ {conn} :
               /\ Len(opened'[e]) <= Len(sealed[e])
               /\ \A i \in 1 .. Len(opened'[e]) : opened'[e][i] = sealed[e][i]
        BY <2>d DEF OpenedOK
      <3> QED
        BY <3>1, <3>2, <3>3 DEF OpenedOK
    <2> QED
      BY <2>1, <2>2, <2>3, <2>4, <2>5, <2>6 DEF LinkInv
  <1>12. CASE RejectData
    <2> USE <1>12 DEF RejectData
    <2>1. TypeOK'
      <3>1. wire' \in Seq(Frames)
        OBVIOUS
      <3> QED
        BY <3>1 DEF TypeOK
    <2>2. PhaseOK'
      BY DEF TypeOK, PhaseOK, Between
    <2>3. SealedOK'
      BY DEF TypeOK, SealedOK
    <2>4. CounterIsFresh'
      BY DEF TypeOK, CounterIsFresh, PhaseOK, Between
    <2>5. FramesOK'
      BY FrameTypes, TailFrames DEF TypeOK, FramesOK, Busy, Genuine, Plain, Hello
    <2>6. OpenedOK'
      BY FrameTypes, TailFrames DEF TypeOK, OpenedOK, PhaseOK
    <2> QED
      BY <2>1, <2>2, <2>3, <2>4, <2>5, <2>6 DEF LinkInv
  <1>13. CASE RefuseEarly
    <2> USE <1>13 DEF RefuseEarly
    <2>1. TypeOK'
      <3>1. wire' \in Seq(Frames) /\ replies' \in Seq({"ack", "diag"})
        BY TailFrames DEF TypeOK
      <3> QED
        BY <3>1 DEF TypeOK
    <2>2. PhaseOK'
      BY DEF TypeOK, PhaseOK, Between
    <2>3. SealedOK'
      BY DEF TypeOK, SealedOK
    <2>4. CounterIsFresh'
      BY DEF TypeOK, CounterIsFresh, PhaseOK, Between
    <2>5. FramesOK'
      BY FrameTypes, TailFrames DEF TypeOK, FramesOK, Busy, Genuine, Plain, Hello
    <2>6. OpenedOK'
      BY FrameTypes, TailFrames DEF TypeOK, OpenedOK, PhaseOK
    <2> QED
      BY <2>1, <2>2, <2>3, <2>4, <2>5, <2>6 DEF LinkInv
  <1>14. CASE UNCHANGED vars
    <2> USE <1>14 DEF vars
    <2>1. TypeOK'
      BY DEF TypeOK
    <2>2. PhaseOK' /\ SealedOK' /\ CounterIsFresh'
      BY DEF PhaseOK, Between, SealedOK, CounterIsFresh
    <2>3. FramesOK' /\ OpenedOK'
      BY DEF FramesOK, Busy, Genuine, OpenedOK
    <2> QED
      BY <2>1, <2>2, <2>3 DEF LinkInv
  <1> QED
    BY <1>1, <1>2, <1>3, <1>4, <1>5, <1>6, <1>7, <1>8, <1>9, <1>10, <1>11, <1>12, <1>13, <1>14
    DEF Next, Recovery, Reader

-----------------------------------------------------------------------------
\* An exclusive send adds the next frame of the session to what is on its way.
LEMMA SealInLockstep ==
    ASSUME LinkInv, Lockstep, NEW s \in Senders, Seal(s), exclusive'
    PROVE  Lockstep'
  <1> USE BoundsAssumption DEF Seal, netVars, masterVars
  <1>1. Busy = {} /\ phase \in {"secure", "down"} /\ refused' = refused
    OBVIOUS
  <1>2. Busy' = {s}
    <2>1. held' \in [Senders -> {<<>>} \cup {<<g>> : g \in Frames}]
      BY SealKeeps DEF LinkInv, TypeOK
    <2>2. \A g : held' = [held EXCEPT ![s] = <<g>>]
                  => held'[s] # <<>> /\ \A t \in Senders \ {s} : held'[t] = held[t]
      BY DEF LinkInv, TypeOK
    <2>3. \E g : held' = [held EXCEPT ![s] = <<g>>]
      OBVIOUS
    <2>4. held'[s] # <<>> /\ \A t \in Senders \ {s} : held'[t] = held[t]
      BY <2>2, <2>3
    <2> QED
      BY <1>1, <2>1, <2>4 DEF Busy
  <1>3. CASE phase = "secure"
    <2>1. chan = conn /\ conn \in Sessions /\ tx = Len(sealed[conn]) /\ tx \in Nat
      BY <1>3 DEF LinkInv, PhaseOK, TypeOK, CounterIsFresh, Sessions
    <2>2. /\ held' = [held EXCEPT ![s] = <<[session |-> conn, n |-> tx + 1, msg |-> sent + 1]>>]
          /\ sealed' = [sealed EXCEPT ![conn] = Append(@, sent + 1)]
      BY <2>1 DEF Sessions
    <2>3. Len(sealed'[conn]) = tx + 1
      BY <2>1, <2>2 DEF LinkInv, TypeOK
    <2>4. held'[s][1].session = conn /\ held'[s][1].n = tx + 1
      BY <2>2 DEF LinkInv, TypeOK
    <2>5. Single'
      BY <1>2, <1>3, <2>3, <2>4 DEF Single, Between
    <2>6. Handshake' /\ InOrder'
      BY DEF Handshake, InOrder, Lockstep
    <2>7. Counted'
      BY <1>1, <1>2, <2>1, <2>3 DEF Counted, Pause, Lockstep, LinkInv, TypeOK
    <2> QED
      BY <1>1, <2>5, <2>6, <2>7 DEF Lockstep
  <1>4. CASE phase = "down"
    BY <1>1, <1>2, <1>4 DEF Lockstep, Single, Handshake, Counted, InOrder, Between
  <1> QED
    BY <1>1, <1>3, <1>4

\* Every other step keeps it, or the sends are not exclusive any more.
LEMMA LockstepNext ==
    ASSUME LinkInv, exclusive => Lockstep, [Next]_vars, exclusive'
    PROVE  Lockstep'
  <1> USE DEF minionVars, netVars, masterVars
  <1>1. ASSUME NEW s \in Senders, Seal(s) PROVE Lockstep'
    <2>1. exclusive
      BY <1>1 DEF Seal
    <2> QED
      BY <1>1, <2>1, SealInLockstep
  <1>2. ASSUME NEW s \in Senders, Write(s) PROVE Lockstep'
    <2> USE <1>2 DEF Write
    <2>1. exclusive /\ Lockstep /\ s \in Busy
      BY DEF Busy
    <2>2. PICK f \in Frames : held[s] = <<f>> /\ held[s][1] = f
      BY <2>1, FrameTypes DEF LinkInv
    <2>3. Busy' = {}
      BY <2>1 DEF Lockstep, Single, Busy, LinkInv, TypeOK
    <2>4. Single' /\ ~refused'
      BY <2>1, <2>3 DEF Lockstep, Single
    <2>5. CASE ~(stream /\ alive)
      <3>1. wire' = wire /\ ~alive'
        BY <2>5 DEF LinkInv, PhaseOK
      <3>2. Handshake' /\ Counted' /\ InOrder'
        BY <2>1, <3>1 DEF Lockstep, Handshake, Counted, InOrder
      <3> QED
        BY <2>4, <3>2 DEF Lockstep
    <2>6. CASE stream /\ alive
      <3>1. phase = "secure" /\ peer
        BY <2>1, <2>6 DEF Lockstep, Single, Handshake, Between, LinkInv, PhaseOK, TypeOK
      <3>2. /\ f.session = conn /\ f.n = Len(sealed[conn])
            /\ Len(sealed[conn]) = rx + Len(wire) + 1
        BY <2>1, <2>2, <2>6, <3>1 DEF Lockstep, Single, Counted, Pause
      <3>3. /\ wire \in Seq(Frames) /\ wire' = Append(wire, f)
        BY <2>2, <2>6, AppendWire DEF LinkInv, TypeOK
      <3>4. /\ Len(wire') = Len(wire) + 1
            /\ \A i \in DOMAIN wire' : \/ i \in DOMAIN wire /\ wire'[i] = wire[i]
                                       \/ i = Len(wire) + 1 /\ wire'[i] = f
        BY <3>3, AppendWire
      <3>5. rx \in Nat /\ Len(wire) \in Nat
        BY <3>3 DEF LinkInv, TypeOK
      <3>6. Handshake'
        BY <2>1, <3>1 DEF Lockstep, Handshake
      <3>a. /\ phase' = phase /\ peer' = peer /\ conn' = conn /\ rx' = rx
            /\ sealed' = sealed /\ sealed'[conn'] = sealed[conn]
        OBVIOUS
      <3>b. Pause' = 0
        BY <2>3 DEF Pause
      <3>7. Counted'
        <4> HIDE <1>2 DEF Write
        <4>1. Len(sealed[conn]) = rx + Len(wire') + 0
          BY <3>2, <3>4, <3>5
        <4> QED
          BY <4>1, <3>a, <3>b DEF Counted
      <3>c. peer /\ \A i \in DOMAIN wire : wire[i].session = conn /\ wire[i].n = rx + i
        BY <2>1, <3>1 DEF Lockstep, InOrder
      <3>8. InOrder'
        <4> SUFFICES ASSUME NEW i \in DOMAIN wire'
                     PROVE  wire'[i].session = conn /\ wire'[i].n = rx + i
          BY <3>a, <3>c DEF InOrder
        <4>1. CASE i \in DOMAIN wire /\ wire'[i] = wire[i]
          BY <4>1, <3>c
        <4>2. CASE i = Len(wire) + 1 /\ wire'[i] = f
          <5>1. f.n = rx + (Len(wire) + 1)
            BY <3>2, <3>5
          <5> QED
            BY <4>2, <5>1, <3>2
        <4> QED
          BY <3>4, <4>1, <4>2
      <3> QED
        BY <2>4, <3>6, <3>7, <3>8 DEF Lockstep
    <2> QED
      BY <2>5, <2>6
  <1>3. CASE ClearStreams
    <2> USE <1>3 DEF ClearStreams
    <2>1. exclusive /\ Lockstep
      OBVIOUS
    <2>2. ~refused'
      BY <2>1 DEF Lockstep
    <2>3. Single'
      BY <2>1 DEF Lockstep, Single, Busy, Between, LinkInv, PhaseOK, TypeOK
    <2>4. Handshake'
      BY <2>1 DEF Lockstep, Handshake, LinkInv, TypeOK
    <2>5. Counted'
      BY <2>1 DEF Lockstep, Counted, Pause, Busy, LinkInv, PhaseOK, TypeOK
    <2>6. InOrder'
      BY <2>1, TailFrames DEF Lockstep, Handshake, InOrder, LinkInv, TypeOK, Accepts, InSequence
    <2> QED
      BY <2>2, <2>3, <2>4, <2>5, <2>6 DEF Lockstep
  <1>4. CASE OpenStream
    <2> USE <1>4 DEF OpenStream
    <2>1. exclusive /\ Lockstep
      OBVIOUS
    <2>2. ~refused'
      BY <2>1 DEF Lockstep
    <2>3. Single'
      BY <2>1 DEF Lockstep, Single, Busy, Between, LinkInv, PhaseOK, TypeOK
    <2>4. Handshake'
      BY <2>1 DEF Lockstep, Handshake, LinkInv, TypeOK
    <2>5. Counted'
      BY <2>1 DEF Lockstep, Counted, Pause, Busy, LinkInv, PhaseOK, TypeOK
    <2>6. InOrder'
      BY <2>1, TailFrames DEF Lockstep, Handshake, InOrder, LinkInv, TypeOK, Accepts, InSequence
    <2> QED
      BY <2>2, <2>3, <2>4, <2>5, <2>6 DEF Lockstep
  <1>5. CASE ForgetChannel
    <2> USE <1>5 DEF ForgetChannel
    <2>1. exclusive /\ Lockstep
      OBVIOUS
    <2>2. ~refused'
      BY <2>1 DEF Lockstep
    <2>3. Single'
      BY <2>1 DEF Lockstep, Single, Busy, Between, LinkInv, PhaseOK, TypeOK
    <2>4. Handshake'
      BY <2>1 DEF Lockstep, Handshake, LinkInv, TypeOK
    <2>5. Counted'
      BY <2>1 DEF Lockstep, Counted, Pause, Busy, LinkInv, PhaseOK, TypeOK
    <2>6. InOrder'
      BY <2>1, TailFrames DEF Lockstep, Handshake, InOrder, LinkInv, TypeOK, Accepts, InSequence
    <2> QED
      BY <2>2, <2>3, <2>4, <2>5, <2>6 DEF Lockstep
  <1>6. CASE SendHello
    <2> USE <1>6 DEF SendHello
    <2>1. exclusive /\ Lockstep
      OBVIOUS
    <2>2. ~refused'
      BY <2>1 DEF Lockstep
    <2>3. Single'
      BY <2>1 DEF Lockstep, Single, Busy, Between, LinkInv, PhaseOK, TypeOK
    <2>4. Handshake'
      BY <2>1 DEF Lockstep, Handshake, LinkInv, TypeOK
    <2>5. Counted'
      BY <2>1 DEF Lockstep, Counted, Pause, Busy, LinkInv, PhaseOK, TypeOK
    <2>6. InOrder'
      BY <2>1, TailFrames DEF Lockstep, Handshake, InOrder, LinkInv, TypeOK, Accepts, InSequence
    <2> QED
      BY <2>2, <2>3, <2>4, <2>5, <2>6 DEF Lockstep
  <1>7. CASE AcceptAck
    <2> USE <1>7 DEF AcceptAck
    <2>1. exclusive /\ Lockstep
      OBVIOUS
    <2>2. ~refused'
      BY <2>1 DEF Lockstep
    <2>3. Single'
      BY <2>1 DEF Lockstep, Single, Busy, Between, LinkInv, PhaseOK, TypeOK
    <2>4. Handshake'
      BY <2>1 DEF Lockstep, Handshake, LinkInv, TypeOK
    <2>5. Counted'
      <3>1. conn \in Sessions /\ sealed[conn] = <<>> /\ Busy = {}
        BY <2>1 DEF Lockstep, Single, LinkInv, PhaseOK, Between, TypeOK, Sessions
      <3>2. peer /\ wire = <<>>
        BY <2>1 DEF Lockstep, Handshake, LinkInv, TypeOK
      <3>3. rx = Len(opened[conn]) /\ Len(opened[conn]) <= Len(sealed[conn]) /\ rx \in Nat
        BY <3>1, <3>2 DEF LinkInv, OpenedOK, TypeOK
      <3> QED
        BY <3>1, <3>2, <3>3 DEF Counted, Pause, Busy
    <2>6. InOrder'
      BY <2>1, TailFrames DEF Lockstep, Handshake, InOrder, LinkInv, TypeOK, Accepts, InSequence
    <2> QED
      BY <2>2, <2>3, <2>4, <2>5, <2>6 DEF Lockstep
  <1>8. CASE BootstrapFails
    <2> USE <1>8 DEF BootstrapFails
    <2>1. exclusive /\ Lockstep
      OBVIOUS
    <2>2. ~refused'
      BY <2>1 DEF Lockstep
    <2>3. Single'
      BY <2>1 DEF Lockstep, Single, Busy, Between, LinkInv, PhaseOK, TypeOK
    <2>4. Handshake'
      BY <2>1 DEF Lockstep, Handshake, LinkInv, TypeOK
    <2>5. Counted'
      BY <2>1 DEF Lockstep, Counted, Pause, Busy, LinkInv, PhaseOK, TypeOK
    <2>6. InOrder'
      BY <2>1, TailFrames DEF Lockstep, Handshake, InOrder, LinkInv, TypeOK, Accepts, InSequence
    <2> QED
      BY <2>2, <2>3, <2>4, <2>5, <2>6 DEF Lockstep
  <1>9. CASE LoseConnection
    <2> USE <1>9 DEF LoseConnection
    <2>1. exclusive /\ Lockstep
      OBVIOUS
    <2>2. ~refused'
      BY <2>1 DEF Lockstep
    <2>3. Single'
      BY <2>1 DEF Lockstep, Single, Busy, Between, LinkInv, PhaseOK, TypeOK
    <2>4. Handshake'
      BY <2>1 DEF Lockstep, Handshake, LinkInv, TypeOK
    <2>5. Counted'
      BY <2>1 DEF Lockstep, Counted, Pause, Busy, LinkInv, PhaseOK, TypeOK
    <2>6. InOrder'
      BY <2>1, TailFrames DEF Lockstep, Handshake, InOrder, LinkInv, TypeOK, Accepts, InSequence
    <2> QED
      BY <2>2, <2>3, <2>4, <2>5, <2>6 DEF Lockstep
  <1>10. CASE ReadHello
    <2> USE <1>10 DEF ReadHello
    <2>1. exclusive /\ Lockstep /\ wire = <<Hello>>
      BY DEF Lockstep, InOrder
    <2>2. wire' = <<>> /\ phase \notin {"opened", "cleared", "secure"}
      BY <2>1 DEF Lockstep, Handshake
    <2>3. ~refused' /\ Single'
      BY <2>1 DEF Lockstep, Single, Busy, Between
    <2>4. Handshake' /\ Counted' /\ InOrder'
      BY <2>2 DEF Handshake, Counted, InOrder
    <2> QED
      BY <2>3, <2>4 DEF Lockstep
  <1>11. CASE OpenData
    <2> USE <1>11 DEF OpenData
    <2>1. exclusive /\ Lockstep
      OBVIOUS
    <2>2. ~refused'
      BY <2>1 DEF Lockstep
    <2>3. Single'
      BY <2>1 DEF Lockstep, Single, Busy, Between, LinkInv, PhaseOK, TypeOK
    <2>4. Handshake'
      BY <2>1 DEF Lockstep, Handshake, LinkInv, TypeOK
    <2>5. Counted'
      <3>1. Len(wire') = Len(wire) - 1 /\ rx' = rx + 1 /\ Busy' = Busy
        BY TailFrames DEF Accepts, InSequence, Busy, LinkInv
      <3>2. rx \in Nat /\ Len(wire) \in Nat
        BY DEF LinkInv, TypeOK
      <3> QED
        BY <2>1, <3>1, <3>2 DEF Lockstep, Counted, Pause
    <2>6. InOrder'
      BY <2>1, TailFrames DEF Lockstep, Handshake, InOrder, LinkInv, TypeOK, Accepts, InSequence
    <2> QED
      BY <2>2, <2>3, <2>4, <2>5, <2>6 DEF Lockstep
  <1>12. CASE RejectData
    <2>1. exclusive /\ Lockstep /\ wire # <<>> /\ peer /\ ~Accepts(Head(wire))
      BY <1>12 DEF RejectData
    <2>2. 1 \in DOMAIN wire /\ Head(wire) = wire[1]
      BY <2>1, TailFrames DEF LinkInv
    <2> QED
      BY <2>1, <2>2 DEF Lockstep, InOrder, Accepts, InSequence
  <1>13. CASE RefuseEarly
    BY <1>13 DEF RefuseEarly, Lockstep, InOrder
  <1>14. CASE UNCHANGED vars
    BY <1>14 DEF vars, Lockstep, Single, Handshake, Counted, InOrder, Busy, Pause
  <1> QED
    BY <1>1, <1>2, <1>3, <1>4, <1>5, <1>6, <1>7, <1>8, <1>9, <1>10, <1>11, <1>12, <1>13, <1>14
    DEF Next, Recovery, Reader

LEMMA InvNext == Inv /\ [Next]_vars => Inv'
  BY LinkNext, LockstepNext DEF Inv

-----------------------------------------------------------------------------
\* The variables of the link keep their types.
THEOREM LinkTyped == Spec => []TypeOK
  <1>1. Inv => TypeOK
    BY DEF Inv, LinkInv
  <1> QED
    BY <1>1, LinkInit, InvNext, PTL DEF Spec

\* The transmit counter is the number of messages sealed in the session, so
\* that no counter, and no nonce made from it, serves two messages.
THEOREM CountersAreFresh == Spec => []CounterIsFresh
  <1>1. Inv => CounterIsFresh
    BY DEF Inv, LinkInv
  <1> QED
    BY <1>1, LinkInit, InvNext, PTL DEF Spec

\* Without overlapping sends the master refuses nothing, over any number of
\* losses and recoveries.
THEOREM NothingIsRefused == Spec => []RefusedOnlyWhenOverlapping
  <1>1. Inv => RefusedOnlyWhenOverlapping
    BY DEF Inv, Lockstep, RefusedOnlyWhenOverlapping
  <1> QED
    BY <1>1, LinkInit, InvNext, PTL DEF Spec

\* Every step of the link is a step of the ordered channel, or none of its.
LEMMA StepOfChannel ==
    ASSUME LinkInv, [Next]_vars
    PROVE  [Abstract!Next]_(Abstract!vars)
  <1> USE BoundsAssumption DEF minionVars, netVars, masterVars, Abstract!vars
  <1>1. ASSUME NEW s \in Senders, Seal(s) PROVE [Abstract!Next]_(Abstract!vars)
    <2>1. CASE chan # 0
      <3>1. chan \in Sessions /\ sent + 1 \in Messages
        BY <1>1, <2>1 DEF Seal, LinkInv, TypeOK, Sessions, Messages
      <3>2. Abstract!Seal(sent + 1)
        BY <1>1, <2>1, <3>1 DEF Seal, Abstract!Seal
      <3> QED
        BY <3>1, <3>2 DEF Abstract!Next
    <2>2. CASE chan = 0
      BY <1>1, <2>2 DEF Seal
    <2> QED
      BY <2>1, <2>2
  <1>2. CASE ForgetChannel
    BY <1>2 DEF ForgetChannel, Abstract!Next, Abstract!Stop
  <1>3. CASE AcceptAck
    <2>1. conn \in Sessions /\ sealed[conn] = <<>>
      BY <1>3 DEF AcceptAck, LinkInv, PhaseOK, Between, TypeOK, Sessions
    <2>2. Abstract!Start(conn)
      BY <1>3, <2>1 DEF AcceptAck, Abstract!Start
    <2> QED
      BY <2>1, <2>2 DEF Abstract!Next
  <1>4. CASE OpenData
    <2> DEFINE f == Head(wire)
    <2>1. /\ f = wire[1] /\ 1 \in DOMAIN wire /\ f.session = conn /\ conn \in Sessions
          /\ f.n = Len(opened[conn]) + 1
      BY <1>4, TailFrames DEF OpenData, Accepts, InSequence, LinkInv, OpenedOK, PhaseOK, TypeOK, Sessions
    <2>2. f.n \in 1 .. Len(sealed[conn]) /\ sealed[conn][f.n] = f.msg
      BY <2>1 DEF LinkInv, FramesOK, Genuine, Sessions
    <2>3. Len(opened[conn]) < Len(sealed[conn])
      BY <2>1, <2>2 DEF LinkInv, TypeOK
    <2>4. opened' = [opened EXCEPT ![conn] = Append(@, sealed[conn][Len(@) + 1])]
      BY <1>4, <2>1, <2>2 DEF OpenData
    <2>5. Abstract!Open(conn)
      BY <1>4, <2>3, <2>4 DEF OpenData, Abstract!Open
    <2> QED
      BY <2>1, <2>5 DEF Abstract!Next
  <1>5. ASSUME NEW s \in Senders, Write(s) PROVE UNCHANGED <<sealed, opened, chan>>
    BY <1>5 DEF Write
  <1>6. CASE \/ ClearStreams \/ OpenStream \/ SendHello \/ BootstrapFails \/ LoseConnection
             \/ ReadHello \/ RejectData \/ RefuseEarly \/ UNCHANGED vars
    BY <1>6 DEF ClearStreams, OpenStream, SendHello, BootstrapFails, LoseConnection, ReadHello,
       RejectData, RefuseEarly, vars
  <1> QED
    BY <1>1, <1>2, <1>3, <1>4, <1>5, <1>6 DEF Next, Recovery, Reader

\* What the master opens is, session by session, a prefix of what the minion
\* sealed, whatever the order in which the senders write and however often the
\* recovery replaces stream and channel under them.
THEOREM LinkIsOrdered == Spec => ImplementsOrderedChannel
  <1>1. Init => Abstract!Init
    BY DEF Init, Abstract!Init
  <1>2. Inv /\ [Next]_vars => [Abstract!Next]_(Abstract!vars)
    BY StepOfChannel DEF Inv
  <1> QED
    BY <1>1, <1>2, LinkInit, InvNext, PTL DEF Spec, ImplementsOrderedChannel, Abstract!Spec
=============================================================================
