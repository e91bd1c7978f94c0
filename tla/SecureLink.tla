----------------------------- MODULE SecureLink -----------------------------
(***************************************************************************)
(* The secure channel between a minion and its master in the direction of  *)
(* the master: try_request and write_frame used by several tasks at once,  *)
(* the transport recovery that replaces stream and channel under them      *)
(* (sysminion: minion.rs), the counters of the channel (libsysinspect:     *)
(* transport/secure_channel.rs) and the master's reader (sysmaster:        *)
(* transport.rs, master.rs).                                               *)
(*                                                                         *)
(* A message is sealed under one lock and written under another.  Streams  *)
(* and sessions have the number of their connection.                       *)
(***************************************************************************)
EXTENDS Naturals, Sequences, FiniteSets

CONSTANTS
    Senders,      \* tasks of the minion that send
    MaxConns,     \* bound on connections
    MaxMessages   \* bound on messages sent

ASSUME BoundsAssumption == MaxConns \in Nat /\ MaxMessages \in Nat

VARIABLES
    phase,        \* where reconnect_transport is
    conn,         \* number of the latest connection
    stream,       \* whether the minion holds a stream
    chan,         \* session of the minion's channel, 0 for none
    tx,           \* transmit counter of that channel
    held,         \* per sender: the frame it is about to write, if any
    wire,         \* frames on the latest connection, not yet read
    replies,      \* the master's replies to the bootstrap
    alive,        \* the latest connection is up at both ends
    peer,         \* the master has a channel for the latest connection
    rx,           \* receive counter of that channel
    sealed,       \* history: messages sealed per session
    opened,       \* history: messages opened per session
    sent,         \* number of messages so far
    exclusive,    \* history: no send overlapped another one or a recovery
    refused       \* history: the master refused a frame

minionVars == <<phase, conn, stream, chan, tx, held>>
netVars    == <<wire, replies, alive>>
masterVars == <<peer, rx>>
vars == <<minionVars, netVars, masterVars, sealed, opened, sent, exclusive, refused>>

Sessions == 1 .. MaxConns
Messages == 1 .. MaxMessages
Frames == [session : 0 .. MaxConns, n : 0 .. MaxMessages, msg : 0 .. MaxMessages]
Plain(m) == [session |-> 0, n |-> 0, msg |-> m]
Hello == Plain(0)

TypeOK ==
    /\ phase \in {"down", "opened", "cleared", "hello", "secure"}
    /\ conn \in 0 .. MaxConns
    /\ stream \in BOOLEAN /\ alive \in BOOLEAN /\ peer \in BOOLEAN
    /\ chan \in 0 .. MaxConns /\ tx \in 0 .. MaxMessages /\ rx \in 0 .. MaxMessages
    /\ held \in [Senders -> {<<>>} \cup {<<f>> : f \in Frames}]
    /\ wire \in Seq(Frames)
    /\ replies \in Seq({"ack", "diag"})
    /\ sealed \in [Sessions -> Seq(Messages)]
    /\ opened \in [Sessions -> Seq(Messages)]
    /\ sent \in 0 .. MaxMessages
    /\ exclusive \in BOOLEAN /\ refused \in BOOLEAN

Init ==
    /\ phase = "down" /\ conn = 0 /\ stream = FALSE
    /\ chan = 0 /\ tx = 0
    /\ held = [s \in Senders |-> <<>>]
    /\ wire = <<>> /\ replies = <<>> /\ alive = FALSE
    /\ peer = FALSE /\ rx = 0
    /\ sealed = [e \in Sessions |-> <<>>]
    /\ opened = [e \in Sessions |-> <<>>]
    /\ sent = 0 /\ exclusive = TRUE /\ refused = FALSE

-----------------------------------------------------------------------------
(* try_request: seal under the lock of the channel, in the clear if there  *)
(* is none; write under the lock of the stream.                            *)

Busy == {s \in Senders : held[s] # <<>>}

Seal(s) ==
    LET m == sent + 1
    IN  /\ held[s] = <<>> /\ sent < MaxMessages
        /\ sent' = m
        /\ exclusive' = (exclusive /\ Busy = {} /\ phase \in {"secure", "down"})
        /\ \/ /\ chan # 0
              /\ tx' = tx + 1
              /\ held' = [held EXCEPT ![s] = <<[session |-> chan, n |-> tx + 1, msg |-> m]>>]
              /\ sealed' = [sealed EXCEPT ![chan] = Append(@, m)]
           \/ /\ chan = 0
              /\ held' = [held EXCEPT ![s] = <<Plain(m)>>]
              /\ UNCHANGED <<tx, sealed>>
        /\ UNCHANGED <<phase, conn, stream, chan, netVars, masterVars, opened, refused>>

(* What is written to a connection that broke goes nowhere.                *)
Write(s) ==
    /\ held[s] # <<>>
    /\ held' = [held EXCEPT ![s] = <<>>]
    /\ wire' = IF stream /\ alive THEN wire \o held[s] ELSE wire
    /\ UNCHANGED <<phase, conn, stream, chan, tx, replies, alive, masterVars, sealed,
                   opened, sent, exclusive, refused>>

-----------------------------------------------------------------------------
(* reconnect_transport: drop the streams, connect, forget the channel,     *)
(* bootstrap.  The old channel stays in place until the new stream is open.*)

ClearStreams ==
    /\ phase = "secure" /\ ~alive
    /\ phase' = "down" /\ stream' = FALSE
    /\ UNCHANGED <<conn, chan, tx, held, netVars, masterVars, sealed, opened, sent, exclusive, refused>>

OpenStream ==
    /\ phase = "down" /\ conn < MaxConns
    /\ phase' = "opened" /\ conn' = conn + 1
    /\ stream' = TRUE /\ alive' = TRUE
    /\ wire' = <<>> /\ replies' = <<>>
    /\ peer' = FALSE /\ rx' = 0
    /\ exclusive' = (exclusive /\ Busy = {})
    /\ UNCHANGED <<chan, tx, held, sealed, opened, sent, refused>>

ForgetChannel ==
    /\ phase = "opened"
    /\ phase' = "cleared" /\ chan' = 0
    /\ UNCHANGED <<conn, stream, tx, held, netVars, masterVars, sealed, opened, sent, exclusive, refused>>

SendHello ==
    /\ phase = "cleared"
    /\ phase' = "hello"
    /\ wire' = IF alive THEN Append(wire, Hello) ELSE wire
    /\ UNCHANGED <<conn, stream, chan, tx, held, replies, alive, masterVars, sealed, opened,
                   sent, exclusive, refused>>

(* Mutant: the transmit counter of the earlier session goes on.            *)
AcceptAckKeepsCounter ==
    /\ phase = "hello" /\ replies # <<>> /\ Head(replies) = "ack"
    /\ phase' = "secure" /\ chan' = conn
    /\ replies' = Tail(replies)
    /\ UNCHANGED <<conn, stream, tx, held, wire, alive, masterVars, sealed, opened, sent, exclusive, refused>>

AcceptAck ==
    /\ phase = "hello" /\ replies # <<>> /\ Head(replies) = "ack"
    /\ phase' = "secure" /\ chan' = conn /\ tx' = 0
    /\ replies' = Tail(replies)
    /\ UNCHANGED <<conn, stream, held, wire, alive, masterVars, sealed, opened, sent, exclusive, refused>>

(* Mutant: a connection that ends during the bootstrap is not noticed.     *)
BootstrapFailsOnDiag ==
    /\ phase = "hello" /\ replies # <<>> /\ Head(replies) = "diag"
    /\ phase' = "down" /\ stream' = FALSE /\ alive' = FALSE
    /\ UNCHANGED <<conn, chan, tx, held, wire, replies, masterVars, sealed, opened, sent, exclusive, refused>>

(* The bootstrap ends with a diagnostic or with the connection, and the    *)
(* streams are cleared.                                                    *)
BootstrapFails ==
    /\ phase = "hello"
    /\ \/ replies # <<>> /\ Head(replies) = "diag"
       \/ replies = <<>> /\ ~alive
    /\ phase' = "down" /\ stream' = FALSE /\ alive' = FALSE
    /\ UNCHANGED <<conn, chan, tx, held, wire, replies, masterVars, sealed, opened, sent, exclusive, refused>>

LoseConnection ==
    /\ alive
    /\ alive' = FALSE
    /\ UNCHANGED <<minionVars, wire, replies, masterVars, sealed, opened, sent, exclusive, refused>>

-----------------------------------------------------------------------------
(* The master's reader.  Frames that arrived before the connection broke   *)
(* may still be read.                                                      *)

ReadHello ==
    /\ wire # <<>> /\ Head(wire) = Hello /\ ~peer
    /\ wire' = Tail(wire)
    /\ peer' = TRUE /\ rx' = 0
    /\ replies' = Append(replies, "ack")
    /\ UNCHANGED <<minionVars, alive, sealed, opened, sent, exclusive, refused>>

InSequence(f) == f.session = conn /\ f.n = rx + 1

(* Mutant: the counter has to grow and may leave a gap.                    *)
Growing(f) == f.session = conn /\ f.n > rx

Accepts(f) == InSequence(f)

OpenData ==
    LET f == Head(wire)
    IN  /\ wire # <<>> /\ peer /\ Accepts(f)
        /\ wire' = Tail(wire)
        /\ rx' = f.n
        /\ opened' = [opened EXCEPT ![conn] = Append(@, f.msg)]
        /\ UNCHANGED <<minionVars, replies, alive, peer, sealed, sent, exclusive, refused>>

(* A frame the channel rejects ends the connection.                        *)
RejectData ==
    /\ wire # <<>> /\ peer /\ ~Accepts(Head(wire))
    /\ wire' = <<>> /\ peer' = FALSE /\ alive' = FALSE
    /\ refused' = TRUE
    /\ UNCHANGED <<minionVars, replies, rx, sealed, opened, sent, exclusive>>

(* A frame before the hello is answered with a diagnostic.                 *)
RefuseEarly ==
    /\ wire # <<>> /\ ~peer /\ Head(wire) # Hello
    /\ wire' = Tail(wire)
    /\ replies' = Append(replies, "diag")
    /\ refused' = TRUE
    /\ UNCHANGED <<minionVars, alive, masterVars, sealed, opened, sent, exclusive>>

-----------------------------------------------------------------------------
Recovery == ClearStreams \/ OpenStream \/ ForgetChannel \/ SendHello \/ AcceptAck \/ BootstrapFails
Reader == ReadHello \/ OpenData \/ RejectData \/ RefuseEarly

Next == (\E s \in Senders : Seal(s) \/ Write(s)) \/ Recovery \/ Reader \/ LoseConnection

(* Recovery is retried without limit, a frame that was sealed is written   *)
(* and the master reads.                                                   *)
Fairness == /\ WF_vars(Recovery) /\ WF_vars(Reader)
            /\ \A s \in Senders : WF_vars(Write(s))

Spec == Init /\ [][Next]_vars
FairSpec == Spec /\ Fairness

-----------------------------------------------------------------------------
(* Properties                                                              *)

(* The messages opened in a session are the first ones sealed in it, in    *)
(* the order of sealing, although the tasks write in any order and a       *)
(* recovery puts frames of the old session on the new stream.              *)
Abstract == INSTANCE OrderedChannel WITH current <- chan
ImplementsOrderedChannel == Abstract!Spec

(* The master refuses a frame only if two sends overlapped between seal    *)
(* and write, or a send overlapped the recovery.  When they do, it refuses *)
(* frames of a healthy peer over a healthy connection.                     *)
RefusedOnlyWhenOverlapping == exclusive => ~refused

(* A counter is never used for two messages of a session.                  *)
CounterIsFresh == chan # 0 => tx = Len(sealed[chan])

(* The link is secured again after every loss, refusal and failed          *)
(* bootstrap, as long as there are connections left.                       *)
Recovers == []<>(conn = MaxConns \/ (phase = "secure" /\ alive))
=============================================================================
