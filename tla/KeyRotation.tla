---------------------------- MODULE KeyRotation -----------------------------
(***************************************************************************)
(* Transport keys of one minion and their rotation: the key records that   *)
(* master and minion keep on disk (libsysinspect: transport/mod.rs,        *)
(* rsa/rotation.rs), the bootstrap that names one of them (minion.rs,      *)
(* sysmaster transport.rs) and the rotate command, staged on the master    *)
(* until the minion connects with the new key (master.rs, console.rs).     *)
(*                                                                         *)
(* A key is the number of its creation.  Session keys are ephemeral: what  *)
(* the two sides have to agree on is the id.  Time is one bit per record:  *)
(* whether it became active longer ago than the overlap window.            *)
(***************************************************************************)
EXTENDS Naturals, Sequences, SequencesExt

CONSTANTS
    MaxKeys,      \* bound on the keys ever created
    MaxFaults,    \* bound on lost connections, early frames, restarts and
                  \* interrupted saves
    MaxTicks,     \* bound on elapsed overlap windows
    Overlap       \* whether the overlap window is longer than zero

ASSUME BoundsAssumption == MaxKeys \in Nat \ {0, 1} /\ MaxFaults \in Nat /\ MaxTicks \in Nat
ASSUME OverlapAssumption == Overlap \in BOOLEAN

VARIABLES
    master,       \* key records of the master for the minion
    minion,       \* key records of the minion
    pending,      \* key of the staged rotation context, 0 for none
    rotation,     \* rotation status of the master's record
    created,      \* number of keys created so far
    link,         \* the minion's connection
    offered,      \* key named in the hello of that connection
    inbox,        \* rotate commands on their way to the minion
    leaving,      \* the minion has applied a rotation and will reconnect
    previous,     \* what the master still holds of an earlier connection
    online,       \* the session keeper has a live session
    faults, ticks,
    wanted,       \* history: the key of the newest request
    applied,      \* history: keys the minion executed a rotation to
    demoted       \* history: keys of the minion retiring since the last tick

vars == <<master, minion, pending, rotation, created, link, offered, inbox, leaving,
          previous, online, faults, ticks, wanted, applied, demoted>>

Keys == 1 .. MaxKeys
Statuses == {"absent", "active", "retiring", "broken"}
PeerStates == [active : Keys \cup {0}, last : Keys \cup {0},
               status : [Keys -> Statuses], old : SUBSET Keys]

TypeOK ==
    /\ master \in PeerStates /\ minion \in PeerStates
    /\ pending \in Keys \cup {0} /\ created \in Keys
    /\ rotation \in {"idle", "pending"}
    /\ link \in {"down", "hello", "ack", "ehlo", "up"}
    /\ offered \in Keys \cup {0}
    /\ inbox \in Seq(Keys)
    /\ leaving \in BOOLEAN /\ online \in BOOLEAN
    /\ previous \in {"none", "channel", "mapped"}
    /\ faults \in 0 .. MaxFaults /\ ticks \in 0 .. MaxTicks
    /\ wanted \in Keys \cup {0} /\ applied \subseteq Keys /\ demoted \subseteq Keys

-----------------------------------------------------------------------------
(* Operations on the records of one side                                   *)

UpsertKey(s, k, st) ==
    [active |-> IF st = "active" THEN k ELSE IF s.active = k THEN 0 ELSE s.active,
     last   |-> k,
     status |-> [s.status EXCEPT ![k] = st],
     old    |-> IF s.status[k] = "absent" THEN s.old \ {k} ELSE s.old]

MarkBroken(s, k) == UpsertKey(s, k, "broken")

(* A side without an active key creates one.                               *)
NeedsKey(s) == s.active = 0
EnsureKey(s, k) == IF NeedsKey(s) THEN UpsertKey(s, k, "active") ELSE s

(* Retiring keys whose activation is older than the window are removed;    *)
(* without a window every key but the active one is.                       *)
RetireElapsed(s) ==
    LET gone == {k \in Keys : /\ k # s.active
                              /\ ~Overlap \/ (s.status[k] = "retiring" /\ k \in s.old)}
    IN  [s EXCEPT !.status = [k \in Keys |-> IF k \in gone THEN "absent" ELSE s.status[k]],
                  !.old = @ \ gone]

Demote(s, k) == IF s.active \notin {0, k} THEN UpsertKey(s, s.active, "retiring") ELSE s

ExecuteRotation(s, k) == RetireElapsed(UpsertKey(Demote(s, k), k, "active"))

BootstrapKey(s) == IF s.active # 0 THEN s.active ELSE s.last

NewKey == created + 1
MayCreate == created < MaxKeys
CreateIf(needed) == /\ needed => MayCreate
                    /\ created' = IF needed THEN NewKey ELSE created

Fault == faults < MaxFaults /\ faults' = faults + 1

KeyOf(k) == [active |-> k, last |-> k, old |-> {},
             status |-> [i \in Keys |-> IF i = k THEN "active" ELSE "absent"]]

(* After the registration each side has made a key of its own.             *)
Init ==
    /\ master = KeyOf(1) /\ minion = KeyOf(2)
    /\ pending = 0 /\ rotation = "idle" /\ created = 2
    /\ link = "down" /\ offered = 0 /\ inbox = <<>> /\ leaving = FALSE
    /\ previous = "none" /\ online = FALSE
    /\ faults = 0 /\ ticks = 0
    /\ wanted = 0 /\ applied = {} /\ demoted = {}

-----------------------------------------------------------------------------
(* The operator's request.  The master creates the id of the next key, and *)
(* an active key first if it has none.  A minion that is online is sent    *)
(* the intent, which reaches it if it has a channel.                       *)
Request ==
    /\ ~NeedsKey(master) /\ MayCreate
    /\ created' = NewKey
    /\ pending' = NewKey /\ wanted' = NewKey /\ rotation' = "pending"
    /\ inbox' = IF online /\ link \in {"ack", "ehlo", "up"} THEN Append(inbox, NewKey) ELSE inbox
    /\ UNCHANGED <<master, minion, link, offered, leaving, previous, online, faults, ticks, applied, demoted>>

Connect ==
    /\ link = "down" /\ ~leaving
    /\ link' = "hello"
    /\ offered' = BootstrapKey(minion)
    /\ UNCHANGED <<master, minion, pending, rotation, created, inbox, leaving, previous, online,
                   faults, ticks, wanted, applied, demoted>>

(* A mapped connection of the minion makes the hello a duplicate.  One     *)
(* without an ehlo is replaced, and its session removed.                   *)
RejectHello ==
    /\ link = "hello" /\ previous = "mapped"
    /\ minion' = MarkBroken(minion, offered)
    /\ link' = "down" /\ offered' = 0
    /\ UNCHANGED <<master, pending, rotation, created, inbox, leaving, previous, online, faults,
                   ticks, wanted, applied, demoted>>

(* The staged rotation is executed when the hello names its key.           *)
IsPromoted == pending # 0 /\ pending = offered

(* Mutant: only a staged key is promoted.                                  *)
PromoteStagedOnly ==
    IF IsPromoted
    THEN master' = ExecuteRotation(master, offered) /\ pending' = 0 /\ rotation' = "idle"
    ELSE UNCHANGED <<master, pending, rotation>>

(* Mutant: the context is dropped whatever key the hello names.            *)
PromoteAnyKey ==
    /\ master' = UpsertKey(master, offered, "active")
    /\ pending' = 0 /\ rotation' = "idle"

PromoteBootstrapKey ==
    IF IsPromoted
    THEN master' = ExecuteRotation(master, offered) /\ pending' = 0 /\ rotation' = "idle"
    ELSE master' = UpsertKey(master, offered, "active") /\ UNCHANGED <<pending, rotation>>

AcceptHello ==
    /\ link = "hello" /\ previous # "mapped"
    /\ PromoteBootstrapKey
    /\ link' = "ack" /\ inbox' = <<>>
    /\ previous' = "none"
    /\ online' = (online /\ previous = "none")
    /\ UNCHANGED <<minion, created, offered, leaving, faults, ticks, wanted, applied, demoted>>

(* The master stops after the rotation is saved and before the context is  *)
(* cleared.  What is saved has the status Idle and still the context.      *)
AcceptInterrupted ==
    /\ link = "hello" /\ previous # "mapped" /\ IsPromoted
    /\ Fault
    /\ master' = ExecuteRotation(master, offered)
    /\ rotation' = "idle"
    /\ link' = "down" /\ offered' = 0 /\ inbox' = <<>>
    /\ previous' = "none" /\ online' = FALSE
    /\ UNCHANGED <<minion, pending, created, leaving, ticks, wanted, applied, demoted>>

ReceiveAck ==
    /\ link = "ack"
    /\ minion' = UpsertKey(minion, offered, "active")
    /\ link' = "ehlo"
    /\ UNCHANGED <<master, pending, rotation, created, offered, inbox, leaving, previous, online,
                   faults, ticks, wanted, applied, demoted>>

(* A broadcast, a heartbeat or a request to any minion, is written before  *)
(* the reply to the hello was queued, and the minion takes it for a broken *)
(* bootstrap.                                                              *)
ReceiveEarlyFrame ==
    /\ link = "ack" /\ Fault
    /\ minion' = MarkBroken(minion, offered)
    /\ link' = "down" /\ offered' = 0 /\ inbox' = <<>>
    /\ previous' = "channel"
    /\ UNCHANGED <<master, pending, rotation, created, leaving, online, ticks, wanted, applied, demoted>>

(* Mutant: a staged rotation is not sent again.                            *)
HandleEhloOnly ==
    /\ link = "ehlo"
    /\ link' = "up" /\ online' = TRUE
    /\ UNCHANGED <<master, minion, pending, rotation, created, offered, inbox, leaving, previous,
                   faults, ticks, wanted, applied, demoted>>

(* A staged context is sent only while the record's status is Pending.     *)
RotationIsDue == pending # 0 /\ rotation = "pending"

(* The master enters the session and sends a rotation that is due.         *)
HandleEhlo ==
    /\ link = "ehlo"
    /\ link' = "up" /\ online' = TRUE
    /\ inbox' = IF RotationIsDue THEN Append(inbox, pending) ELSE inbox
    /\ UNCHANGED <<master, minion, pending, rotation, created, offered, leaving, previous, faults,
                   ticks, wanted, applied, demoted>>

(* The minion executes the intent, says goodbye and asks for a reconnect.  *)
ApplyRotation ==
    LET k == Head(inbox)
        s == RetireElapsed(EnsureKey(minion, NewKey))
    IN  /\ link \in {"ehlo", "up"} /\ inbox # <<>>
        /\ CreateIf(NeedsKey(minion))
        /\ minion' = ExecuteRotation(s, k)
        /\ inbox' = Tail(inbox)
        /\ leaving' = TRUE
        /\ applied' = applied \cup {k}
        /\ demoted' = (demoted \cup ({s.active} \ {0})) \ {k}
        /\ UNCHANGED <<master, pending, rotation, link, offered, previous, online, faults, ticks, wanted>>

(* What the master keeps of a connection the minion has given up.          *)
LeftBehind == CASE link = "up" -> "mapped"
                [] link \in {"ack", "ehlo"} -> "channel"
                [] OTHER -> previous

Disconnect ==
    /\ link' = "down" /\ offered' = 0 /\ inbox' = <<>> /\ leaving' = FALSE
    /\ previous' = LeftBehind

Reconnect ==
    /\ leaving /\ Disconnect
    /\ UNCHANGED <<master, minion, pending, rotation, created, online, faults, ticks, wanted, applied, demoted>>

LoseConnection ==
    /\ link # "down" /\ Fault /\ Disconnect
    /\ UNCHANGED <<master, minion, pending, rotation, created, online, ticks, wanted, applied, demoted>>

(* A minion that starts creates a key if it has no active one.             *)
RestartMinion ==
    /\ Fault /\ Disconnect
    /\ CreateIf(NeedsKey(minion))
    /\ minion' = EnsureKey(minion, NewKey)
    /\ UNCHANGED <<master, pending, rotation, online, ticks, wanted, applied, demoted>>

(* The goodbye or the end of the earlier connection is handled.            *)
MasterForgets ==
    /\ previous # "none"
    /\ online' = (online /\ previous # "mapped")
    /\ previous' = "none"
    /\ UNCHANGED <<master, minion, pending, rotation, created, link, offered, inbox, leaving,
                   faults, ticks, wanted, applied, demoted>>

SessionExpires ==
    /\ online /\ link # "up"
    /\ online' = FALSE
    /\ UNCHANGED <<master, minion, pending, rotation, created, link, offered, inbox, leaving,
                   previous, faults, ticks, wanted, applied, demoted>>

(* One overlap window passes.                                              *)
Listed(s) == {k \in Keys : s.status[k] # "absent"}
Tick ==
    /\ ticks < MaxTicks
    /\ ticks' = ticks + 1
    /\ master' = [master EXCEPT !.old = Listed(master)]
    /\ minion' = [minion EXCEPT !.old = Listed(minion)]
    /\ demoted' = {}
    /\ UNCHANGED <<pending, rotation, created, link, offered, inbox, leaving, previous, online,
                   faults, wanted, applied>>

Bootstrap == Connect \/ RejectHello \/ AcceptHello \/ ReceiveAck
Cleanup == MasterForgets \/ SessionExpires

Next ==
    \/ Request \/ Bootstrap \/ AcceptInterrupted \/ ReceiveEarlyFrame
    \/ HandleEhlo \/ ApplyRotation \/ Reconnect
    \/ LoseConnection \/ RestartMinion \/ Cleanup \/ Tick

(* The minion reconnects without limit and both sides handle what they     *)
(* were sent; the end of a connection is noticed.                          *)
Fairness ==
    /\ WF_vars(Bootstrap \/ HandleEhlo)
    /\ WF_vars(ApplyRotation \/ Reconnect)
    /\ WF_vars(MasterForgets)

Spec == Init /\ [][Next]_vars
FairSpec == Spec /\ Fairness

-----------------------------------------------------------------------------
(* Properties                                                              *)

(* While the minion has a connection it has not decided to leave, both     *)
(* sides have the same active key, whatever rejected, interrupted and      *)
(* repeated bootstraps and rotations came before.                          *)
PeersAgree == link \in {"ehlo", "up"} /\ ~leaving => master.active = minion.active

(* The minion's store lists exactly one active key, the one its next hello *)
(* names, or none.  The master's list may hold several: a bootstrap with a *)
(* key it did not expect leaves the earlier one as it is.                  *)
OneActiveKey == {k \in Keys : minion.status[k] = "active"} = {minion.active} \ {0}

(* A staged rotation is forgotten only when the minion has executed it and *)
(* the master has made its key the active one.                             *)
IntentIsKept ==
    [][pending # 0 /\ pending' = 0 => pending \in applied /\ master'.active = pending]_vars

(* A context the master does not send again: it stopped between saving the *)
(* rotation and clearing the context.                                      *)
Shelved == pending # 0 /\ rotation = "idle"

(* The newest request of the operator takes effect: again and again both   *)
(* sides use its key, or one the minion made after it, and nothing stays   *)
(* staged.  Through lost connections, refused hellos and restarts the      *)
(* rotation is sent again until the minion connects with its key, unless   *)
(* the context is shelved.                                                 *)
NewestInEffect == /\ pending = 0 /\ master.active = minion.active
                  /\ master.active >= wanted
NewestTakesEffect == []<>(wanted = 0 \/ NewestInEffect \/ Shelved)

(* Without the exception it is what the guide promises, that a pending     *)
(* rotation is sent when the minion reconnects.  The code does not keep it *)
(* when the minion comes back with another key than the one it shelved.    *)
PendingIsSent == []<>(wanted = 0 \/ NewestInEffect)

(* An old key stays in the minion's store for the overlap window of the    *)
(* rotation that retired it.                                               *)
OverlapIsKept == Overlap => \A k \in demoted : minion.status[k] # "absent"
=============================================================================
