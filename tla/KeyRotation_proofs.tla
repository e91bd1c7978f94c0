------------------------- MODULE KeyRotation_proofs -------------------------
(***************************************************************************)
(* Theorems about the key rotation of KeyRotation.tla, for any number of   *)
(* keys, faults and overlap windows.                                       *)
(*                                                                         *)
(* OneActiveKey and PeersAgree are not inductive: a key becomes active     *)
(* when the ack of a hello arrives, and the hello named it earlier.        *)
(* HelloNamesActive says that it is still the minion's key then, and       *)
(* AckMatches that the master took the same one.  IntentIsKept needs that  *)
(* the key of a staged rotation is new to everything the minion has seen.  *)
(***************************************************************************)
EXTENDS KeyRotation, TLAPS

(* The parts of a side's records the proofs need.                          *)
ActiveKeys(s) == {k \in Keys : s.status[k] = "active"}
Unambiguous(s) == ActiveKeys(s) = {s.active} \ {0}
Typed(s) == /\ s \in PeerStates
            /\ s.last # 0

MinionOK == Typed(minion) /\ Unambiguous(minion)
MasterOK == Typed(master) /\ master.active # 0

HelloNamesActive ==
    link \in {"hello", "ack"} => offered # 0 /\ minion.active \in {0, offered}

AckMatches == link = "ack" => master.active = offered

(* Nothing the minion stores, offers or is sent is newer than created, and *)
(* the key of a staged rotation is known to the minion only by executing it. *)
KnownKeys == {minion.active, minion.last, offered}
Bounded == /\ pending <= created /\ \A k \in KnownKeys : k <= created
           /\ \A i \in DOMAIN inbox : inbox[i] <= created
Staged == pending # 0 /\ pending \in KnownKeys => pending \in applied

Inv == /\ TypeOK /\ MinionOK /\ MasterOK
       /\ HelloNamesActive /\ AckMatches /\ PeersAgree
       /\ Bounded /\ Staged

-----------------------------------------------------------------------------
\* Writing a record that is not active leaves the other keys as they are.
LEMMA UpsertOther ==
    ASSUME NEW s \in PeerStates, NEW k \in Keys, NEW st \in Statuses \ {"active"}
    PROVE  /\ UpsertKey(s, k, st) \in PeerStates /\ UpsertKey(s, k, st).last = k
           /\ UpsertKey(s, k, st).active = IF s.active = k THEN 0 ELSE s.active
           /\ Unambiguous(s) => Unambiguous(UpsertKey(s, k, st))
  <1> DEFINE u == UpsertKey(s, k, st)
  <1>1. u \in PeerStates /\ u.last = k /\ u.active = IF s.active = k THEN 0 ELSE s.active
    BY DEF UpsertKey, PeerStates, Keys
  <1>2. \A i \in Keys : u.status[i] = IF i = k THEN st ELSE s.status[i]
    BY DEF UpsertKey, PeerStates
  <1> QED
    BY <1>1, <1>2 DEF Unambiguous, ActiveKeys, Keys

\* Activating a key when no other one is active leaves exactly one.
LEMMA UpsertActive ==
    ASSUME NEW s \in PeerStates, NEW k \in Keys
    PROVE  /\ UpsertKey(s, k, "active") \in PeerStates
           /\ UpsertKey(s, k, "active").last = k
           /\ UpsertKey(s, k, "active").active = k
           /\ Unambiguous(s) /\ s.active \in {0, k} => Unambiguous(UpsertKey(s, k, "active"))
  <1> DEFINE u == UpsertKey(s, k, "active")
  <1>1. u \in PeerStates /\ u.last = k /\ u.active = k
    BY DEF UpsertKey, PeerStates, Keys, Statuses
  <1>2. \A i \in Keys : u.status[i] = IF i = k THEN "active" ELSE s.status[i]
    BY DEF UpsertKey, PeerStates
  <1> QED
    BY <1>1, <1>2 DEF Unambiguous, ActiveKeys, Keys

\* A key that is marked broken is not active any more.
LEMMA BreakingClears ==
    ASSUME NEW s \in PeerStates, NEW k \in Keys, s.active \in {0, k}, Unambiguous(s)
    PROVE  /\ MarkBroken(s, k) \in PeerStates /\ Unambiguous(MarkBroken(s, k))
           /\ MarkBroken(s, k).active = 0 /\ MarkBroken(s, k).last = k
  <1>1. "broken" \in Statuses \ {"active"}
    BY DEF Statuses
  <1> QED
    BY <1>1, UpsertOther DEF MarkBroken, Keys

\* Retiring removes no active key.
LEMMA RetireKeeps ==
    ASSUME NEW s \in PeerStates
    PROVE  /\ RetireElapsed(s) \in PeerStates
           /\ RetireElapsed(s).last = s.last /\ RetireElapsed(s).active = s.active
           /\ Unambiguous(s) => Unambiguous(RetireElapsed(s))
  <1> DEFINE gone == {k \in Keys : k # s.active /\ (~Overlap \/ (s.status[k] = "retiring" /\ k \in s.old))}
             kept == [k \in Keys |-> IF k \in gone THEN "absent" ELSE s.status[k]]
             u == RetireElapsed(s)
  <1>1. u = [s EXCEPT !.status = kept, !.old = @ \ gone]
    BY DEF RetireElapsed
  <1>4. kept \in [Keys -> Statuses]
    BY DEF PeerStates, Statuses
  <1>5. s.old \ gone \in SUBSET Keys
    BY DEF PeerStates
  <1> HIDE DEF gone, kept, u
  <1>2. u \in PeerStates /\ u.last = s.last /\ u.active = s.active /\ u.status = kept
    BY <1>1, <1>4, <1>5 DEF PeerStates
  <1>3. \A i \in Keys : u.status[i] = IF i \in gone THEN "absent" ELSE s.status[i]
    BY <1>2 DEF kept
  <1> QED
    BY <1>2, <1>3 DEF Unambiguous, ActiveKeys, gone, u

\* Executing a rotation makes its key the only active one, whatever was.
LEMMA ExecuteActivates ==
    ASSUME NEW s \in PeerStates, NEW k \in Keys
    PROVE  /\ ExecuteRotation(s, k) \in PeerStates
           /\ ExecuteRotation(s, k).last = k /\ ExecuteRotation(s, k).active = k
           /\ Unambiguous(s) => Unambiguous(ExecuteRotation(s, k))
  <1> DEFINE d == Demote(s, k)
  <1>1. d \in PeerStates /\ d.active \in {0, k} /\ (Unambiguous(s) => Unambiguous(d))
    <2>1. CASE s.active \in {0, k}
      BY <2>1 DEF Demote
    <2>2. CASE s.active \notin {0, k}
      <3>1. s.active \in Keys /\ d = UpsertKey(s, s.active, "retiring")
        BY <2>2 DEF Demote, PeerStates
      <3> QED
        BY <3>1, UpsertOther DEF Statuses
    <2> QED
      BY <2>1, <2>2
  <1>2. ExecuteRotation(s, k) = RetireElapsed(UpsertKey(d, k, "active"))
    BY DEF ExecuteRotation
  <1> QED
    BY <1>1, <1>2, UpsertActive, RetireKeeps

\* A side that has to create its key had none that was active.
LEMMA EnsureActivates ==
    ASSUME NEW s \in PeerStates, s.active = 0, NEW k \in Keys
    PROVE  /\ EnsureKey(s, k) \in PeerStates
           /\ EnsureKey(s, k).last = k /\ EnsureKey(s, k).active = k
           /\ Unambiguous(s) => Unambiguous(EnsureKey(s, k))
  BY UpsertActive DEF EnsureKey, NeedsKey

\* The fields the invariant reads.
LEMMA Fields ==
    ASSUME NEW s \in PeerStates
    PROVE  s.active \in Keys \cup {0} /\ s.last \in Keys \cup {0}
  BY DEF PeerStates

\* The time that passes changes no active key.
LEMMA AgeKeeps ==
    ASSUME NEW s \in PeerStates
    PROVE  LET u == [s EXCEPT !.old = Listed(s)]
           IN  /\ u \in PeerStates /\ u.active = s.active /\ u.last = s.last
               /\ Unambiguous(s) => Unambiguous(u)
  BY DEF PeerStates, Listed, Unambiguous, ActiveKeys

\* The key a hello names is one of the two the store remembers, never none.
LEMMA BootstrapKeyIsKnown ==
    ASSUME NEW s \in PeerStates, Typed(s)
    PROVE  /\ BootstrapKey(s) \in Keys
           /\ BootstrapKey(s) \in {s.active, s.last}
           /\ s.active \in {0, BootstrapKey(s)}
  BY Fields DEF BootstrapKey, Typed, Keys

\* What is appended is the only new element.
LEMMA AppendIndex ==
    ASSUME NEW q \in Seq(Keys), NEW k \in Keys
    PROVE  /\ Append(q, k) \in Seq(Keys)
           /\ \A i \in DOMAIN Append(q, k) :
                 (i \in DOMAIN q /\ Append(q, k)[i] = q[i]) \/ Append(q, k)[i] = k
  OBVIOUS

-----------------------------------------------------------------------------
\* The records of a side that has just made its first key.
LEMMA FreshKey == ASSUME NEW k \in Keys PROVE KeyOf(k) \in PeerStates /\ Unambiguous(KeyOf(k))
                                            /\ KeyOf(k).active = k /\ KeyOf(k).last = k
  <1> DEFINE st == [i \in Keys |-> IF i = k THEN "active" ELSE "absent"]
  <1>1. st \in [Keys -> Statuses] /\ \A i \in Keys : st[i] = IF i = k THEN "active" ELSE "absent"
    BY DEF Statuses
  <1>2. KeyOf(k) = [active |-> k, last |-> k, old |-> {}, status |-> st]
    BY DEF KeyOf
  <1> HIDE DEF st
  <1> QED
    BY <1>1, <1>2 DEF PeerStates, Unambiguous, ActiveKeys, Keys

\* The invariant holds after the registration.
LEMMA InvInit == Init => Inv
  <1> SUFFICES ASSUME Init PROVE Inv
    OBVIOUS
  <1> USE BoundsAssumption DEF Init
  <1>1. 1 \in Keys /\ 2 \in Keys
    BY DEF Keys
  <1>2. TypeOK
    <2>1. master \in PeerStates /\ minion \in PeerStates
      BY <1>1, FreshKey
    <2>2. inbox \in Seq(Keys)
      OBVIOUS
    <2>3. faults \in 0 .. MaxFaults /\ ticks \in 0 .. MaxTicks
      OBVIOUS
    <2>4. pending \in Keys \cup {0} /\ created \in Keys /\ link \in {"down", "hello", "ack", "ehlo", "up"} /\ offered \in Keys \cup {0}
      BY <1>1
    <2> QED
      BY <2>1, <2>2, <2>3, <2>4 DEF TypeOK
  <1>3. MinionOK /\ MasterOK
    BY <1>1, FreshKey DEF MinionOK, MasterOK, Typed
  <1>4. HelloNamesActive /\ AckMatches /\ PeersAgree
    BY DEF HelloNamesActive, AckMatches, PeersAgree
  <1>5. Bounded /\ Staged
    BY <1>1, FreshKey DEF Bounded, Staged, KnownKeys
  <1> QED
    BY <1>2, <1>3, <1>4, <1>5 DEF Inv

\* Every step of the two sides, the network and the clock keeps it.
LEMMA InvNext == Inv /\ [Next]_vars => Inv'
  <1> SUFFICES ASSUME TypeOK, MinionOK, MasterOK, HelloNamesActive, AckMatches, PeersAgree,
                      Bounded, Staged, [Next]_vars
               PROVE  Inv'
    BY DEF Inv
  <1> USE BoundsAssumption DEF Fault, Disconnect
  <1>k. 0 \notin Keys /\ \A k \in Keys : k \in Nat
    BY DEF Keys
  <1>f. {minion.active, minion.last, offered, pending, master.active} \subseteq Keys \cup {0}
    BY Fields DEF TypeOK
  <1>b. /\ created \in Nat /\ pending \in Nat /\ pending <= created
        /\ \A k \in KnownKeys : k \in Nat /\ k <= created
        /\ \A i \in DOMAIN inbox : inbox[i] \in Nat /\ inbox[i] <= created
    BY <1>k, <1>f DEF TypeOK, Bounded, KnownKeys
  <1>l. LeftBehind \in {"none", "channel", "mapped"}
    BY DEF LeftBehind, TypeOK
  <1>1. CASE Request
    <2> USE <1>1 DEF Request
    <2>1. NewKey \in Keys /\ NewKey > created
      BY DEF TypeOK, Keys, NewKey, MayCreate
    <2>a. /\ created' \in Keys /\ created' > created /\ pending' = created'
          /\ \A i \in DOMAIN inbox' : (i \in DOMAIN inbox /\ inbox'[i] = inbox[i]) \/ inbox'[i] = created'
          /\ wanted' = created' /\ inbox' \in Seq(Keys)
      BY <2>1, AppendIndex DEF TypeOK
    <2>2. TypeOK'
      BY <2>a DEF TypeOK
    <2>3. MinionOK'
      BY <1>k, <1>f, <1>b, <2>a DEF MinionOK, Typed
    <2>4. MasterOK'
      BY <1>k, <1>f, <1>b, <2>a DEF MasterOK, Typed
    <2>5. HelloNamesActive'
      BY <1>k, <1>f, <1>b, <2>a DEF HelloNamesActive
    <2>6. AckMatches'
      BY <1>k, <1>f, <1>b, <2>a DEF AckMatches, HelloNamesActive, MasterOK
    <2>7. PeersAgree'
      BY <1>k, <1>f, <1>b, <2>a DEF PeersAgree, AckMatches
    <2>8. Bounded'
      BY <1>k, <1>f, <1>b, <2>a DEF TypeOK, Bounded, KnownKeys, MinionOK, Typed
    <2>9. Staged'
      BY <1>k, <1>f, <1>b, <2>a DEF Bounded, Staged, KnownKeys, MinionOK, Typed
    <2> QED
      BY <2>2, <2>3, <2>4, <2>5, <2>6, <2>7, <2>8, <2>9 DEF Inv
  <1>2. CASE Connect
    <2> USE <1>2 DEF Connect
    <2>a. BootstrapKey(minion) \in Keys /\ BootstrapKey(minion) \in {minion.active, minion.last}
             /\ minion.active \in {0, BootstrapKey(minion)}
      BY <1>k, <1>f, BootstrapKeyIsKnown DEF MinionOK, Typed
    <2>1. TypeOK'
      BY <2>a DEF TypeOK
    <2>2. MinionOK'
      BY <1>k, <1>f, <2>a DEF MinionOK, Typed
    <2>3. MasterOK'
      BY <1>k, <1>f, <2>a DEF MasterOK, Typed
    <2>4. HelloNamesActive'
      BY <1>k, <1>f, <2>a DEF HelloNamesActive
    <2>5. AckMatches'
      BY <1>k, <1>f, <2>a DEF AckMatches, HelloNamesActive, MasterOK
    <2>6. PeersAgree'
      BY <1>k, <1>f, <2>a DEF PeersAgree, AckMatches
    <2>7. Bounded'
      BY <1>k, <1>f, <2>a DEF TypeOK, Bounded, KnownKeys, MinionOK, Typed
    <2>8. Staged'
      BY <1>k, <1>f, <2>a DEF Bounded, Staged, KnownKeys, MinionOK, Typed
    <2> QED
      BY <2>1, <2>2, <2>3, <2>4, <2>5, <2>6, <2>7, <2>8 DEF Inv
  <1>3. CASE RejectHello
    <2> USE <1>3 DEF RejectHello
    <2>a. /\ minion' \in PeerStates /\ Unambiguous(minion')
         /\ minion'.active = 0 /\ minion'.last = offered /\ offered \in Keys
      BY <1>k, <1>f, BreakingClears DEF MinionOK, Typed, HelloNamesActive
    <2>1. TypeOK'
      BY <2>a DEF TypeOK
    <2>2. MinionOK'
      BY <1>k, <1>f, <2>a DEF MinionOK, Typed
    <2>3. MasterOK'
      BY <1>k, <1>f, <2>a DEF MasterOK, Typed
    <2>4. HelloNamesActive'
      BY <1>k, <1>f, <2>a DEF HelloNamesActive
    <2>5. AckMatches'
      BY <1>k, <1>f, <2>a DEF AckMatches, HelloNamesActive, MasterOK
    <2>6. PeersAgree'
      BY <1>k, <1>f, <2>a DEF PeersAgree, AckMatches
    <2>7. Bounded'
      BY <1>k, <1>f, <2>a DEF TypeOK, Bounded, KnownKeys, MinionOK, Typed
    <2>8. Staged'
      BY <1>k, <1>f, <2>a DEF Bounded, Staged, KnownKeys, MinionOK, Typed
    <2> QED
      BY <2>1, <2>2, <2>3, <2>4, <2>5, <2>6, <2>7, <2>8 DEF Inv
  <1>4. CASE AcceptHello
    <2> USE <1>4 DEF AcceptHello
    <2>o. offered \in Keys /\ master \in PeerStates
      BY <1>f DEF TypeOK, HelloNamesActive
    <2>a. /\ master' \in PeerStates /\ master'.active = offered /\ master'.last = offered
         /\ pending' \in {0, pending} /\ rotation' \in {"idle", rotation} /\ offered \in Keys
      <3>1. CASE IsPromoted
        BY <3>1, <2>o, ExecuteActivates DEF PromoteBootstrapKey
      <3>2. CASE ~IsPromoted
        BY <3>2, <2>o, UpsertActive DEF PromoteBootstrapKey
      <3> QED
        BY <3>1, <3>2
    <2>1. TypeOK'
      BY <2>a DEF TypeOK
    <2>2. MinionOK'
      BY <1>k, <1>f, <2>a DEF MinionOK, Typed
    <2>3. MasterOK'
      BY <1>k, <1>f, <2>a DEF MasterOK, Typed
    <2>4. HelloNamesActive'
      BY <1>k, <1>f, <2>a DEF HelloNamesActive
    <2>5. AckMatches'
      BY <1>k, <1>f, <2>a DEF AckMatches, HelloNamesActive, MasterOK
    <2>6. PeersAgree'
      BY <1>k, <1>f, <2>a DEF PeersAgree, AckMatches
    <2>7. Bounded'
      BY <1>k, <1>f, <2>a DEF TypeOK, Bounded, KnownKeys, MinionOK, Typed
    <2>8. Staged'
      BY <1>k, <1>f, <2>a DEF Bounded, Staged, KnownKeys, MinionOK, Typed
    <2> QED
      BY <2>1, <2>2, <2>3, <2>4, <2>5, <2>6, <2>7, <2>8 DEF Inv
  <1>5. CASE AcceptInterrupted
    <2> USE <1>5 DEF AcceptInterrupted
    <2>a. /\ master' \in PeerStates /\ master'.active = offered /\ master'.last = offered
         /\ offered \in Keys
      BY <1>k, <1>f, ExecuteActivates DEF TypeOK, HelloNamesActive
    <2>1. TypeOK'
      <3>1. /\ master' \in PeerStates /\ minion' \in PeerStates
            /\ pending' \in Keys \cup {0} /\ created' \in Keys
        BY <2>a DEF TypeOK
      <3>2. /\ link' \in {"down", "hello", "ack", "ehlo", "up"} /\ offered' \in Keys \cup {0}
            /\ inbox' \in Seq(Keys)
            /\ previous' \in {"none", "channel", "mapped"}
        BY <1>l DEF TypeOK
      <3>3. leaving' \in BOOLEAN /\ online' \in BOOLEAN
        BY DEF TypeOK
      <3>4. /\ faults' \in 0 .. MaxFaults /\ ticks' \in 0 .. MaxTicks
            /\ wanted' \in Keys \cup {0} /\ applied' \subseteq Keys /\ demoted' \subseteq Keys
        BY DEF TypeOK
      <3> QED
        BY <3>1, <3>2, <3>3, <3>4 DEF TypeOK
    <2>2. MinionOK'
      BY <1>k, <1>f, <2>a DEF MinionOK, Typed
    <2>3. MasterOK'
      BY <1>k, <1>f, <2>a DEF MasterOK, Typed
    <2>4. HelloNamesActive'
      BY <1>k, <1>f, <2>a DEF HelloNamesActive
    <2>5. AckMatches'
      BY <1>k, <1>f, <2>a DEF AckMatches, HelloNamesActive, MasterOK
    <2>6. PeersAgree'
      BY <1>k, <1>f, <2>a DEF PeersAgree, AckMatches
    <2>7. Bounded'
      BY <1>k, <1>f, <2>a DEF TypeOK, Bounded, KnownKeys, MinionOK, Typed
    <2>8. Staged'
      BY <1>k, <1>f, <2>a DEF Bounded, Staged, KnownKeys, MinionOK, Typed
    <2> QED
      BY <2>1, <2>2, <2>3, <2>4, <2>5, <2>6, <2>7, <2>8 DEF Inv
  <1>6. CASE ReceiveAck
    <2> USE <1>6 DEF ReceiveAck
    <2>a. /\ minion' \in PeerStates /\ Unambiguous(minion')
         /\ minion'.active = offered /\ minion'.last = offered /\ offered \in Keys
      BY <1>k, <1>f, UpsertActive DEF MinionOK, Typed, HelloNamesActive
    <2>1. TypeOK'
      BY <2>a DEF TypeOK
    <2>2. MinionOK'
      BY <1>k, <1>f, <2>a DEF MinionOK, Typed
    <2>3. MasterOK'
      BY <1>k, <1>f, <2>a DEF MasterOK, Typed
    <2>4. HelloNamesActive'
      BY <1>k, <1>f, <2>a DEF HelloNamesActive
    <2>5. AckMatches'
      BY <1>k, <1>f, <2>a DEF AckMatches, HelloNamesActive, MasterOK
    <2>6. PeersAgree'
      BY <1>k, <1>f, <2>a DEF PeersAgree, AckMatches
    <2>7. Bounded'
      BY <1>k, <1>f, <2>a DEF TypeOK, Bounded, KnownKeys, MinionOK, Typed
    <2>8. Staged'
      BY <1>k, <1>f, <2>a DEF Bounded, Staged, KnownKeys, MinionOK, Typed
    <2> QED
      BY <2>1, <2>2, <2>3, <2>4, <2>5, <2>6, <2>7, <2>8 DEF Inv
  <1>7. CASE ReceiveEarlyFrame
    <2> USE <1>7 DEF ReceiveEarlyFrame
    <2>a. /\ minion' \in PeerStates /\ Unambiguous(minion')
         /\ minion'.active = 0 /\ minion'.last = offered /\ offered \in Keys
      BY <1>k, <1>f, BreakingClears DEF MinionOK, Typed, HelloNamesActive
    <2>1. TypeOK'
      BY <2>a DEF TypeOK
    <2>2. MinionOK'
      BY <1>k, <1>f, <2>a DEF MinionOK, Typed
    <2>3. MasterOK'
      BY <1>k, <1>f, <2>a DEF MasterOK, Typed
    <2>4. HelloNamesActive'
      BY <1>k, <1>f, <2>a DEF HelloNamesActive
    <2>5. AckMatches'
      BY <1>k, <1>f, <2>a DEF AckMatches, HelloNamesActive, MasterOK
    <2>6. PeersAgree'
      BY <1>k, <1>f, <2>a DEF PeersAgree, AckMatches
    <2>7. Bounded'
      BY <1>k, <1>f, <2>a DEF TypeOK, Bounded, KnownKeys, MinionOK, Typed
    <2>8. Staged'
      BY <1>k, <1>f, <2>a DEF Bounded, Staged, KnownKeys, MinionOK, Typed
    <2> QED
      BY <2>1, <2>2, <2>3, <2>4, <2>5, <2>6, <2>7, <2>8 DEF Inv
  <1>8. CASE HandleEhlo
    <2> USE <1>8 DEF HandleEhlo, RotationIsDue
    <2>1. TypeOK'
      BY DEF TypeOK
    <2>2. MinionOK'
      BY <1>k, <1>f DEF MinionOK, Typed
    <2>3. MasterOK'
      BY <1>k, <1>f DEF MasterOK, Typed
    <2>4. HelloNamesActive'
      BY <1>k, <1>f DEF HelloNamesActive
    <2>5. AckMatches'
      BY <1>k, <1>f DEF AckMatches, HelloNamesActive, MasterOK
    <2>6. PeersAgree'
      BY <1>k, <1>f DEF PeersAgree, AckMatches
    <2>7. Bounded'
      BY <1>k, <1>f DEF TypeOK, Bounded, KnownKeys, MinionOK, Typed
    <2>8. Staged'
      BY <1>k, <1>f DEF Bounded, Staged, KnownKeys, MinionOK, Typed
    <2> QED
      BY <2>1, <2>2, <2>3, <2>4, <2>5, <2>6, <2>7, <2>8 DEF Inv
  <1>9. CASE ApplyRotation
    <2> USE <1>9 DEF ApplyRotation
    <2> DEFINE k == Head(inbox)
               e == EnsureKey(minion, NewKey)
               s == RetireElapsed(e)
    <2>1. k \in Keys /\ k <= created
      BY DEF TypeOK, Bounded
    <2>2. e \in PeerStates /\ Unambiguous(e)
      BY EnsureActivates DEF TypeOK, MinionOK, CreateIf, MayCreate, NewKey, NeedsKey, EnsureKey, Keys
    <2>3. s \in PeerStates /\ Unambiguous(s) /\ s.active \in Keys \cup {0}
      BY <2>2, RetireKeeps, Fields
    <2>4. minion' = ExecuteRotation(s, k)
      OBVIOUS
    <2>a. /\ minion' \in PeerStates /\ Unambiguous(minion')
          /\ minion'.active = k /\ minion'.last = k
      BY <2>1, <2>3, <2>4, ExecuteActivates
    <2>b. created' \in Keys /\ created' >= created
      BY DEF TypeOK, CreateIf, MayCreate, NewKey, Keys
    <2>d. \A i \in DOMAIN inbox' : i + 1 \in DOMAIN inbox /\ inbox'[i] = inbox[i + 1]
      BY DEF TypeOK
    <2>c. /\ inbox' = Tail(inbox) /\ link' \in {"ehlo", "up"} /\ leaving' = TRUE /\ applied' = applied \cup {k}
          /\ demoted' \subseteq Keys
      BY <2>3 DEF TypeOK
    <2> HIDE DEF k, e, s
    <2>5. TypeOK'
      BY <2>1, <2>a, <2>b, <2>c, <2>d DEF TypeOK
    <2>6. MinionOK'
      BY <1>k, <1>f, <1>b, <2>1, <2>a, <2>b, <2>c, <2>d DEF MinionOK, Typed
    <2>7. MasterOK'
      BY <1>k, <1>f, <1>b, <2>1, <2>a, <2>b, <2>c, <2>d DEF MasterOK, Typed
    <2>8. HelloNamesActive'
      BY <1>k, <1>f, <1>b, <2>1, <2>a, <2>b, <2>c, <2>d DEF HelloNamesActive
    <2>9. AckMatches'
      BY <1>k, <1>f, <1>b, <2>1, <2>a, <2>b, <2>c, <2>d DEF AckMatches, HelloNamesActive, MasterOK
    <2>10. PeersAgree'
      BY <1>k, <1>f, <1>b, <2>1, <2>a, <2>b, <2>c, <2>d DEF PeersAgree, AckMatches
    <2>11. Bounded'
      BY <1>k, <1>f, <1>b, <2>1, <2>a, <2>b, <2>c, <2>d DEF TypeOK, Bounded, KnownKeys, MinionOK, Typed
    <2>12. Staged'
      BY <1>k, <1>f, <1>b, <2>1, <2>a, <2>b, <2>c, <2>d DEF Bounded, Staged, KnownKeys, MinionOK, Typed
    <2> QED
      BY <2>5, <2>6, <2>7, <2>8, <2>9, <2>10, <2>11, <2>12 DEF Inv
  <1>10. CASE Reconnect
    <2> USE <1>10 DEF Reconnect
    <2>1. TypeOK'
      <3>1. /\ master' \in PeerStates /\ minion' \in PeerStates
            /\ pending' \in Keys \cup {0} /\ created' \in Keys
        BY <1>l DEF TypeOK
      <3>2. /\ link' \in {"down", "hello", "ack", "ehlo", "up"} /\ offered' \in Keys \cup {0}
            /\ inbox' \in Seq(Keys)
            /\ previous' \in {"none", "channel", "mapped"}
        BY <1>l DEF TypeOK
      <3>3. leaving' \in BOOLEAN /\ online' \in BOOLEAN
        BY DEF TypeOK
      <3>4. /\ faults' \in 0 .. MaxFaults /\ ticks' \in 0 .. MaxTicks
            /\ wanted' \in Keys \cup {0} /\ applied' \subseteq Keys /\ demoted' \subseteq Keys
        BY DEF TypeOK
      <3> QED
        BY <3>1, <3>2, <3>3, <3>4 DEF TypeOK
    <2>2. MinionOK'
      BY <1>k, <1>f, <1>l DEF MinionOK, Typed
    <2>3. MasterOK'
      BY <1>k, <1>f, <1>l DEF MasterOK, Typed
    <2>4. HelloNamesActive'
      BY <1>k, <1>f, <1>l DEF HelloNamesActive
    <2>5. AckMatches'
      BY <1>k, <1>f, <1>l DEF AckMatches, HelloNamesActive, MasterOK
    <2>6. PeersAgree'
      BY <1>k, <1>f, <1>l DEF PeersAgree, AckMatches
    <2>7. Bounded'
      BY <1>k, <1>f, <1>l DEF TypeOK, Bounded, KnownKeys, MinionOK, Typed
    <2>8. Staged'
      BY <1>k, <1>f, <1>l DEF Bounded, Staged, KnownKeys, MinionOK, Typed
    <2> QED
      BY <2>1, <2>2, <2>3, <2>4, <2>5, <2>6, <2>7, <2>8 DEF Inv
  <1>11. CASE LoseConnection
    <2> USE <1>11 DEF LoseConnection
    <2>1. TypeOK'
      <3>1. /\ master' \in PeerStates /\ minion' \in PeerStates
            /\ pending' \in Keys \cup {0} /\ created' \in Keys
        BY <1>l DEF TypeOK
      <3>2. /\ link' \in {"down", "hello", "ack", "ehlo", "up"} /\ offered' \in Keys \cup {0}
            /\ inbox' \in Seq(Keys)
            /\ previous' \in {"none", "channel", "mapped"}
        BY <1>l DEF TypeOK
      <3>3. leaving' \in BOOLEAN /\ online' \in BOOLEAN
        BY DEF TypeOK
      <3>4. /\ faults' \in 0 .. MaxFaults /\ ticks' \in 0 .. MaxTicks
            /\ wanted' \in Keys \cup {0} /\ applied' \subseteq Keys /\ demoted' \subseteq Keys
        BY DEF TypeOK
      <3> QED
        BY <3>1, <3>2, <3>3, <3>4 DEF TypeOK
    <2>2. MinionOK'
      BY <1>k, <1>f, <1>l DEF MinionOK, Typed
    <2>3. MasterOK'
      BY <1>k, <1>f, <1>l DEF MasterOK, Typed
    <2>4. HelloNamesActive'
      BY <1>k, <1>f, <1>l DEF HelloNamesActive
    <2>5. AckMatches'
      BY <1>k, <1>f, <1>l DEF AckMatches, HelloNamesActive, MasterOK
    <2>6. PeersAgree'
      BY <1>k, <1>f, <1>l DEF PeersAgree, AckMatches
    <2>7. Bounded'
      BY <1>k, <1>f, <1>l DEF TypeOK, Bounded, KnownKeys, MinionOK, Typed
    <2>8. Staged'
      BY <1>k, <1>f, <1>l DEF Bounded, Staged, KnownKeys, MinionOK, Typed
    <2> QED
      BY <2>1, <2>2, <2>3, <2>4, <2>5, <2>6, <2>7, <2>8 DEF Inv
  <1>12. CASE RestartMinion
    <2> USE <1>12 DEF RestartMinion
    <2>a. /\ minion' \in PeerStates /\ Unambiguous(minion') /\ minion'.last # 0
         /\ \/ minion' = minion /\ created' = created
            \/ /\ created' \in Keys /\ created' > created
               /\ minion'.active = created' /\ minion'.last = created'
      BY <1>k, <1>f, EnsureActivates DEF TypeOK, MinionOK, Typed, CreateIf, MayCreate, NewKey, NeedsKey, EnsureKey, Keys
    <2>1. TypeOK'
      <3>1. /\ master' \in PeerStates /\ minion' \in PeerStates
            /\ pending' \in Keys \cup {0} /\ created' \in Keys
        BY <1>l, <1>b, <2>a DEF TypeOK
      <3>2. /\ link' \in {"down", "hello", "ack", "ehlo", "up"} /\ offered' \in Keys \cup {0}
            /\ inbox' \in Seq(Keys)
            /\ previous' \in {"none", "channel", "mapped"}
        BY <1>l DEF TypeOK
      <3>3. leaving' \in BOOLEAN /\ online' \in BOOLEAN
        BY DEF TypeOK
      <3>4. /\ faults' \in 0 .. MaxFaults /\ ticks' \in 0 .. MaxTicks
            /\ wanted' \in Keys \cup {0} /\ applied' \subseteq Keys /\ demoted' \subseteq Keys
        BY DEF TypeOK
      <3> QED
        BY <3>1, <3>2, <3>3, <3>4 DEF TypeOK
    <2>2. MinionOK'
      BY <1>k, <1>f, <1>l, <1>b, <2>a DEF MinionOK, Typed
    <2>3. MasterOK'
      BY <1>k, <1>f, <1>l, <1>b, <2>a DEF MasterOK, Typed
    <2>4. HelloNamesActive'
      BY <1>k, <1>f, <1>l, <1>b, <2>a DEF HelloNamesActive
    <2>5. AckMatches'
      BY <1>k, <1>f, <1>l, <1>b, <2>a DEF AckMatches, HelloNamesActive, MasterOK
    <2>6. PeersAgree'
      BY <1>k, <1>f, <1>l, <1>b, <2>a DEF PeersAgree, AckMatches
    <2>7. Bounded'
      <3>1. pending' <= created' /\ created' \in Nat
        BY <1>k, <1>b, <2>a
      <3>2. \A k \in {minion'.active, minion'.last} : k <= created'
        BY <1>b, <2>a, <3>1 DEF KnownKeys
      <3> QED
        BY <3>1, <3>2 DEF Bounded, KnownKeys
    <2>8. Staged'
      BY <1>k, <1>f, <1>l, <1>b, <2>a DEF Bounded, Staged, KnownKeys, MinionOK, Typed
    <2> QED
      BY <2>1, <2>2, <2>3, <2>4, <2>5, <2>6, <2>7, <2>8 DEF Inv
  <1>13. CASE Cleanup
    <2> USE <1>13 DEF Cleanup, MasterForgets, SessionExpires
    <2>1. TypeOK'
      BY DEF TypeOK
    <2>2. MinionOK'
      BY <1>k, <1>f DEF MinionOK, Typed
    <2>3. MasterOK'
      BY <1>k, <1>f DEF MasterOK, Typed
    <2>4. HelloNamesActive'
      BY <1>k, <1>f DEF HelloNamesActive
    <2>5. AckMatches'
      BY <1>k, <1>f DEF AckMatches, HelloNamesActive, MasterOK
    <2>6. PeersAgree'
      BY <1>k, <1>f DEF PeersAgree, AckMatches
    <2>7. Bounded'
      BY <1>k, <1>f DEF TypeOK, Bounded, KnownKeys, MinionOK, Typed
    <2>8. Staged'
      BY <1>k, <1>f DEF Bounded, Staged, KnownKeys, MinionOK, Typed
    <2> QED
      BY <2>1, <2>2, <2>3, <2>4, <2>5, <2>6, <2>7, <2>8 DEF Inv
  <1>14. CASE Tick
    <2> USE <1>14 DEF Tick
    <2>a. /\ minion' \in PeerStates /\ Unambiguous(minion') /\ master' \in PeerStates
         /\ minion'.active = minion.active /\ minion'.last = minion.last
         /\ master'.active = master.active /\ master'.last = master.last
      BY <1>k, <1>f, AgeKeeps DEF TypeOK, MinionOK
    <2>1. TypeOK'
      BY <2>a DEF TypeOK
    <2>2. MinionOK'
      BY <1>k, <1>f, <2>a DEF MinionOK, Typed
    <2>3. MasterOK'
      BY <1>k, <1>f, <2>a DEF MasterOK, Typed
    <2>4. HelloNamesActive'
      BY <1>k, <1>f, <2>a DEF HelloNamesActive
    <2>5. AckMatches'
      BY <1>k, <1>f, <2>a DEF AckMatches, HelloNamesActive, MasterOK
    <2>6. PeersAgree'
      BY <1>k, <1>f, <2>a DEF PeersAgree, AckMatches
    <2>7. Bounded'
      BY <1>k, <1>f, <2>a DEF TypeOK, Bounded, KnownKeys, MinionOK, Typed
    <2>8. Staged'
      BY <1>k, <1>f, <2>a DEF Bounded, Staged, KnownKeys, MinionOK, Typed
    <2> QED
      BY <2>1, <2>2, <2>3, <2>4, <2>5, <2>6, <2>7, <2>8 DEF Inv
  <1>15. CASE UNCHANGED vars
    <2> USE <1>15 DEF vars
    <2>1. TypeOK'
      BY DEF TypeOK
    <2>2. MinionOK' /\ MasterOK'
      BY DEF MinionOK, MasterOK, Typed
    <2>3. HelloNamesActive' /\ AckMatches' /\ PeersAgree'
      BY DEF HelloNamesActive, AckMatches, PeersAgree
    <2>4. Bounded' /\ Staged'
      BY DEF Bounded, Staged, KnownKeys
    <2> QED
      BY <2>1, <2>2, <2>3, <2>4 DEF Inv
  <1> QED
    BY <1>1, <1>2, <1>3, <1>4, <1>5, <1>6, <1>7, <1>8, <1>9, <1>10, <1>11, <1>12, <1>13, <1>14,
       <1>15 DEF Next, Bootstrap

-----------------------------------------------------------------------------
\* The state of the records and of the protocol keeps its types.
THEOREM RotationTyped == Spec => []TypeOK
  <1>1. Inv => TypeOK
    BY DEF Inv
  <1> QED
    BY <1>1, InvInit, InvNext, PTL DEF Spec

\* Master and minion name the same active key on every connection the minion
\* has not decided to leave.
THEOREM KeysAgree == Spec => []PeersAgree
  <1>1. Inv => PeersAgree
    BY DEF Inv
  <1> QED
    BY <1>1, InvInit, InvNext, PTL DEF Spec

\* The minion's store never lists two active keys.
THEOREM ActiveKeyIsUnique == Spec => []OneActiveKey
  <1>1. Inv => OneActiveKey
    BY DEF Inv, MinionOK, Unambiguous, ActiveKeys, OneActiveKey
  <1> QED
    BY <1>1, InvInit, InvNext, PTL DEF Spec

\* Only the hello of the staged key makes the master forget it, and by then
\* the minion has executed the rotation.
LEMMA ForgottenWhenApplied ==
    ASSUME Inv, [Next]_vars, pending # 0, pending' = 0
    PROVE  pending \in applied /\ master'.active = pending
  <1>1. CASE AcceptHello
    <2>1. IsPromoted /\ master' = ExecuteRotation(master, offered)
      BY <1>1 DEF AcceptHello, PromoteBootstrapKey
    <2>2. offered \in Keys /\ master \in PeerStates /\ pending = offered
      BY <1>1, <2>1 DEF AcceptHello, Inv, TypeOK, HelloNamesActive, IsPromoted
    <2>3. pending \in applied
      BY <2>2 DEF Inv, Staged, KnownKeys
    <2> QED
      BY <2>1, <2>2, <2>3, ExecuteActivates
  <1>2. CASE Request
    BY <1>2 DEF Request, NewKey, Inv, TypeOK, Keys
  <1>3. CASE ~AcceptHello /\ ~Request
    BY <1>3 DEF Next, vars, Bootstrap, Cleanup, Connect, RejectHello, ReceiveAck, AcceptInterrupted,
       ReceiveEarlyFrame, HandleEhlo, ApplyRotation, Reconnect, LoseConnection, RestartMinion,
       MasterForgets, SessionExpires, Tick, Disconnect
  <1> QED
    BY <1>1, <1>2, <1>3

\* A staged rotation is never lost: it is forgotten only when both sides use it.
THEOREM StagedIsKept == Spec => IntentIsKept
  <1>1. Inv /\ [Next]_vars => [pending # 0 /\ pending' = 0
                                   => pending \in applied /\ master'.active = pending]_vars
    BY ForgottenWhenApplied
  <1> QED
    BY <1>1, InvInit, InvNext, PTL DEF Spec, IntentIsKept
=============================================================================
