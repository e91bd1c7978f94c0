--------------------------- MODULE Journal_proofs ---------------------------
(***************************************************************************)
(* Theorems about the outgoing journal of Journal.tla, for any number of   *)
(* callers, cycles, entries and crashes, and for every byte budget.        *)
(*                                                                         *)
(* What an append has flushed stays on disk because nobody removes a key   *)
(* it did not find, no two appends use the same key, and an entry found    *)
(* before its append was flushed is remembered as freed.                   *)
(***************************************************************************)
EXTENDS Journal, FiniteSetTheorems, TLAPS

\* Callers that took the marker away and have no sequence number yet.
Numbering(c) == {p \in Callers : pc[p] = "seq" /\ cur[p].cycle = c}

\* The bound on sequence numbers leaves room for them.
Room == \A c \in Cycles : mem.next[c] + Cardinality(Numbering(c)) <= MaxSeq

Inside == {"insert", "total", "flush"}

(* Every number in use is below the counter of its cycle, in memory and in *)
(* what a crash would leave.                                               *)
Below ==
    /\ \A e \in mem.entries : e.seq < mem.next[e.cycle]
    /\ \A e \in disk.entries : e.seq < disk.next[e.cycle]
    /\ \A p \in Callers : \A e \in keys[p] : e.seq < mem.next[e.cycle]
    /\ \A p \in Callers : pc[p] \in Inside => cur[p].seq < mem.next[cur[p].cycle]

Distinct ==
    /\ \A p, q \in Callers : pc[p] \in Inside /\ pc[q] \in Inside /\ cur[p] = cur[q] => p = q
    /\ \A p, q \in Callers : pc[p] = "insert" => cur[p] \notin mem.entries /\ cur[p] \notin keys[q]

(* An entry whose append is not flushed is in the tree, or somebody found  *)
(* it.                                                                     *)
Found ==
    \A p \in Callers : pc[p] \in {"total", "flush"} =>
        /\ cur[p] \in mem.entries \cup freed
        /\ \A q \in Callers : cur[p] \in keys[q] => cur[p] \in freed

Kept ==
    /\ kept \subseteq mem.entries /\ NoLostEntry
    /\ \A q \in Callers : keys[q] \cap kept = {}

Entries == Below /\ Distinct /\ Found /\ Kept

-----------------------------------------------------------------------------
LEMMA NoEntryType == NoEntry \in Entry /\ NoEntry.seq = 0
  BY JournalAssumption DEF NoEntry, Entry

LEMMA NumberingFinite == \A c : IsFiniteSet(Numbering(c)) /\ Cardinality(Numbering(c)) \in Nat
  <1> TAKE c
  <1>1. Numbering(c) \in SUBSET Callers
    BY DEF Numbering
  <1> QED
    BY <1>1, FS_Subset, FS_CardinalityType, JournalAssumption

LEMMA TypeInit == Init => TypeOK /\ Room
  <1> SUFFICES ASSUME Init PROVE TypeOK /\ Room
    OBVIOUS
  <1>1. mem \in Trees
    BY JournalAssumption DEF Init, Trees
  <1>a. torn \in BOOLEAN
    BY DEF Init
  <1>2. TypeOK
    BY <1>1, <1>a, NoEntryType, JournalAssumption DEF Init, TypeOK
  <1>3. Room
    <2> SUFFICES ASSUME NEW c \in Cycles
                 PROVE  mem.next[c] + Cardinality(Numbering(c)) <= MaxSeq
      BY DEF Room
    <2>1. Numbering(c) = {}
      BY DEF Init, Numbering
    <2>2. mem.next[c] = 0 /\ Cardinality(Numbering(c)) = 0
      BY <2>1, FS_EmptySet DEF Init
    <2> QED
      BY <2>2, JournalAssumption
  <1> QED
    BY <1>2, <1>3

\* Steps that leave the counters and nobody in, or on the way to, "seq".
LEMMA RoomKept ==
    ASSUME Room, TypeOK, mem'.next = mem.next,
           \A c \in Cycles : Numbering(c)' \subseteq Numbering(c)
    PROVE  Room'
  <1> SUFFICES ASSUME NEW c \in Cycles
               PROVE  mem'.next[c] + Cardinality(Numbering(c)') <= MaxSeq
    BY DEF Room
  <1>1. Numbering(c)' \in SUBSET Numbering(c)
    OBVIOUS
  <1>2. /\ Cardinality(Numbering(c)') <= Cardinality(Numbering(c))
        /\ Cardinality(Numbering(c)') \in Nat /\ Cardinality(Numbering(c)) \in Nat
    BY <1>1, NumberingFinite, FS_Subset, FS_CardinalityType
  <1>3. mem.next[c] \in Nat /\ MaxSeq \in Nat
    BY JournalAssumption DEF TypeOK, Trees
  <1> QED
    BY <1>2, <1>3 DEF Room

LEMMA TypeNext ==
    ASSUME TypeOK, Room, [Next]_vars
    PROVE  TypeOK' /\ Room'
  <1> USE NoEntryType DEF Goto, Return, callerVars, historyVars
  <1>1. ASSUME NEW p \in Callers, AppendUnack(p) PROVE TypeOK' /\ Room'
    <2> USE <1>1 DEF AppendUnack
    <2>1. PICK c \in Cycles :
             /\ mem.next[c] + Cardinality(Numbering(c)) < MaxSeq
             /\ cur' = [cur EXCEPT ![p] = [cycle |-> c, seq |-> 0]]
             /\ mem' = [mem EXCEPT !.acked = @ \ {c}]
      BY DEF Numbering
    <2>2. cur'[p] = [cycle |-> c, seq |-> 0] /\ [cycle |-> c, seq |-> 0] \in Entry
      BY <2>1, JournalAssumption DEF Entry, TypeOK
    <2>3. cur' \in [Callers -> Entry] /\ mem' \in Trees /\ mem'.next = mem.next
      BY <2>1, <2>2 DEF TypeOK, Trees
    <2>4. TypeOK'
      BY <2>3 DEF TypeOK
    <2>5. Room'
      <3> SUFFICES ASSUME NEW d \in Cycles
                   PROVE  mem'.next[d] + Cardinality(Numbering(d)') <= MaxSeq
        BY DEF Room
      <3>1. CASE d = c
        <4>1. Numbering(d)' = Numbering(d) \cup {p}
          BY <2>1, <2>2, <3>1 DEF Numbering, TypeOK
        <4>a. IsFiniteSet(Numbering(d)) /\ Cardinality(Numbering(d)) \in Nat
          BY NumberingFinite
        <4>b. Cardinality(Numbering(d) \cup {p})
                = IF p \in Numbering(d) THEN Cardinality(Numbering(d)) ELSE Cardinality(Numbering(d)) + 1
          BY <4>a, FS_AddElement
        <4>2. /\ Cardinality(Numbering(d)') <= Cardinality(Numbering(d)) + 1
              /\ Cardinality(Numbering(d)') \in Nat
          BY <4>1, <4>a, <4>b
        <4>3. /\ mem.next[d] \in Nat /\ MaxSeq \in Nat
              /\ Cardinality(Numbering(d)) \in Nat /\ Cardinality(Numbering(d)') \in Nat
          BY <4>a, <4>2, JournalAssumption DEF TypeOK, Trees
        <4> QED
          BY <4>2, <4>3, <2>1, <2>3, <3>1
      <3>2. CASE d # c
        <4>1. Numbering(d)' = Numbering(d)
          BY <2>1, <2>2, <3>2 DEF Numbering, TypeOK
        <4> QED
          BY <4>1, <2>3 DEF Room
      <3> QED
        BY <3>1, <3>2
    <2> QED
      BY <2>4, <2>5
  <1>2. ASSUME NEW p \in Callers, NextSeq(p) PROVE TypeOK' /\ Room'
    <2> USE <1>2 DEF NextSeq
    <2> DEFINE c == cur[p].cycle
    <2>1. c \in Cycles /\ p \in Numbering(c) /\ mem.next[c] \in Nat /\ MaxSeq \in Nat
      BY JournalAssumption DEF TypeOK, Entry, Numbering, Trees
    <2>2. /\ Cardinality(Numbering(c) \ {p}) = Cardinality(Numbering(c)) - 1
          /\ Cardinality(Numbering(c)) \in Nat /\ Cardinality(Numbering(c) \ {p}) \in Nat
      BY <2>1, NumberingFinite, FS_RemoveElement, FS_CardinalityType
    <2>3. mem.next[c] + Cardinality(Numbering(c)) <= MaxSeq
      BY <2>1 DEF Room
    <2>4. mem.next[c] < MaxSeq
      BY <2>1, <2>2, <2>3
    <2>5. /\ cur' = [cur EXCEPT ![p] = [cycle |-> c, seq |-> mem.next[c]]]
          /\ mem'.next = [mem.next EXCEPT ![c] = mem.next[c] + 1]
      <3>1. cur[p] \in Entry
        BY DEF TypeOK
      <3>2. [cur[p] EXCEPT !.seq = mem.next[c]] = [cycle |-> c, seq |-> mem.next[c]]
        BY <3>1 DEF Entry
      <3>3. cur' = [cur EXCEPT ![p] = [cur[p] EXCEPT !.seq = mem.next[c]]]
        OBVIOUS
      <3>4. mem'.next = [mem.next EXCEPT ![c] = mem.next[c] + 1]
        BY <2>1 DEF TypeOK, Trees
      <3> QED
        BY <3>2, <3>3, <3>4
    <2>6. [cycle |-> c, seq |-> mem.next[c]] \in Entry /\ mem.next[c] + 1 \in 0 .. MaxSeq
      BY <2>1, <2>4 DEF Entry
    <2>7. cur' \in [Callers -> Entry] /\ mem'.next \in [Cycles -> 0 .. MaxSeq]
      <3>1. cur \in [Callers -> Entry] /\ mem.next \in [Cycles -> 0 .. MaxSeq]
        BY DEF TypeOK, Trees
      <3>2. \A x \in Entry : [cur EXCEPT ![p] = x] \in [Callers -> Entry]
        BY <3>1
      <3>3. \A x \in 0 .. MaxSeq : [mem.next EXCEPT ![c] = x] \in [Cycles -> 0 .. MaxSeq]
        BY <3>1
      <3> QED
        BY <2>5, <2>6, <3>2, <3>3
    <2>8. mem' \in Trees
      BY <2>7 DEF TypeOK, Trees
    <2>9. TypeOK'
      BY <2>7, <2>8 DEF TypeOK
    <2>10. Room'
      <3> SUFFICES ASSUME NEW d \in Cycles
                   PROVE  mem'.next[d] + Cardinality(Numbering(d)') <= MaxSeq
        BY DEF Room
      <3>1. CASE d = c
        <4>1. Numbering(d)' = Numbering(d) \ {p}
          BY <2>5, <3>1 DEF Numbering, TypeOK
        <4>2. mem'.next[d] = mem.next[d] + 1
          BY <2>5, <3>1, <2>1 DEF TypeOK, Trees
        <4> QED
          BY <4>1, <4>2, <2>1, <2>2, <2>3, <3>1
      <3>2. CASE d # c
        <4>1. Numbering(d)' = Numbering(d)
          BY <2>5, <3>2 DEF Numbering, TypeOK
        <4>2. mem'.next[d] = mem.next[d]
          BY <2>5, <3>2 DEF TypeOK, Trees
        <4> QED
          BY <4>1, <4>2 DEF Room
      <3> QED
        BY <3>1, <3>2
    <2> QED
      BY <2>9, <2>10
  <1>3. ASSUME NEW p \in Callers, InsertEntry(p) PROVE TypeOK' /\ Room'
    <2> USE <1>3 DEF InsertEntry
    <2>1. mem' \in Trees /\ disk' \in Trees /\ mem'.next = mem.next
      BY DEF TypeOK, Trees
    <2>2. /\ cur' \in [Callers -> Entry] /\ target' \in [Callers -> Entry]
          /\ op' \in [Callers -> {"none", "append", "ack", "complete"}]
      BY DEF TypeOK
    <2>3. TypeOK'
      BY <2>1, <2>2 DEF TypeOK
    <2>4. \A c \in Cycles : Numbering(c)' \subseteq Numbering(c)
      BY DEF Numbering, TypeOK
    <2> QED
      BY <2>1, <2>3, <2>4, RoomKept
  <1>4. ASSUME NEW p \in Callers, AddTotal(p) PROVE TypeOK' /\ Room'
    <2> USE <1>4 DEF AddTotal
    <2>1. mem' \in Trees /\ disk' \in Trees /\ mem'.next = mem.next
      BY DEF TypeOK, Trees
    <2>2. /\ cur' \in [Callers -> Entry] /\ target' \in [Callers -> Entry]
          /\ op' \in [Callers -> {"none", "append", "ack", "complete"}]
      BY DEF TypeOK
    <2>3. TypeOK'
      BY <2>1, <2>2 DEF TypeOK
    <2>4. \A c \in Cycles : Numbering(c)' \subseteq Numbering(c)
      BY DEF Numbering, TypeOK
    <2> QED
      BY <2>1, <2>3, <2>4, RoomKept
  <1>5. ASSUME NEW p \in Callers, AppendFlush(p) PROVE TypeOK' /\ Room'
    <2> USE <1>5 DEF AppendFlush
    <2>1. mem' \in Trees /\ disk' \in Trees /\ mem'.next = mem.next
      BY DEF TypeOK, Trees
    <2>2. /\ cur' \in [Callers -> Entry] /\ target' \in [Callers -> Entry]
          /\ op' \in [Callers -> {"none", "append", "ack", "complete"}]
      BY DEF TypeOK
    <2>3. TypeOK'
      BY <2>1, <2>2 DEF TypeOK
    <2>4. \A c \in Cycles : Numbering(c)' \subseteq Numbering(c)
      BY DEF Numbering, TypeOK
    <2> QED
      BY <2>1, <2>3, <2>4, RoomKept
  <1>6. ASSUME NEW p \in Callers, EvictOldest(p) PROVE TypeOK' /\ Room'
    <2> USE <1>6 DEF EvictOldest
    <2>1. mem' \in Trees /\ disk' \in Trees /\ mem'.next = mem.next
      BY DEF TypeOK, Trees
    <2>2. /\ cur' \in [Callers -> Entry] /\ target' \in [Callers -> Entry]
          /\ op' \in [Callers -> {"none", "append", "ack", "complete"}]
      <3>1. PICK e \in mem.entries : target' = [target EXCEPT ![p] = e]
        OBVIOUS
      <3>2. e \in Entry
        BY DEF TypeOK, Trees
      <3> QED
        BY <3>1, <3>2 DEF TypeOK
    <2>3. TypeOK'
      BY <2>1, <2>2 DEF TypeOK
    <2>4. \A c \in Cycles : Numbering(c)' \subseteq Numbering(c)
      BY DEF Numbering, TypeOK
    <2> QED
      BY <2>1, <2>3, <2>4, RoomKept
  <1>7. ASSUME NEW p \in Callers, EvictDone(p) PROVE TypeOK' /\ Room'
    <2> USE <1>7 DEF EvictDone
    <2>1. mem' \in Trees /\ disk' \in Trees /\ mem'.next = mem.next
      BY DEF TypeOK, Trees
    <2>2. /\ cur' \in [Callers -> Entry] /\ target' \in [Callers -> Entry]
          /\ op' \in [Callers -> {"none", "append", "ack", "complete"}]
      BY DEF TypeOK
    <2>3. TypeOK'
      BY <2>1, <2>2 DEF TypeOK
    <2>4. \A c \in Cycles : Numbering(c)' \subseteq Numbering(c)
      BY DEF Numbering, TypeOK
    <2> QED
      BY <2>1, <2>3, <2>4, RoomKept
  <1>8. ASSUME NEW p \in Callers, AckStart(p) PROVE TypeOK' /\ Room'
    <2> USE <1>8 DEF AckStart, EntriesOf
    <2>1. mem' \in Trees /\ disk' \in Trees /\ mem'.next = mem.next
      BY DEF TypeOK, Trees
    <2>2. /\ cur' \in [Callers -> Entry] /\ target' \in [Callers -> Entry]
          /\ op' \in [Callers -> {"none", "append", "ack", "complete"}]
      BY JournalAssumption DEF TypeOK, Entry
    <2>3. TypeOK'
      BY <2>1, <2>2 DEF TypeOK
    <2>4. \A c \in Cycles : Numbering(c)' \subseteq Numbering(c)
      BY DEF Numbering, TypeOK
    <2> QED
      BY <2>1, <2>3, <2>4, RoomKept
  <1>9. ASSUME NEW p \in Callers, ScanKeys(p) PROVE TypeOK' /\ Room'
    <2> USE <1>9 DEF ScanKeys, Matching, EntriesOf
    <2>1. mem' \in Trees /\ disk' \in Trees /\ mem'.next = mem.next
      BY DEF TypeOK, Trees
    <2>2. /\ cur' \in [Callers -> Entry] /\ target' \in [Callers -> Entry]
          /\ op' \in [Callers -> {"none", "append", "ack", "complete"}]
      BY DEF TypeOK
    <2>a. Matching(mem.entries, target[p]) \subseteq Entry
      BY DEF TypeOK, Trees
    <2> HIDE DEF Matching, EntriesOf
    <2>b. /\ keys' \in [Callers -> SUBSET Entry]
          /\ kept' \subseteq Entry /\ freed' \subseteq Entry
      BY <2>a DEF TypeOK
    <2>c. overlap' \subseteq Cycles
      BY DEF TypeOK, Entry
    <2>3. TypeOK'
      BY <2>1, <2>2, <2>b, <2>c DEF TypeOK
    <2>4. \A c \in Cycles : Numbering(c)' \subseteq Numbering(c)
      BY DEF Numbering, TypeOK
    <2> QED
      BY <2>1, <2>3, <2>4, RoomKept
  <1>10. ASSUME NEW p \in Callers, Subtract(p) PROVE TypeOK' /\ Room'
    <2> USE <1>10 DEF Subtract
    <2>1. mem' \in Trees /\ disk' \in Trees /\ mem'.next = mem.next
      BY DEF TypeOK, Trees
    <2>2. /\ cur' \in [Callers -> Entry] /\ target' \in [Callers -> Entry]
          /\ op' \in [Callers -> {"none", "append", "ack", "complete"}]
      BY DEF TypeOK
    <2>3. TypeOK'
      BY <2>1, <2>2 DEF TypeOK
    <2>4. \A c \in Cycles : Numbering(c)' \subseteq Numbering(c)
      BY DEF Numbering, TypeOK
    <2> QED
      BY <2>1, <2>3, <2>4, RoomKept
  <1>11. ASSUME NEW p \in Callers, RemoveKey(p) PROVE TypeOK' /\ Room'
    <2> USE <1>11 DEF RemoveKey
    <2>1. mem' \in Trees /\ disk' \in Trees /\ mem'.next = mem.next
      BY DEF TypeOK, Trees
    <2>2. /\ cur' \in [Callers -> Entry] /\ target' \in [Callers -> Entry]
          /\ op' \in [Callers -> {"none", "append", "ack", "complete"}]
      BY DEF TypeOK
    <2>3. TypeOK'
      BY <2>1, <2>2 DEF TypeOK
    <2>4. \A c \in Cycles : Numbering(c)' \subseteq Numbering(c)
      BY DEF Numbering, TypeOK
    <2> QED
      BY <2>1, <2>3, <2>4, RoomKept
  <1>12. ASSUME NEW p \in Callers, MarkAcked(p) PROVE TypeOK' /\ Room'
    <2> USE <1>12 DEF MarkAcked
    <2>1. mem' \in Trees /\ disk' \in Trees /\ mem'.next = mem.next
      BY DEF TypeOK, Trees, Entry
    <2>2. /\ cur' \in [Callers -> Entry] /\ target' \in [Callers -> Entry]
          /\ op' \in [Callers -> {"none", "append", "ack", "complete"}]
      BY DEF TypeOK
    <2>a. overlap' \subseteq Cycles
      BY DEF TypeOK, Entry
    <2>3. TypeOK'
      BY <2>1, <2>2, <2>a DEF TypeOK
    <2>4. \A c \in Cycles : Numbering(c)' \subseteq Numbering(c)
      BY DEF Numbering, TypeOK
    <2> QED
      BY <2>1, <2>3, <2>4, RoomKept
  <1>13. ASSUME NEW p \in Callers, ClearCompleted(p) PROVE TypeOK' /\ Room'
    <2> USE <1>13 DEF ClearCompleted
    <2>1. mem' \in Trees /\ disk' \in Trees /\ mem'.next = mem.next
      BY DEF TypeOK, Trees, Entry
    <2>2. /\ cur' \in [Callers -> Entry] /\ target' \in [Callers -> Entry]
          /\ op' \in [Callers -> {"none", "append", "ack", "complete"}]
      BY DEF TypeOK
    <2>3. TypeOK'
      BY <2>1, <2>2 DEF TypeOK
    <2>4. \A c \in Cycles : Numbering(c)' \subseteq Numbering(c)
      BY DEF Numbering, TypeOK
    <2> QED
      BY <2>1, <2>3, <2>4, RoomKept
  <1>14. ASSUME NEW p \in Callers, AckFlush(p) PROVE TypeOK' /\ Room'
    <2> USE <1>14 DEF AckFlush
    <2>1. mem' \in Trees /\ disk' \in Trees /\ mem'.next = mem.next
      BY DEF TypeOK, Trees
    <2>2. /\ cur' \in [Callers -> Entry] /\ target' \in [Callers -> Entry]
          /\ op' \in [Callers -> {"none", "append", "ack", "complete"}]
      BY DEF TypeOK
    <2>3. TypeOK'
      BY <2>1, <2>2 DEF TypeOK
    <2>4. \A c \in Cycles : Numbering(c)' \subseteq Numbering(c)
      BY DEF Numbering, TypeOK
    <2> QED
      BY <2>1, <2>3, <2>4, RoomKept
  <1>15. ASSUME NEW p \in Callers, AckReturn(p) PROVE TypeOK' /\ Room'
    <2> USE <1>15 DEF AckReturn
    <2>1. mem' \in Trees /\ disk' \in Trees /\ mem'.next = mem.next
      BY DEF TypeOK, Trees
    <2>2. /\ cur' \in [Callers -> Entry] /\ target' \in [Callers -> Entry]
          /\ op' \in [Callers -> {"none", "append", "ack", "complete"}]
      BY DEF TypeOK
    <2>3. TypeOK'
      BY <2>1, <2>2 DEF TypeOK
    <2>4. \A c \in Cycles : Numbering(c)' \subseteq Numbering(c)
      BY DEF Numbering, TypeOK
    <2> QED
      BY <2>1, <2>3, <2>4, RoomKept
  <1>16. ASSUME NEW p \in Callers, MarkCompleted(p) PROVE TypeOK' /\ Room'
    <2> USE <1>16 DEF MarkCompleted
    <2>1. mem' \in Trees /\ disk' \in Trees /\ mem'.next = mem.next
      BY DEF TypeOK, Trees
    <2>2. /\ cur' \in [Callers -> Entry] /\ target' \in [Callers -> Entry]
          /\ op' \in [Callers -> {"none", "append", "ack", "complete"}]
      BY DEF TypeOK
    <2>3. TypeOK'
      BY <2>1, <2>2 DEF TypeOK
    <2>4. \A c \in Cycles : Numbering(c)' \subseteq Numbering(c)
      BY DEF Numbering, TypeOK
    <2> QED
      BY <2>1, <2>3, <2>4, RoomKept
  <1>17. ASSUME NEW p \in Callers, CompleteFlush(p) PROVE TypeOK' /\ Room'
    <2> USE <1>17 DEF CompleteFlush
    <2>1. mem' \in Trees /\ disk' \in Trees /\ mem'.next = mem.next
      BY DEF TypeOK, Trees
    <2>2. /\ cur' \in [Callers -> Entry] /\ target' \in [Callers -> Entry]
          /\ op' \in [Callers -> {"none", "append", "ack", "complete"}]
      BY DEF TypeOK
    <2>3. TypeOK'
      BY <2>1, <2>2 DEF TypeOK
    <2>4. \A c \in Cycles : Numbering(c)' \subseteq Numbering(c)
      BY DEF Numbering, TypeOK
    <2> QED
      BY <2>1, <2>3, <2>4, RoomKept
  <1>18. CASE Persist \/ UNCHANGED vars
    <2> USE <1>18 DEF Persist, vars
    <2>1. TypeOK'
      BY DEF TypeOK
    <2>2. mem'.next = mem.next /\ \A c \in Cycles : Numbering(c)' \subseteq Numbering(c)
      BY DEF Numbering
    <2> QED
      BY <2>1, <2>2, RoomKept
  <1>19. CASE Crash
    <2> USE <1>19 DEF Crash
    <2>1. TypeOK'
      BY JournalAssumption DEF TypeOK
    <2>2. Room'
      <3> SUFFICES ASSUME NEW c \in Cycles
                   PROVE  mem'.next[c] + Cardinality(Numbering(c)') <= MaxSeq
        BY DEF Room
      <3>1. Numbering(c)' = {}
        BY DEF Numbering
      <3>2. disk.next[c] \in 0 .. MaxSeq
        BY DEF TypeOK, Trees
      <3> QED
        BY <3>1, <3>2, FS_EmptySet
    <2> QED
      BY <2>1, <2>2
  <1> QED
    BY <1>1, <1>2, <1>3, <1>4, <1>5, <1>6, <1>7, <1>8, <1>9, <1>10, <1>11, <1>12, <1>13, <1>14, <1>15, <1>16, <1>17, <1>18, <1>19
    DEF Next, AppendOp, AckOp, CompleteOp

-----------------------------------------------------------------------------
LEMMA EntriesInit == Init => Entries
  BY DEF Init, Entries, Below, Inside, Distinct, Found, Kept, NoLostEntry

LEMMA EntriesNext ==
    ASSUME TypeOK, TypeOK', Entries, [Next]_vars
    PROVE  Entries'
  <1> USE DEF Goto, Return, callerVars, historyVars
  <1>1. ASSUME NEW p \in Callers, AppendUnack(p) PROVE Entries'
    <2> USE <1>1 DEF AppendUnack
    <2>1. Below'
      BY DEF Entries, Below, Inside, TypeOK, Trees, Entry
    <2>2. Distinct'
      BY DEF Entries, Distinct, Below, Inside, TypeOK, Trees, Entry
    <2>3. Found'
      BY DEF Entries, Found, Distinct, Inside, TypeOK, Trees, Entry
    <2>4. Kept'
      BY DEF Entries, Kept, NoLostEntry, Found, TypeOK, Trees, Entry
    <2> QED
      BY <2>1, <2>2, <2>3, <2>4 DEF Entries
  <1>2. ASSUME NEW p \in Callers, NextSeq(p) PROVE Entries'
    <2> USE <1>2 DEF NextSeq
    <2>1. Below'
      BY DEF Entries, Below, Inside, TypeOK, Trees, Entry
    <2>a. PICK c \in Cycles : /\ cur'[p].cycle = c /\ cur'[p].seq = mem.next[c]
                             /\ \A q \in Callers \ {p} : cur'[q] = cur[q] /\ pc'[q] = pc[q]
      BY DEF TypeOK, Entry
    <2>b. mem'.entries = mem.entries /\ keys' = keys /\ mem.next[c] \in Nat
      BY DEF TypeOK, Trees
    <2>c. \A q \in Callers : pc[q] \in Inside => cur[q].seq < mem.next[cur[q].cycle]
      BY DEF Entries, Below
    <2>d. \A q \in Callers \ {p} : pc'[q] \in Inside => cur'[q] # cur'[p]
      <3> HIDE <1>2 DEF NextSeq
      <3> SUFFICES ASSUME NEW q \in Callers \ {p}, pc'[q] \in Inside
                   PROVE  cur'[q] # cur'[p]
        OBVIOUS
      <3>a. cur'[q] = cur[q] /\ pc[q] \in Inside
        BY <2>a
      <3>1. CASE cur[q].cycle = c
        <4>1. cur[q].seq < mem.next[c]
          BY <3>1, <3>a, <2>c
        <4>2. cur[q].seq # mem.next[c]
          BY <4>1, <2>b
        <4> QED
          BY <4>2, <3>a, <2>a
      <3>2. CASE cur[q].cycle # c
        BY <3>2, <2>a
      <3> QED
        BY <3>1, <3>2
    <2>e. cur'[p] \notin mem'.entries /\ \A q \in Callers : cur'[p] \notin keys'[q]
      <3> HIDE <1>2 DEF NextSeq
      <3>1. \A e \in mem.entries : e.cycle = c => e.seq < mem.next[c]
        BY DEF Entries, Below
      <3>2. \A q \in Callers : \A e \in keys[q] : e.cycle = c => e.seq < mem.next[c]
        BY DEF Entries, Below
      <3>3. \A e : e.cycle = c /\ e.seq < mem.next[c] => e # cur'[p]
        BY <2>a, <2>b
      <3>4. cur'[p].cycle = c
        BY <2>a
      <3>5. cur'[p] \notin mem.entries
        BY <3>1, <3>3, <3>4
      <3>6. \A q \in Callers : cur'[p] \notin keys[q]
        BY <3>2, <3>3, <3>4
      <3> QED
        BY <3>5, <3>6, <2>b
    <2>2. Distinct'
      <3>1. \A q \in Callers \ {p} : pc[q] = "insert" =>
               cur'[q] \notin mem'.entries /\ \A r \in Callers : cur'[q] \notin keys'[r]
        BY <2>a, <2>b DEF Entries, Distinct
      <3>2. \A q, r \in Callers \ {p} : pc'[q] \in Inside /\ pc'[r] \in Inside /\ cur'[q] = cur'[r] => q = r
        BY <2>a DEF Entries, Distinct
      <3> QED
        BY <3>1, <3>2, <2>a, <2>d, <2>e DEF Distinct
    <2>3. Found'
      BY DEF Entries, Found, Distinct, Inside, TypeOK, Trees, Entry
    <2>4. Kept'
      BY DEF Entries, Kept, NoLostEntry, Found, TypeOK, Trees, Entry
    <2> QED
      BY <2>1, <2>2, <2>3, <2>4 DEF Entries
  <1>3. ASSUME NEW p \in Callers, InsertEntry(p) PROVE Entries'
    <2> USE <1>3 DEF InsertEntry
    <2>1. Below'
      BY DEF Entries, Below, Inside, TypeOK, Trees, Entry
    <2>2. Distinct'
      BY DEF Entries, Distinct, Below, Inside, TypeOK, Trees, Entry
    <2>3. Found'
      BY DEF Entries, Found, Distinct, Inside, TypeOK, Trees, Entry
    <2>4. Kept'
      BY DEF Entries, Kept, NoLostEntry, Found, TypeOK, Trees, Entry
    <2> QED
      BY <2>1, <2>2, <2>3, <2>4 DEF Entries
  <1>4. ASSUME NEW p \in Callers, AddTotal(p) PROVE Entries'
    <2> USE <1>4 DEF AddTotal
    <2>1. Below'
      BY DEF Entries, Below, Inside, TypeOK, Trees, Entry
    <2>2. Distinct'
      BY DEF Entries, Distinct, Below, Inside, TypeOK, Trees, Entry
    <2>3. Found'
      BY DEF Entries, Found, Distinct, Inside, TypeOK, Trees, Entry
    <2>4. Kept'
      BY DEF Entries, Kept, NoLostEntry, Found, TypeOK, Trees, Entry
    <2> QED
      BY <2>1, <2>2, <2>3, <2>4 DEF Entries
  <1>5. ASSUME NEW p \in Callers, AppendFlush(p) PROVE Entries'
    <2> USE <1>5 DEF AppendFlush
    <2>1. Below'
      BY DEF Entries, Below, Inside, TypeOK, Trees, Entry
    <2>2. Distinct'
      BY DEF Entries, Distinct, Below, Inside, TypeOK, Trees, Entry
    <2>3. Found'
      BY DEF Entries, Found, Distinct, Inside, TypeOK, Trees, Entry
    <2>4. Kept'
      BY DEF Entries, Kept, NoLostEntry, Found, TypeOK, Trees, Entry
    <2> QED
      BY <2>1, <2>2, <2>3, <2>4 DEF Entries
  <1>6. ASSUME NEW p \in Callers, EvictOldest(p) PROVE Entries'
    <2> USE <1>6 DEF EvictOldest
    <2>1. Below'
      BY DEF Entries, Below, Inside, TypeOK, Trees, Entry
    <2>2. Distinct'
      BY DEF Entries, Distinct, Below, Inside, TypeOK, Trees, Entry
    <2>3. Found'
      BY DEF Entries, Found, Distinct, Inside, TypeOK, Trees, Entry
    <2>4. Kept'
      BY DEF Entries, Kept, NoLostEntry, Found, TypeOK, Trees, Entry
    <2> QED
      BY <2>1, <2>2, <2>3, <2>4 DEF Entries
  <1>7. ASSUME NEW p \in Callers, EvictDone(p) PROVE Entries'
    <2> USE <1>7 DEF EvictDone
    <2>1. Below'
      BY DEF Entries, Below, Inside, TypeOK, Trees, Entry
    <2>2. Distinct'
      BY DEF Entries, Distinct, Below, Inside, TypeOK, Trees, Entry
    <2>3. Found'
      BY DEF Entries, Found, Distinct, Inside, TypeOK, Trees, Entry
    <2>4. Kept'
      BY DEF Entries, Kept, NoLostEntry, Found, TypeOK, Trees, Entry
    <2> QED
      BY <2>1, <2>2, <2>3, <2>4 DEF Entries
  <1>8. ASSUME NEW p \in Callers, AckStart(p) PROVE Entries'
    <2> USE <1>8 DEF AckStart
    <2>1. Below'
      BY DEF Entries, Below, Inside, TypeOK, Trees, Entry
    <2>2. Distinct'
      BY DEF Entries, Distinct, Below, Inside, TypeOK, Trees, Entry
    <2>3. Found'
      BY DEF Entries, Found, Distinct, Inside, TypeOK, Trees, Entry
    <2>4. Kept'
      BY DEF Entries, Kept, NoLostEntry, Found, TypeOK, Trees, Entry
    <2> QED
      BY <2>1, <2>2, <2>3, <2>4 DEF Entries
  <1>9. ASSUME NEW p \in Callers, ScanKeys(p) PROVE Entries'
    <2> USE <1>9 DEF ScanKeys
    <2>a. Matching(mem.entries, target[p]) \subseteq mem.entries
      BY DEF Matching, EntriesOf
    <2>1. Below'
      BY <2>a DEF Entries, Below, Inside, TypeOK, Trees, Entry
    <2>2. Distinct'
      BY <2>a DEF Entries, Distinct, Below, Inside, TypeOK, Trees, Entry
    <2>3. Found'
      BY <2>a DEF Entries, Found, Distinct, Inside, TypeOK, Trees, Entry
    <2>4. Kept'
      BY <2>a DEF Entries, Kept, NoLostEntry, Found, TypeOK, Trees, Entry
    <2> QED
      BY <2>1, <2>2, <2>3, <2>4 DEF Entries
  <1>10. ASSUME NEW p \in Callers, Subtract(p) PROVE Entries'
    <2> USE <1>10 DEF Subtract
    <2>1. Below'
      BY DEF Entries, Below, Inside, TypeOK, Trees, Entry
    <2>2. Distinct'
      BY DEF Entries, Distinct, Below, Inside, TypeOK, Trees, Entry
    <2>3. Found'
      BY DEF Entries, Found, Distinct, Inside, TypeOK, Trees, Entry
    <2>4. Kept'
      BY DEF Entries, Kept, NoLostEntry, Found, TypeOK, Trees, Entry
    <2> QED
      BY <2>1, <2>2, <2>3, <2>4 DEF Entries
  <1>11. ASSUME NEW p \in Callers, RemoveKey(p) PROVE Entries'
    <2> USE <1>11 DEF RemoveKey
    <2>1. Below'
      BY DEF Entries, Below, Inside, TypeOK, Trees, Entry
    <2>2. Distinct'
      BY DEF Entries, Distinct, Below, Inside, TypeOK, Trees, Entry
    <2>3. Found'
      BY DEF Entries, Found, Distinct, Inside, TypeOK, Trees, Entry
    <2>4. Kept'
      BY DEF Entries, Kept, NoLostEntry, Found, TypeOK, Trees, Entry
    <2> QED
      BY <2>1, <2>2, <2>3, <2>4 DEF Entries
  <1>12. ASSUME NEW p \in Callers, MarkAcked(p) PROVE Entries'
    <2> USE <1>12 DEF MarkAcked
    <2>1. Below'
      BY DEF Entries, Below, Inside, TypeOK, Trees, Entry
    <2>2. Distinct'
      BY DEF Entries, Distinct, Below, Inside, TypeOK, Trees, Entry
    <2>3. Found'
      BY DEF Entries, Found, Distinct, Inside, TypeOK, Trees, Entry
    <2>4. Kept'
      BY DEF Entries, Kept, NoLostEntry, Found, TypeOK, Trees, Entry
    <2> QED
      BY <2>1, <2>2, <2>3, <2>4 DEF Entries
  <1>13. ASSUME NEW p \in Callers, ClearCompleted(p) PROVE Entries'
    <2> USE <1>13 DEF ClearCompleted
    <2>1. Below'
      BY DEF Entries, Below, Inside, TypeOK, Trees, Entry
    <2>2. Distinct'
      BY DEF Entries, Distinct, Below, Inside, TypeOK, Trees, Entry
    <2>3. Found'
      BY DEF Entries, Found, Distinct, Inside, TypeOK, Trees, Entry
    <2>4. Kept'
      BY DEF Entries, Kept, NoLostEntry, Found, TypeOK, Trees, Entry
    <2> QED
      BY <2>1, <2>2, <2>3, <2>4 DEF Entries
  <1>14. ASSUME NEW p \in Callers, AckFlush(p) PROVE Entries'
    <2> USE <1>14 DEF AckFlush
    <2>1. Below'
      BY DEF Entries, Below, Inside, TypeOK, Trees, Entry
    <2>2. Distinct'
      BY DEF Entries, Distinct, Below, Inside, TypeOK, Trees, Entry
    <2>3. Found'
      BY DEF Entries, Found, Distinct, Inside, TypeOK, Trees, Entry
    <2>4. Kept'
      BY DEF Entries, Kept, NoLostEntry, Found, TypeOK, Trees, Entry
    <2> QED
      BY <2>1, <2>2, <2>3, <2>4 DEF Entries
  <1>15. ASSUME NEW p \in Callers, AckReturn(p) PROVE Entries'
    <2> USE <1>15 DEF AckReturn
    <2>1. Below'
      BY DEF Entries, Below, Inside, TypeOK, Trees, Entry
    <2>2. Distinct'
      BY DEF Entries, Distinct, Below, Inside, TypeOK, Trees, Entry
    <2>3. Found'
      BY DEF Entries, Found, Distinct, Inside, TypeOK, Trees, Entry
    <2>4. Kept'
      BY DEF Entries, Kept, NoLostEntry, Found, TypeOK, Trees, Entry
    <2> QED
      BY <2>1, <2>2, <2>3, <2>4 DEF Entries
  <1>16. ASSUME NEW p \in Callers, MarkCompleted(p) PROVE Entries'
    <2> USE <1>16 DEF MarkCompleted
    <2>1. Below'
      BY DEF Entries, Below, Inside, TypeOK, Trees, Entry
    <2>2. Distinct'
      BY DEF Entries, Distinct, Below, Inside, TypeOK, Trees, Entry
    <2>3. Found'
      BY DEF Entries, Found, Distinct, Inside, TypeOK, Trees, Entry
    <2>4. Kept'
      BY DEF Entries, Kept, NoLostEntry, Found, TypeOK, Trees, Entry
    <2> QED
      BY <2>1, <2>2, <2>3, <2>4 DEF Entries
  <1>17. ASSUME NEW p \in Callers, CompleteFlush(p) PROVE Entries'
    <2> USE <1>17 DEF CompleteFlush
    <2>1. Below'
      BY DEF Entries, Below, Inside, TypeOK, Trees, Entry
    <2>2. Distinct'
      BY DEF Entries, Distinct, Below, Inside, TypeOK, Trees, Entry
    <2>3. Found'
      BY DEF Entries, Found, Distinct, Inside, TypeOK, Trees, Entry
    <2>4. Kept'
      BY DEF Entries, Kept, NoLostEntry, Found, TypeOK, Trees, Entry
    <2> QED
      BY <2>1, <2>2, <2>3, <2>4 DEF Entries
  <1>18. CASE Persist
    <2> USE <1>18 DEF Persist
    <2>1. Below'
      BY DEF Entries, Below, Inside, TypeOK, Trees, Entry
    <2>2. Distinct'
      BY DEF Entries, Distinct, Below, Inside, TypeOK, Trees, Entry
    <2>3. Found'
      BY DEF Entries, Found, Distinct, Inside, TypeOK, Trees, Entry
    <2>4. Kept'
      BY DEF Entries, Kept, NoLostEntry, Found, TypeOK, Trees, Entry
    <2> QED
      BY <2>1, <2>2, <2>3, <2>4 DEF Entries
  <1>19. CASE Crash
    <2> USE <1>19 DEF Crash
    <2>1. Below'
      BY DEF Entries, Below, Inside, TypeOK, Trees, Entry
    <2>2. Distinct'
      BY DEF Entries, Distinct, Below, Inside, TypeOK, Trees, Entry
    <2>3. Found'
      BY DEF Entries, Found, Distinct, Inside, TypeOK, Trees, Entry
    <2>4. Kept'
      BY DEF Entries, Kept, NoLostEntry, Found, TypeOK, Trees, Entry
    <2> QED
      BY <2>1, <2>2, <2>3, <2>4 DEF Entries
  <1>20. CASE UNCHANGED vars
    <2> USE <1>20 DEF vars
    <2>1. Below'
      BY DEF Entries, Below, Inside, TypeOK, Trees, Entry
    <2>2. Distinct'
      BY DEF Entries, Distinct, Below, Inside, TypeOK, Trees, Entry
    <2>3. Found'
      BY DEF Entries, Found, Distinct, Inside, TypeOK, Trees, Entry
    <2>4. Kept'
      BY DEF Entries, Kept, NoLostEntry, Found, TypeOK, Trees, Entry
    <2> QED
      BY <2>1, <2>2, <2>3, <2>4 DEF Entries
  <1> QED
    BY <1>1, <1>2, <1>3, <1>4, <1>5, <1>6, <1>7, <1>8, <1>9, <1>10, <1>11, <1>12, <1>13, <1>14, <1>15, <1>16, <1>17, <1>18, <1>19, <1>20
    DEF Next, AppendOp, AckOp, CompleteOp

-----------------------------------------------------------------------------
Inv == TypeOK /\ Room /\ Entries

LEMMA InvInit == Init => Inv
  BY TypeInit, EntriesInit DEF Inv

LEMMA InvNext == Inv /\ [Next]_vars => Inv'
  BY TypeNext, EntriesNext DEF Inv

\* The journal's state keeps its types, for any number of callers and entries.
THEOREM JournalTyped == Spec => []TypeOK
  <1>1. Inv => TypeOK
    BY DEF Inv
  <1> QED
    BY <1>1, InvInit, InvNext, PTL DEF Spec

\* What an append returned for is on disk until an ack or an eviction of its
\* cycle finds it, whatever other callers and crashes do.
THEOREM JournalKeeps == Spec => []NoLostEntry
  <1>1. Inv => NoLostEntry
    BY DEF Inv, Entries, Kept
  <1> QED
    BY <1>1, InvInit, InvNext, PTL DEF Spec

-----------------------------------------------------------------------------
(* Calls that overlap.  Two appends, or an append and an ack of another    *)
(* cycle, do not disturb each other; what does is named by overlap and     *)
(* torn, and everything below holds until it happens.                      *)

(* Which call a program counter belongs to.                                *)
Calls ==
    \A p \in Callers :
        /\ pc[p] = "idle" => op[p] = "none"
        /\ pc[p] \in {"seq", "insert", "total", "flush", "evict"} => op[p] = "append"
        /\ pc[p] \in {"scan", "subtract", "remove", "uncomplete", "ackFlush"} => op[p] \in {"append", "ack"}
        /\ pc[p] = "completeFlush" => op[p] = "complete"
        /\ pc[p] = "return" => op[p] = "ack"

(* A cycle marked acked has no entries and nobody appends to it, in memory *)
(* and in what a crash leaves.                                             *)
Marks ==
    \A c \in Cycles \ overlap :
        /\ c \in mem.acked => ~Resumed(c)
        /\ c \in disk.acked => EntriesOf(disk.entries, c) = {}

(* What an ack has to free is of its cycle, is not inserted again, and is  *)
(* among the keys its scan found.                                          *)
Due(p) ==
    /\ op[p] # "ack" => due[p] = {}
    /\ op[p] = "ack" => ~HasColon(target[p].seq) /\ \A e \in due[p] : e.cycle = target[p].cycle
    /\ \A e \in due[p] : e.seq < mem.next[e.cycle]
    /\ \A q \in Callers : pc[q] = "insert" => cur[q] \notin due[p]
    /\ pc[p] \in {"subtract", "remove"} => due[p] \cap mem.entries \subseteq keys[p]
    /\ pc[p] \in {"uncomplete", "ackFlush", "return"} => due[p] \cap mem.entries = {}

Dues == \A p \in Callers : Due(p)

(* Calls that were not in each other's way: every key still to be removed  *)
(* is stored, counted, and wanted by one caller only.                      *)
Apart ==
    overlap = {} =>
        /\ \A p \in Callers : keys[p] \subseteq mem.entries
        /\ \A p, q \in Callers : p # q => keys[p] \cap keys[q] = {}
        /\ \A p \in Callers : pc[p] = "total" => cur[p] \in mem.entries
        /\ \A p, q \in Callers : pc[p] = "total" => cur[p] \notin keys[q]

(* Between calls everything is on disk: a call ends with a flush.          *)
Flushed == (\A p \in Callers : pc[p] \in {"idle", "evict", "scan", "return"}) => disk = mem

(* Entries inserted and not yet in the total, or taken off it and not yet  *)
(* removed.                                                                *)
Uncounted ==
    {e \in Entry : \E p \in Callers : \/ pc[p] = "total" /\ cur[p] = e
                                      \/ pc[p] = "remove" /\ FirstKey(keys[p], e)}

Sizes ==
    /\ IsFiniteSet(mem.entries) /\ IsFiniteSet(disk.entries)
    /\ ~Drifted => mem.total = Cardinality(mem.entries \ Uncounted)

(* An append that has counted its entry and has not evicted yet.           *)
Evicting(p) ==
    op[p] = "append" /\ pc[p] \in {"flush", "evict", "scan", "subtract", "remove", "uncomplete", "ackFlush"}

Fits == ~Drifted /\ MaxBytes > 0 /\ (\A p \in Callers : ~Evicting(p)) => mem.total <= MaxBytes

-----------------------------------------------------------------------------
\* ack_cycle names a cycle by the key of its first entry, which is read as it was written.
LEMMA NoColon == ~HasColon(0)
  BY DEF HasColon

\* The keys of a cycle have one first key at most.
LEMMA FirstIsUnique ==
    ASSUME NEW S \in SUBSET Entry, NEW e, NEW f, FirstKey(S, e), FirstKey(S, f)
    PROVE  e = f
  <1>1. e \in Entry /\ f \in Entry
    BY DEF FirstKey
  <1>a. /\ e.cycle \in Cycles /\ e.seq \in 0 .. (MaxSeq - 1) /\ e = [cycle |-> e.cycle, seq |-> e.seq]
        /\ f.cycle \in Cycles /\ f.seq \in 0 .. (MaxSeq - 1) /\ f = [cycle |-> f.cycle, seq |-> f.seq]
    BY <1>1 DEF Entry
  <1>2. e.cycle \in Nat /\ f.cycle \in Nat /\ e.seq \in Int /\ f.seq \in Int
    BY <1>a, JournalAssumption
  <1> QED
    BY <1>a, <1>2 DEF FirstKey, Before

\* Every step leaves a caller inside the call it made.
LEMMA CallsNext ==
    ASSUME TypeOK, Calls, [Next]_vars
    PROVE  Calls'
  <1> USE DEF TypeOK, Calls, Entry, Goto, Return, callerVars, historyVars
  <1>1. ASSUME NEW p \in Callers, AppendUnack(p) \/ NextSeq(p) \/ InsertEntry(p) \/ AddTotal(p) PROVE Calls'
    BY <1>1 DEF AppendUnack, NextSeq, InsertEntry, AddTotal
  <1>2. ASSUME NEW p \in Callers, AppendFlush(p) \/ EvictOldest(p) \/ EvictDone(p) PROVE Calls'
    BY <1>2 DEF AppendFlush, EvictOldest, EvictDone
  <1>3. ASSUME NEW p \in Callers, AckStart(p) PROVE Calls'
    BY <1>3 DEF AckStart
  <1>4. ASSUME NEW p \in Callers, ScanKeys(p) \/ Subtract(p) \/ RemoveKey(p) PROVE Calls'
    BY <1>4 DEF ScanKeys, Subtract, RemoveKey
  <1>5. ASSUME NEW p \in Callers, MarkAcked(p) \/ ClearCompleted(p) \/ AckFlush(p) \/ AckReturn(p) PROVE Calls'
    BY <1>5 DEF MarkAcked, ClearCompleted, AckFlush, AckReturn
  <1>6. ASSUME NEW p \in Callers, MarkCompleted(p) \/ CompleteFlush(p) PROVE Calls'
    BY <1>6 DEF MarkCompleted, CompleteFlush
  <1>7. CASE Persist \/ Crash \/ UNCHANGED vars
    BY <1>7 DEF Persist, Crash, vars
  <1> QED
    BY <1>1, <1>2, <1>3, <1>4, <1>5, <1>6, <1>7
    DEF Next, AppendOp, AckOp, CompleteOp

\* append takes the marker away before it inserts; a marker set over an append is an overlap.
LEMMA MarksNext ==
    ASSUME TypeOK, Marks, [Next]_vars
    PROVE  Marks'
  <1> USE DEF TypeOK, Trees, Entry, Marks, Resumed, EntriesOf, Goto, Return, callerVars, historyVars
  <1>1. ASSUME NEW p \in Callers, AppendUnack(p) PROVE Marks'
    BY <1>1 DEF AppendUnack
  <1>2. ASSUME NEW p \in Callers, NextSeq(p) PROVE Marks'
    BY <1>2 DEF NextSeq
  <1>3. ASSUME NEW p \in Callers, InsertEntry(p) PROVE Marks'
    BY <1>3 DEF InsertEntry
  <1>4. ASSUME NEW p \in Callers, AddTotal(p) PROVE Marks'
    BY <1>4 DEF AddTotal
  <1>5. ASSUME NEW p \in Callers, AppendFlush(p) PROVE Marks'
    BY <1>5 DEF AppendFlush
  <1>6. ASSUME NEW p \in Callers, EvictOldest(p) PROVE Marks'
    BY <1>6 DEF EvictOldest
  <1>7. ASSUME NEW p \in Callers, EvictDone(p) PROVE Marks'
    BY <1>7 DEF EvictDone
  <1>8. ASSUME NEW p \in Callers, MarkAcked(p) PROVE Marks'
    BY <1>8 DEF MarkAcked
  <1>9. ASSUME NEW p \in Callers, AckStart(p) PROVE Marks'
    BY <1>9 DEF AckStart
  <1>10. ASSUME NEW p \in Callers, ScanKeys(p) PROVE Marks'
    BY <1>10 DEF ScanKeys
  <1>11. ASSUME NEW p \in Callers, Subtract(p) PROVE Marks'
    BY <1>11 DEF Subtract
  <1>12. ASSUME NEW p \in Callers, RemoveKey(p) PROVE Marks'
    BY <1>12 DEF RemoveKey
  <1>13. ASSUME NEW p \in Callers, ClearCompleted(p) PROVE Marks'
    BY <1>13 DEF ClearCompleted
  <1>14. ASSUME NEW p \in Callers, AckFlush(p) PROVE Marks'
    BY <1>14 DEF AckFlush
  <1>15. ASSUME NEW p \in Callers, AckReturn(p) PROVE Marks'
    BY <1>15 DEF AckReturn
  <1>16. ASSUME NEW p \in Callers, MarkCompleted(p) PROVE Marks'
    BY <1>16 DEF MarkCompleted
  <1>17. ASSUME NEW p \in Callers, CompleteFlush(p) PROVE Marks'
    BY <1>17 DEF CompleteFlush
  <1>18. CASE Persist \/ Crash \/ UNCHANGED vars
    BY <1>18 DEF Persist, Crash, vars
  <1> QED
    BY <1>1, <1>2, <1>3, <1>4, <1>5, <1>6, <1>7, <1>8, <1>9, <1>10, <1>11, <1>12, <1>13, <1>14, <1>15, <1>16, <1>17, <1>18
    DEF Next, AppendOp, AckOp, CompleteOp

\* An ack's scan finds what it has to free, and nothing of it is inserted again.
LEMMA DuesNext ==
    ASSUME TypeOK, Entries, Calls, Marks, Dues, [Next]_vars
    PROVE  Dues'
  <1> USE DEF TypeOK, Trees, Entry, Dues, Due, Goto, Return, callerVars, historyVars
  <1>1. ASSUME NEW p \in Callers, AppendUnack(p) PROVE Dues'
    BY <1>1 DEF AppendUnack, Calls
  <1>2. ASSUME NEW p \in Callers, NextSeq(p) PROVE Dues'
    BY <1>2 DEF NextSeq, Calls
  <1>3. ASSUME NEW p \in Callers, InsertEntry(p) PROVE Dues'
    BY <1>3 DEF InsertEntry, Calls
  <1>4. ASSUME NEW p \in Callers, AddTotal(p) PROVE Dues'
    BY <1>4 DEF AddTotal, Calls
  <1>5. ASSUME NEW p \in Callers, AppendFlush(p) PROVE Dues'
    BY <1>5 DEF AppendFlush, Calls
  <1>6. ASSUME NEW p \in Callers, EvictOldest(p) PROVE Dues'
    BY <1>6 DEF EvictOldest, Calls
  <1>7. ASSUME NEW p \in Callers, EvictDone(p) PROVE Dues'
    BY <1>7 DEF EvictDone, Calls
  <1>8. ASSUME NEW p \in Callers, AckStart(p) PROVE Dues'
    <2>1. PICK c \in Cycles :
             /\ target' = [target EXCEPT ![p] = [cycle |-> c, seq |-> 0]]
             /\ due' = [due EXCEPT ![p] = IF c \in mem.acked \cap overlap THEN {} ELSE EntriesOf(kept, c)]
             /\ pc' = [pc EXCEPT ![p] = IF c \in mem.acked THEN "return" ELSE "scan"]
      BY <1>8 DEF AckStart
    <2>2. c \in mem.acked \ overlap => EntriesOf(kept, c) = {}
      BY DEF Marks, Resumed, EntriesOf, Entries, Kept
    <2>3. \A e \in EntriesOf(kept, c) : /\ e \in mem.entries /\ e.cycle = c /\ e.seq < mem.next[e.cycle]
                                        /\ \A q \in Callers : pc[q] = "insert" => cur[q] # e
      BY DEF EntriesOf, Entries, Kept, Below, Distinct
    <2>4. Due(p)'
      BY <1>8, <2>1, <2>2, <2>3, NoColon DEF AckStart
    <2>5. \A q \in Callers \ {p} : Due(q)'
      BY <1>8, <2>1 DEF AckStart
    <2> QED
      BY <2>4, <2>5
  <1>9. ASSUME NEW p \in Callers, ScanKeys(p) PROVE Dues'
    BY <1>9 DEF ScanKeys, Matching, EntriesOf
  <1>10. ASSUME NEW p \in Callers, Subtract(p) PROVE Dues'
    BY <1>10 DEF Subtract
  <1>11. ASSUME NEW p \in Callers, RemoveKey(p) PROVE Dues'
    BY <1>11 DEF RemoveKey
  <1>12. ASSUME NEW p \in Callers, MarkAcked(p) PROVE Dues'
    BY <1>12 DEF MarkAcked
  <1>13. ASSUME NEW p \in Callers, ClearCompleted(p) PROVE Dues'
    BY <1>13 DEF ClearCompleted, Calls
  <1>14. ASSUME NEW p \in Callers, AckFlush(p) PROVE Dues'
    BY <1>14 DEF AckFlush, Calls
  <1>15. ASSUME NEW p \in Callers, AckReturn(p) PROVE Dues'
    BY <1>15 DEF AckReturn, Calls
  <1>16. ASSUME NEW p \in Callers, MarkCompleted(p) PROVE Dues'
    BY <1>16 DEF MarkCompleted, Calls
  <1>17. ASSUME NEW p \in Callers, CompleteFlush(p) PROVE Dues'
    BY <1>17 DEF CompleteFlush, Calls
  <1>18. CASE Persist \/ Crash \/ UNCHANGED vars
    BY <1>18 DEF Persist, Crash, vars
  <1> QED
    BY <1>1, <1>2, <1>3, <1>4, <1>5, <1>6, <1>7, <1>8, <1>9, <1>10, <1>11, <1>12, <1>13, <1>14, <1>15, <1>16, <1>17, <1>18
    DEF Next, AppendOp, AckOp, CompleteOp

\* A scan that takes an uncounted entry, or one that another call removes, is an overlap.
LEMMA ApartNext ==
    ASSUME TypeOK, Distinct, Apart, [Next]_vars
    PROVE  Apart'
  <1> USE DEF TypeOK, Trees, Entry, Apart, Goto, Return, callerVars, historyVars
  <1>1. ASSUME NEW p \in Callers, AppendUnack(p) PROVE Apart'
    BY <1>1 DEF AppendUnack
  <1>2. ASSUME NEW p \in Callers, NextSeq(p) PROVE Apart'
    BY <1>2 DEF NextSeq
  <1>3. ASSUME NEW p \in Callers, AddTotal(p) PROVE Apart'
    BY <1>3 DEF AddTotal
  <1>4. ASSUME NEW p \in Callers, InsertEntry(p) PROVE Apart'
    BY <1>4 DEF InsertEntry, Distinct
  <1>5. ASSUME NEW p \in Callers, AppendFlush(p) PROVE Apart'
    BY <1>5 DEF AppendFlush
  <1>6. ASSUME NEW p \in Callers, EvictOldest(p) PROVE Apart'
    BY <1>6 DEF EvictOldest
  <1>7. ASSUME NEW p \in Callers, EvictDone(p) PROVE Apart'
    BY <1>7 DEF EvictDone
  <1>8. ASSUME NEW p \in Callers, AckStart(p) PROVE Apart'
    BY <1>8 DEF AckStart
  <1>9. ASSUME NEW p \in Callers, ScanKeys(p) PROVE Apart'
    <2> DEFINE found == Matching(mem.entries, target[p])
    <2>1. found \subseteq mem.entries
      BY DEF Matching, EntriesOf
    <2>2. keys' = [keys EXCEPT ![p] = found] /\ UNCHANGED <<mem, cur>>
      BY <1>9 DEF ScanKeys
    <2>3. pc' = [pc EXCEPT ![p] = "subtract"]
      BY <1>9 DEF ScanKeys
    <2>4. overlap' = {} => overlap = {} /\ found \cap Unsettled = {}
      BY <1>9 DEF ScanKeys
    <2>5. overlap' = {} => \A q \in Callers : /\ keys[q] \cap found = {}
                                              /\ pc[q] = "total" => cur[q] \notin found
      BY <2>1, <2>4 DEF Unsettled
    <2> HIDE DEF found
    <2> QED
      BY <2>1, <2>2, <2>3, <2>4, <2>5
  <1>10. ASSUME NEW p \in Callers, Subtract(p) PROVE Apart'
    BY <1>10 DEF Subtract
  <1>11. ASSUME NEW p \in Callers, RemoveKey(p) PROVE Apart'
    <2>1. PICK e \in keys[p] : mem' = [mem EXCEPT !.entries = @ \ {e}] /\ keys' = [keys EXCEPT ![p] = @ \ {e}]
      BY <1>11 DEF RemoveKey
    <2> QED
      BY <1>11, <2>1 DEF RemoveKey
  <1>12. ASSUME NEW p \in Callers, MarkAcked(p) PROVE Apart'
    BY <1>12 DEF MarkAcked
  <1>13. ASSUME NEW p \in Callers, ClearCompleted(p) PROVE Apart'
    BY <1>13 DEF ClearCompleted
  <1>14. ASSUME NEW p \in Callers, AckFlush(p) PROVE Apart'
    BY <1>14 DEF AckFlush
  <1>15. ASSUME NEW p \in Callers, AckReturn(p) PROVE Apart'
    BY <1>15 DEF AckReturn
  <1>16. ASSUME NEW p \in Callers, MarkCompleted(p) PROVE Apart'
    BY <1>16 DEF MarkCompleted
  <1>17. ASSUME NEW p \in Callers, CompleteFlush(p) PROVE Apart'
    BY <1>17 DEF CompleteFlush
  <1>18. CASE Persist \/ Crash \/ UNCHANGED vars
    BY <1>18 DEF Persist, Crash, vars
  <1> QED
    BY <1>1, <1>2, <1>3, <1>4, <1>5, <1>6, <1>7, <1>8, <1>9, <1>10, <1>11, <1>12, <1>13, <1>14, <1>15, <1>16, <1>17, <1>18
    DEF Next, AppendOp, AckOp, CompleteOp

\* Whoever changes a tree is inside a call until the flush that follows.
LEMMA FlushedNext ==
    ASSUME TypeOK, Flushed, [Next]_vars
    PROVE  Flushed'
  <1> USE DEF TypeOK, Flushed, Goto, Return, callerVars, historyVars
  <1>1. ASSUME NEW p \in Callers, AppendUnack(p) \/ NextSeq(p) \/ InsertEntry(p) \/ AddTotal(p) PROVE Flushed'
    BY <1>1 DEF AppendUnack, NextSeq, InsertEntry, AddTotal
  <1>2. ASSUME NEW p \in Callers, AppendFlush(p) \/ EvictOldest(p) \/ EvictDone(p) PROVE Flushed'
    BY <1>2 DEF AppendFlush, EvictOldest, EvictDone
  <1>3. ASSUME NEW p \in Callers, AckStart(p) \/ ScanKeys(p) \/ Subtract(p) \/ RemoveKey(p) PROVE Flushed'
    BY <1>3 DEF AckStart, ScanKeys, Subtract, RemoveKey
  <1>4. ASSUME NEW p \in Callers, MarkAcked(p) \/ ClearCompleted(p) \/ AckFlush(p) \/ AckReturn(p) PROVE Flushed'
    BY <1>4 DEF MarkAcked, ClearCompleted, AckFlush, AckReturn
  <1>5. ASSUME NEW p \in Callers, MarkCompleted(p) \/ CompleteFlush(p) PROVE Flushed'
    BY <1>5 DEF MarkCompleted, CompleteFlush
  <1>6. CASE Persist \/ Crash \/ UNCHANGED vars
    BY <1>6 DEF Persist, Crash, vars
  <1> QED
    BY <1>1, <1>2, <1>3, <1>4, <1>5, <1>6
    DEF Next, AppendOp, AckOp, CompleteOp

-----------------------------------------------------------------------------
\* Steps that touch neither the entries nor what is being counted.
LEMMA SizesKept ==
    ASSUME Sizes, Drifted' \/ ~Drifted, mem'.entries = mem.entries, mem'.total = mem.total,
           disk'.entries \in {mem.entries, disk.entries}, ~Drifted' => Uncounted' = Uncounted
    PROVE  Sizes'
  BY DEF Sizes

\* Every insert is counted once, and every removal of an entry that is there.
LEMMA SizesNext ==
    ASSUME TypeOK, Distinct, Apart, Flushed, Sizes, [Next]_vars
    PROVE  Sizes'
  <1> USE DEF Goto, Return, callerVars, historyVars
  <1>t. /\ mem.entries \subseteq Entry /\ mem.total \in Nat
        /\ \A q \in Callers : keys[q] \in SUBSET Entry
        /\ \A q \in Callers : cur[q] \in Entry
    BY DEF TypeOK, Trees
  <1>a. IsFiniteSet(mem.entries \ Uncounted) /\ Cardinality(mem.entries \ Uncounted) \in Nat
    BY FS_Difference, FS_CardinalityType DEF Sizes
  <1>1. ASSUME NEW p \in Callers, InsertEntry(p) PROVE Sizes'
    <2>1. /\ cur[p] \notin mem.entries /\ mem'.entries = mem.entries \cup {cur[p]} /\ mem'.total = mem.total
          /\ disk' = disk /\ UNCHANGED <<cur, keys, overlap, torn>>
          /\ pc' = [pc EXCEPT ![p] = "total"] /\ pc[p] = "insert"
      BY <1>1 DEF InsertEntry, Distinct, TypeOK, Trees
    <2>2. IsFiniteSet(mem'.entries)
      BY <2>1, FS_AddElement DEF Sizes
    <2>3. Uncounted' = Uncounted \cup {cur[p]}
      BY <2>1, <1>t DEF Uncounted, TypeOK
    <2>4. mem'.entries \ Uncounted' = mem.entries \ Uncounted
      BY <2>1, <2>3
    <2> QED
      BY <2>1, <2>2, <2>4 DEF Sizes, Drifted
  <1>2. ASSUME NEW p \in Callers, AddTotal(p) PROVE Sizes'
    <2>1. /\ mem'.entries = mem.entries /\ mem'.total = mem.total + 1
          /\ disk' = disk /\ UNCHANGED <<cur, keys, overlap, torn>>
          /\ pc' = [pc EXCEPT ![p] = "flush"] /\ pc[p] = "total"
      BY <1>2 DEF AddTotal, TypeOK, Trees
    <2> SUFFICES ASSUME ~Drifted PROVE Sizes'
      BY <2>1 DEF Sizes, Drifted
    <2>2. cur[p] \in mem.entries /\ \A q \in Callers : cur[p] \notin keys[q]
      BY <2>1 DEF Apart, Drifted
    <2>3. \A q \in Callers : pc[q] = "total" /\ cur[q] = cur[p] => q = p
      BY <2>1 DEF Distinct, Inside
    <2>4. cur[p] \in Uncounted /\ Uncounted' = Uncounted \ {cur[p]}
      BY <2>1, <2>2, <2>3, <1>t DEF Uncounted, TypeOK, FirstKey
    <2>5. mem'.entries \ Uncounted' = (mem.entries \ Uncounted) \cup {cur[p]}
      BY <2>1, <2>2, <2>4
    <2>6. Cardinality(mem'.entries \ Uncounted') = Cardinality(mem.entries \ Uncounted) + 1
      BY <1>a, <2>4, <2>5, FS_AddElement
    <2> QED
      BY <2>1, <2>6 DEF Sizes, Drifted
  <1>3. ASSUME NEW p \in Callers, Subtract(p) PROVE Sizes'
    <2>1. PICK e \in keys[p] :
             /\ FirstKey(keys[p], e)
             /\ mem' = [mem EXCEPT !.total = IF e \in mem.entries /\ @ > 0 THEN @ - 1 ELSE @]
      BY <1>3 DEF Subtract
    <2>2. /\ mem'.entries = mem.entries /\ disk' = disk /\ UNCHANGED <<cur, keys, overlap, torn>>
          /\ pc' = [pc EXCEPT ![p] = "remove"] /\ pc[p] = "subtract"
      BY <1>3, <2>1 DEF Subtract, TypeOK, Trees
    <2> SUFFICES ASSUME ~Drifted PROVE Sizes'
      BY <2>2 DEF Sizes, Drifted
    <2>3. /\ e \in mem.entries /\ e \in Entry
          /\ \A q \in Callers : pc[q] = "total" => cur[q] # e
          /\ \A q \in Callers \ {p} : e \notin keys[q]
      BY <1>t DEF Apart, Drifted
    <2>4. e \notin Uncounted
      BY <2>2, <2>3 DEF Uncounted, FirstKey
    <2>5. \A f : FirstKey(keys[p], f) => f = e
      BY <1>t, <2>1, FirstIsUnique
    <2>6. Uncounted' = Uncounted \cup {e}
      BY <2>1, <2>2, <2>3, <2>5 DEF Uncounted, TypeOK
    <2>7. mem'.entries \ Uncounted' = (mem.entries \ Uncounted) \ {e} /\ e \in mem.entries \ Uncounted
      BY <2>2, <2>3, <2>4, <2>6
    <2>8. /\ Cardinality(mem'.entries \ Uncounted') = Cardinality(mem.entries \ Uncounted) - 1
          /\ Cardinality(mem'.entries \ Uncounted') \in Nat
      BY <1>a, <2>7, FS_RemoveElement, FS_CardinalityType
    <2>9. mem.total = Cardinality(mem.entries \ Uncounted)
      BY DEF Sizes
    <2>10. mem'.total = mem.total - 1
      <3>1. mem.total > 0
        BY <1>a, <2>8, <2>9
      <3> QED
        BY <3>1, <2>1, <2>3 DEF TypeOK, Trees
    <2> QED
      BY <2>2, <2>8, <2>9, <2>10 DEF Sizes, Drifted
  <1>4. ASSUME NEW p \in Callers, RemoveKey(p) PROVE Sizes'
    <2>1. PICK e \in keys[p] :
             /\ FirstKey(keys[p], e)
             /\ mem' = [mem EXCEPT !.entries = @ \ {e}]
             /\ keys' = [keys EXCEPT ![p] = @ \ {e}]
      BY <1>4 DEF RemoveKey
    <2>2. /\ mem'.entries = mem.entries \ {e} /\ mem'.total = mem.total
          /\ disk' = disk /\ UNCHANGED <<cur, overlap, torn>>
          /\ pc' = [pc EXCEPT ![p] = "subtract"] /\ pc[p] = "remove"
      BY <1>4, <2>1 DEF RemoveKey, TypeOK, Trees
    <2>3. IsFiniteSet(mem'.entries)
      BY <2>2, FS_RemoveElement DEF Sizes
    <2>4. \A f : FirstKey(keys[p], f) => f = e
      BY <1>t, <2>1, FirstIsUnique
    <2>5. e \in Uncounted
      BY <2>1, <2>2, <1>t DEF Uncounted
    <2>6. \A f \in Entry \ {e} : f \in Uncounted' <=> f \in Uncounted
      BY <2>1, <2>2, <2>4 DEF Uncounted, TypeOK
    <2>7. mem'.entries \ Uncounted' = mem.entries \ Uncounted
      BY <2>2, <2>5, <2>6, <1>t
    <2> QED
      BY <2>2, <2>3, <2>7 DEF Sizes, Drifted
  <1>5. ASSUME NEW p \in Callers, AppendUnack(p) \/ NextSeq(p) \/ AppendFlush(p) \/ EvictOldest(p) \/ EvictDone(p)
        PROVE Sizes'
    <2>a. mem'.entries = mem.entries /\ mem'.total = mem.total
      BY <1>5 DEF AppendUnack, NextSeq, AppendFlush, EvictOldest, EvictDone, TypeOK, Trees
    <2>b. disk' \in {mem, disk} /\ keys' = keys /\ UNCHANGED <<overlap, torn>>
      BY <1>5 DEF AppendUnack, NextSeq, AppendFlush, EvictOldest, EvictDone
    <2>1. /\ mem'.entries = mem.entries /\ mem'.total = mem.total /\ disk'.entries \in {mem.entries, disk.entries}
          /\ Drifted' = Drifted /\ keys' = keys
      BY <2>a, <2>b DEF Drifted
    <2>2. \A q \in Callers : /\ (pc'[q] = "total" <=> pc[q] = "total") /\ (pc'[q] = "remove" <=> pc[q] = "remove")
                             /\ pc[q] = "total" => cur'[q] = cur[q]
      BY <1>5 DEF AppendUnack, NextSeq, AppendFlush, EvictOldest, EvictDone, TypeOK
    <2>3. Uncounted' = Uncounted
      BY <2>1, <2>2 DEF Uncounted
    <2> QED
      BY <2>1, <2>3, SizesKept
  <1>6. ASSUME NEW p \in Callers,
               AckStart(p) \/ MarkAcked(p) \/ ClearCompleted(p) \/ AckFlush(p) \/ AckReturn(p)
               \/ MarkCompleted(p) \/ CompleteFlush(p)
        PROVE Sizes'
    <2>1. /\ mem'.entries = mem.entries /\ mem'.total = mem.total /\ disk'.entries \in {mem.entries, disk.entries}
          /\ (Drifted => Drifted') /\ keys' = keys
      BY <1>6 DEF AckStart, MarkAcked, ClearCompleted, AckFlush, AckReturn, MarkCompleted, CompleteFlush,
                  TypeOK, Trees, Drifted
    <2>2. \A q \in Callers : /\ (pc'[q] = "total" <=> pc[q] = "total") /\ (pc'[q] = "remove" <=> pc[q] = "remove")
                             /\ pc[q] = "total" => cur'[q] = cur[q]
      BY <1>6 DEF AckStart, MarkAcked, ClearCompleted, AckFlush, AckReturn, MarkCompleted, CompleteFlush, TypeOK
    <2>3. Uncounted' = Uncounted
      BY <2>1, <2>2 DEF Uncounted
    <2> QED
      BY <2>1, <2>3, SizesKept
  <1>7. ASSUME NEW p \in Callers, ScanKeys(p) PROVE Sizes'
    <2>1. /\ mem' = mem /\ disk' = disk /\ (Drifted => Drifted') /\ cur' = cur
          /\ pc[p] = "scan" /\ pc' = [pc EXCEPT ![p] = "subtract"]
          /\ \A q \in Callers \ {p} : keys'[q] = keys[q]
      BY <1>7 DEF ScanKeys, TypeOK, Drifted
    <2>2. Uncounted' = Uncounted
      BY <2>1 DEF Uncounted, TypeOK
    <2> QED
      BY <2>1, <2>2, SizesKept
  <1>8. CASE Persist
    <2>1. /\ mem' = mem /\ disk' = mem /\ Drifted' = Drifted /\ Uncounted' = Uncounted
      BY <1>8 DEF Persist, Drifted, Uncounted
    <2> QED
      BY <2>1, SizesKept
  <1>9. CASE Crash
    <2>1. mem' = disk /\ disk' = disk /\ IsFiniteSet(disk.entries)
      BY <1>9 DEF Crash, Sizes
    <2> SUFFICES ASSUME ~Drifted' PROVE Sizes'
      BY <2>1 DEF Sizes
    <2>2. ~Drifted /\ \A q \in Callers : pc[q] = "idle"
      BY <1>9 DEF Crash, Drifted
    <2>3. disk = mem
      BY <2>2 DEF Flushed
    <2>4. Uncounted = {} /\ Uncounted' = {}
      BY <1>9, <2>2 DEF Crash, Uncounted
    <2> QED
      BY <2>1, <2>2, <2>3, <2>4 DEF Sizes
  <1>10. CASE UNCHANGED vars
    <2>1. mem' = mem /\ disk' = disk /\ Drifted' = Drifted /\ Uncounted' = Uncounted
      BY <1>10 DEF vars, Drifted, Uncounted
    <2> QED
      BY <2>1, SizesKept
  <1> QED
    BY <1>1, <1>2, <1>3, <1>4, <1>5, <1>6, <1>7, <1>8, <1>9, <1>10
    DEF Next, AppendOp, AckOp, CompleteOp

\* An append ends only when the total is within the budget or nothing is left to evict.
LEMMA FitsNext ==
    ASSUME TypeOK, Calls, Flushed, Sizes, Fits, [Next]_vars
    PROVE  Fits'
  <1> USE JournalAssumption
      DEF Evicting, Fits, Drifted, TypeOK, Trees, Calls, Goto, Return, callerVars, historyVars
  <1>1. ASSUME NEW p \in Callers, EvictDone(p) PROVE Fits'
    <2>1. mem.entries = {} => mem.entries \ Uncounted = {}
      OBVIOUS
    <2>2. mem.entries = {} /\ ~Drifted => mem.total = 0
      BY <2>1, FS_EmptySet DEF Sizes
    <2> QED
      BY <1>1, <2>2 DEF EvictDone, OverBudget
  <1>2. ASSUME NEW p \in Callers, AppendUnack(p) \/ NextSeq(p) \/ InsertEntry(p) PROVE Fits'
    BY <1>2 DEF AppendUnack, NextSeq, InsertEntry
  <1>3. ASSUME NEW p \in Callers, AddTotal(p) \/ AppendFlush(p) \/ EvictOldest(p) PROVE Fits'
    BY <1>3 DEF AddTotal, AppendFlush, EvictOldest
  <1>4. ASSUME NEW p \in Callers, AckStart(p) \/ ScanKeys(p) PROVE Fits'
    BY <1>4 DEF AckStart, ScanKeys
  <1>5. ASSUME NEW p \in Callers, Subtract(p) \/ RemoveKey(p) PROVE Fits'
    BY <1>5 DEF Subtract, RemoveKey
  <1>6. ASSUME NEW p \in Callers, MarkAcked(p) \/ ClearCompleted(p) \/ AckFlush(p) \/ AckReturn(p) PROVE Fits'
    BY <1>6 DEF MarkAcked, ClearCompleted, AckFlush, AckReturn
  <1>7. ASSUME NEW p \in Callers, MarkCompleted(p) \/ CompleteFlush(p) PROVE Fits'
    BY <1>7 DEF MarkCompleted, CompleteFlush
  <1>8. CASE Crash
    <2>1. ~Drifted' => ~Drifted /\ disk = mem /\ \A q \in Callers : pc[q] = "idle"
      BY <1>8 DEF Crash, Flushed
    <2> QED
      BY <1>8, <2>1 DEF Crash
  <1>9. CASE Persist \/ UNCHANGED vars
    BY <1>9 DEF Persist, vars
  <1> QED
    BY <1>1, <1>2, <1>3, <1>4, <1>5, <1>6, <1>7, <1>8, <1>9
    DEF Next, AppendOp, AckOp, CompleteOp

-----------------------------------------------------------------------------
Shared == Calls /\ Marks /\ Dues /\ Apart /\ Flushed /\ Sizes /\ Fits

LEMMA SharedInit == Init => Shared
  <1> SUFFICES ASSUME Init PROVE Shared
    OBVIOUS
  <1>1. Calls /\ Marks /\ Dues /\ Apart /\ Flushed
    BY DEF Init, Calls, Marks, Resumed, EntriesOf, Dues, Due, Apart, Flushed
  <1>2. Sizes
    <2>1. mem.entries = {} /\ disk.entries = {} /\ mem.total = 0 /\ mem.entries \ Uncounted = {}
      BY DEF Init
    <2> QED
      BY <2>1, FS_EmptySet DEF Sizes
  <1>3. Fits
    BY JournalAssumption DEF Init, Fits
  <1> QED
    BY <1>1, <1>2, <1>3 DEF Shared

LEMMA SharedNext == Inv /\ Shared /\ [Next]_vars => Shared'
  BY CallsNext, MarksNext, DuesNext, ApartNext, FlushedNext, SizesNext, FitsNext DEF Shared, Inv, Entries

LEMMA SharedAlways == Spec => [](Inv /\ Shared)
  BY SharedInit, SharedNext, InvInit, InvNext, PTL DEF Spec

\* An ack of a cycle frees what was kept of it when the ack was called, whatever other
\* callers and crashes do; only an ack that returns at a marker set over an append is excepted.
THEOREM AckFrees == Spec => []AckFreesCycle
  <1>1. Shared => AckFreesCycle
    BY DEF Shared, Dues, Due, AckFreesCycle
  <1> QED
    BY <1>1, SharedAlways, PTL

\* The running total is the size of what is stored between calls, for any number of callers
\* at the same time, until a sweep finds an entry in other hands or a crash interrupts a call.
THEOREM TotalStaysExact == Spec => []TotalIsExact
  <1>1. Shared => TotalIsExact
    <2> SUFFICES ASSUME Shared, Quiet, ~Drifted PROVE mem.total = Cardinality(mem.entries)
      BY DEF TotalIsExact
    <2>1. mem.entries \ Uncounted = mem.entries
      BY DEF Quiet, Uncounted
    <2> QED
      BY <2>1 DEF Shared, Sizes
  <1> QED
    BY <1>1, SharedAlways, PTL

\* What is stored fits the budget between calls, for any number of callers that append and
\* evict at the same time, until the total drifts.
THEOREM BudgetIsKept == Spec => []BudgetCaps
  <1>1. Shared => BudgetCaps
    <2> SUFFICES ASSUME Shared, Quiet, MaxBytes > 0, ~Drifted PROVE Cardinality(mem.entries) <= MaxBytes
      BY DEF BudgetCaps
    <2>1. mem.entries \ Uncounted = mem.entries
      BY DEF Quiet, Uncounted
    <2>2. \A p \in Callers : ~Evicting(p)
      BY DEF Quiet, Evicting
    <2> QED
      BY <2>1, <2>2 DEF Shared, Sizes, Fits
  <1> QED
    BY <1>1, SharedAlways, PTL
=============================================================================
