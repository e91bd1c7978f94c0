------------------------------- MODULE Journal -------------------------------
(***************************************************************************)
(* The minion's outgoing journal (src/libsysinspect/src/journal.rs).       *)
(*                                                                         *)
(* Entries are grouped by cycle under keys "cycle:seq" in one sled tree;   *)
(* further trees hold the next sequence number of each cycle, the acked    *)
(* and the locally completed cycles, and the pending tree also holds a     *)
(* running byte total.  The runner, the protocol reader and the callbacks  *)
(* of a model call the journal from different threads and the code takes   *)
(* no lock, so every tree operation is a step.  As in DiskPersistentQueue, *)
(* "mem" is what the process sees and "disk" the prefix of the log that    *)
(* would survive a crash now.                                              *)
(*                                                                         *)
(* Every entry is one byte long.  Cycle ids are numbers for their order in *)
(* the tree: they are random (Uuid::new_v4), so any order may be theirs.   *)
(***************************************************************************)
EXTENDS Integers, FiniteSets

CONSTANTS
    Callers,    \* threads that call the journal
    Cycles,     \* cycle ids, as numbers in the order of their keys
    MaxBytes,   \* the byte budget max_bytes; 0 is no budget
    MaxSeq,     \* bound: entries ever appended to one cycle
    MaxCrashes  \* bound: crashes

ASSUME JournalAssumption ==
    /\ IsFiniteSet(Callers)
    /\ Cycles \subseteq Nat /\ Cycles # {}
    /\ MaxBytes \in Nat
    /\ MaxSeq \in Nat \ {0}
    /\ MaxCrashes \in Nat

VARIABLES
    mem,     \* the trees as the process sees them
    disk,    \* the trees as a crash would leave them
    pc,      \* where each caller stands
    op,      \* the operation of each caller
    cur,     \* the entry a caller appends, or the cycle it works on
    target,  \* the cycle, or the single key, an eviction or ack works on
    keys,    \* the keys an eviction or ack still has to remove
    due,     \* history: what an ack has to free, see AckFreesCycle
    kept,    \* history: entries whose append is durable and that no ack or eviction found
    freed,   \* history: entries found by one before their append was durable
    overlap, \* history: cycles of which two calls got in each other's way, see ScanKeys, MarkAcked
    torn,    \* history: a crash interrupted a call
    crashes  \* crashes so far

callerVars == <<pc, op, cur, target, keys, due>>
historyVars == <<kept, freed, overlap, torn>>
vars == <<mem, disk, pc, op, cur, target, keys, due, kept, freed, overlap, torn, crashes>>

Entry == [cycle : Cycles, seq : 0..(MaxSeq - 1)]
Trees == [entries : SUBSET Entry, next : [Cycles -> 0..MaxSeq], acked : SUBSET Cycles,
          completed : SUBSET Cycles, total : Nat]

EntriesOf(S, c) == {e \in S : e.cycle = c}

\* pending_key ends in the 8 bytes of seq and the readers of a key look for its last ":",
\* which such a byte can be.  The upper four bytes are zero within the bounds.
HasColon(seq) == \E weight \in {1, 256, 65536, 16777216} : (seq \div weight) % 256 = 58

\* What pending returns: a key with a ":" among the bytes of seq looks too short.
Pending(trees) == {e \in trees.entries : ~HasColon(e.seq)}

Before(e, f) == e.cycle < f.cycle \/ (e.cycle = f.cycle /\ e.seq < f.seq)
FirstKey(S, e) == e \in S /\ \A f \in S : f = e \/ Before(e, f)

\* The keys under a cycle prefix; for a misread key the prefix matches that key alone.
Matching(S, t) == IF HasColon(t.seq) THEN S \cap {t} ELSE EntriesOf(S, t.cycle)

NoEntry == [cycle |-> CHOOSE c \in Cycles : TRUE, seq |-> 0]

Init ==
    /\ mem = [entries |-> {}, next |-> [c \in Cycles |-> 0], acked |-> {}, completed |-> {}, total |-> 0]
    /\ disk = mem
    /\ pc = [p \in Callers |-> "idle"]
    /\ op = [p \in Callers |-> "none"]
    /\ cur = [p \in Callers |-> NoEntry]
    /\ target = cur
    /\ keys = [p \in Callers |-> {}]
    /\ due = keys
    /\ kept = {}
    /\ freed = {}
    /\ overlap = {}
    /\ torn = FALSE
    /\ crashes = 0

Goto(p, from, to) ==
    /\ pc[p] = from
    /\ pc' = [pc EXCEPT ![p] = to]
    /\ UNCHANGED crashes

\* An operation returns; its local variables are gone.
Return(p) ==
    /\ op' = [op EXCEPT ![p] = "none"]
    /\ cur' = [cur EXCEPT ![p] = NoEntry]
    /\ target' = [target EXCEPT ![p] = NoEntry]
    /\ due' = [due EXCEPT ![p] = {}]

-----------------------------------------------------------------------------
(* append                                                                  *)

\* Mutant: append leaves the acked marker of the cycle.
AppendKeepsAck(p) ==
    /\ Goto(p, "idle", "seq")
    /\ \E c \in Cycles : mem.next[c] < MaxSeq /\ cur' = [cur EXCEPT ![p] = [cycle |-> c, seq |-> 0]]
    /\ op' = [op EXCEPT ![p] = "append"]
    /\ UNCHANGED <<mem, disk, target, keys, due, historyVars>>

\* contains_key and remove of the acked marker.
AppendUnack(p) ==
    /\ Goto(p, "idle", "seq")
    /\ \E c \in Cycles :
        /\ mem.next[c] + Cardinality({q \in Callers : pc[q] = "seq" /\ cur[q].cycle = c}) < MaxSeq
        /\ cur' = [cur EXCEPT ![p] = [cycle |-> c, seq |-> 0]]
        /\ mem' = [mem EXCEPT !.acked = @ \ {c}]
    /\ op' = [op EXCEPT ![p] = "append"]
    /\ UNCHANGED <<disk, target, keys, due, historyVars>>

NextSeq(p) ==
    /\ Goto(p, "seq", "insert")
    /\ LET c == cur[p].cycle IN
        /\ cur' = [cur EXCEPT ![p].seq = mem.next[c]]
        /\ mem' = [mem EXCEPT !.next[c] = @ + 1]
    /\ UNCHANGED <<disk, op, target, keys, due, historyVars>>

InsertEntry(p) ==
    /\ Goto(p, "insert", "total")
    /\ mem' = [mem EXCEPT !.entries = @ \cup {cur[p]}]
    /\ UNCHANGED <<disk, op, cur, target, keys, due, historyVars>>

AddTotal(p) ==
    /\ Goto(p, "total", "flush")
    /\ mem' = [mem EXCEPT !.total = @ + 1]
    /\ UNCHANGED <<disk, op, cur, target, keys, due, historyVars>>

\* Mutant: append returns before its writes are flushed.
AppendUnflushed(p) ==
    /\ Goto(p, "flush", "evict")
    /\ kept' = kept \cup ({cur[p]} \ freed)
    /\ freed' = freed \ {cur[p]}
    /\ UNCHANGED <<mem, disk, op, cur, target, keys, due, overlap, torn>>

\* Once flushed the entry is kept, whether or not an eviction follows.
AppendFlush(p) ==
    /\ Goto(p, "flush", "evict")
    /\ disk' = mem
    /\ kept' = kept \cup ({cur[p]} \ freed)
    /\ freed' = freed \ {cur[p]}
    /\ UNCHANGED <<mem, op, cur, target, keys, due, overlap, torn>>

\* Mutant: one entry above the budget is let through.
OverBudgetByOne == MaxBytes > 0 /\ mem.total > MaxBytes + 1 /\ mem.entries # {}

\* evict_if_needed: over budget and some key left.
OverBudget == MaxBytes > 0 /\ mem.total > MaxBytes /\ mem.entries # {}

EvictOldest(p) ==
    /\ OverBudget
    /\ Goto(p, "evict", "scan")
    /\ \E e \in mem.entries : FirstKey(mem.entries, e) /\ target' = [target EXCEPT ![p] = e]
    /\ UNCHANGED <<mem, disk, op, cur, keys, due, historyVars>>

EvictDone(p) ==
    /\ ~OverBudget
    /\ Goto(p, "evict", "idle")
    /\ Return(p)
    /\ UNCHANGED <<mem, disk, keys, historyVars>>

-----------------------------------------------------------------------------
(* ack_cycle and ack_cycle_inner, which eviction uses too                  *)

AckStart(p) ==
    /\ pc[p] = "idle"
    /\ \E c \in Cycles :
        /\ target' = [target EXCEPT ![p] = [cycle |-> c, seq |-> 0]]
        /\ due' = [due EXCEPT ![p] = IF c \in mem.acked \cap overlap THEN {} ELSE EntriesOf(kept, c)]
        /\ Goto(p, "idle", IF c \in mem.acked THEN "return" ELSE "scan")
    /\ op' = [op EXCEPT ![p] = "ack"]
    /\ UNCHANGED <<mem, disk, cur, keys, historyVars>>

\* Mutant: the scan misses the keys of the cycle.
ScanNothing(p) ==
    /\ Goto(p, "scan", "subtract")
    /\ UNCHANGED <<mem, disk, op, cur, target, keys, due, historyVars>>

\* Entries whose append has not added them to the total, or that another call is removing.
Unsettled == {e \in Entry : \E q \in Callers : (pc[q] = "total" /\ cur[q] = e) \/ e \in keys[q]}

ScanKeys(p) ==
    /\ Goto(p, "scan", "subtract")
    /\ LET found == Matching(mem.entries, target[p]) IN
        /\ keys' = [keys EXCEPT ![p] = found]
        /\ overlap' = IF found \cap Unsettled = {} THEN overlap ELSE overlap \cup {target[p].cycle}
        /\ kept' = kept \ found
        /\ freed' = freed \cup {e \in found : \E q \in Callers : pc[q] \in {"total", "flush"} /\ cur[q] = e}
    /\ UNCHANGED <<mem, disk, op, cur, target, due, torn>>

\* Mutant: removed entries stay in the total.
SubtractNothing(p) ==
    /\ keys[p] # {}
    /\ Goto(p, "subtract", "remove")
    /\ UNCHANGED <<mem, disk, op, cur, target, keys, due, historyVars>>

\* The first remaining key: its length is taken off the total if the key still exists.
Subtract(p) ==
    /\ keys[p] # {}
    /\ Goto(p, "subtract", "remove")
    /\ \E e \in keys[p] :
        /\ FirstKey(keys[p], e)
        /\ mem' = [mem EXCEPT !.total = IF e \in mem.entries /\ @ > 0 THEN @ - 1 ELSE @]
    /\ UNCHANGED <<disk, op, cur, target, keys, due, historyVars>>

RemoveKey(p) ==
    /\ Goto(p, "remove", "subtract")
    /\ \E e \in keys[p] :
        /\ FirstKey(keys[p], e)
        /\ mem' = [mem EXCEPT !.entries = @ \ {e}]
        /\ keys' = [keys EXCEPT ![p] = @ \ {e}]
    /\ UNCHANGED <<disk, op, cur, target, due, historyVars>>

\* An append of the cycle took the marker away or inserted since the scan of its keys.
Resumed(c) ==
    \/ EntriesOf(mem.entries, c) # {}
    \/ \E q \in Callers : pc[q] \in {"seq", "insert"} /\ cur[q].cycle = c

\* For a misread key the marker names a cycle that does not exist.
MarkAcked(p) ==
    /\ keys[p] = {}
    /\ Goto(p, "subtract", "uncomplete")
    /\ LET marked == IF HasColon(target[p].seq) THEN {} ELSE {target[p].cycle} IN
        /\ mem' = [mem EXCEPT !.acked = @ \cup marked]
        /\ overlap' = overlap \cup {c \in marked : Resumed(c)}
    /\ UNCHANGED <<disk, op, cur, target, keys, due, kept, freed, torn>>

ClearCompleted(p) ==
    /\ Goto(p, "uncomplete", "ackFlush")
    /\ mem' = [mem EXCEPT !.completed = IF HasColon(target[p].seq) THEN @ ELSE @ \ {target[p].cycle}]
    /\ UNCHANGED <<disk, op, cur, target, keys, due, historyVars>>

\* An eviction goes on while the total is over budget, an ack is done.
AckFlush(p) ==
    /\ Goto(p, "ackFlush", IF op[p] = "append" THEN "evict" ELSE "return")
    /\ disk' = mem
    /\ UNCHANGED <<mem, op, cur, target, keys, due, historyVars>>

AckReturn(p) ==
    /\ Goto(p, "return", "idle")
    /\ Return(p)
    /\ UNCHANGED <<mem, disk, keys, historyVars>>

-----------------------------------------------------------------------------
(* mark_cycle_locally_complete                                             *)

MarkCompleted(p) ==
    /\ Goto(p, "idle", "completeFlush")
    /\ op' = [op EXCEPT ![p] = "complete"]
    /\ \E c \in Cycles : mem' = [mem EXCEPT !.completed = @ \cup {c}]
    /\ UNCHANGED <<disk, cur, target, keys, due, historyVars>>

CompleteFlush(p) ==
    /\ Goto(p, "completeFlush", "idle")
    /\ Return(p)
    /\ disk' = mem
    /\ UNCHANGED <<mem, keys, historyVars>>

-----------------------------------------------------------------------------
(* sled's flusher, a crash and the next open                               *)

Persist ==
    /\ disk # mem
    /\ disk' = mem
    /\ UNCHANGED <<mem, callerVars, historyVars, crashes>>

Crash ==
    /\ crashes < MaxCrashes
    /\ crashes' = crashes + 1
    /\ mem' = disk
    /\ pc' = [p \in Callers |-> "idle"]
    /\ op' = [p \in Callers |-> "none"]
    /\ keys' = [p \in Callers |-> {}]
    /\ due' = [p \in Callers |-> {}]
    /\ cur' = [p \in Callers |-> NoEntry]
    /\ target' = [p \in Callers |-> NoEntry]
    /\ freed' = {}
    /\ torn' = (torn \/ \E p \in Callers : pc[p] # "idle")
    /\ UNCHANGED <<disk, kept, overlap>>

AppendOp(p) ==
    \/ AppendUnack(p) \/ NextSeq(p) \/ InsertEntry(p) \/ AddTotal(p) \/ AppendFlush(p)
    \/ EvictOldest(p) \/ EvictDone(p)
AckOp(p) ==
    \/ AckStart(p) \/ ScanKeys(p) \/ Subtract(p) \/ RemoveKey(p) \/ MarkAcked(p)
    \/ ClearCompleted(p) \/ AckFlush(p) \/ AckReturn(p)
CompleteOp(p) == MarkCompleted(p) \/ CompleteFlush(p)

Next ==
    \/ \E p \in Callers : AppendOp(p) \/ AckOp(p) \/ CompleteOp(p)
    \/ Persist
    \/ Crash

Spec == Init /\ [][Next]_vars

\* A call that began goes on; nobody is obliged to make another one.
Fairness == \A p \in Callers : WF_vars(pc[p] # "idle" /\ (AppendOp(p) \/ AckOp(p) \/ CompleteOp(p)))
FairSpec == Spec /\ Fairness

-----------------------------------------------------------------------------
(* Properties.                                                             *)

\* The types of the state.
TypeOK ==
    /\ mem \in Trees
    /\ disk \in Trees
    /\ pc \in [Callers -> {"idle", "seq", "insert", "total", "flush", "evict", "scan", "subtract", "remove",
                           "uncomplete", "ackFlush", "return", "completeFlush"}]
    /\ op \in [Callers -> {"none", "append", "ack", "complete"}]
    /\ cur \in [Callers -> Entry]
    /\ target \in [Callers -> Entry]
    /\ keys \in [Callers -> SUBSET Entry]
    /\ due \in [Callers -> SUBSET Entry]
    /\ kept \subseteq Entry
    /\ freed \subseteq Entry
    /\ overlap \subseteq Cycles
    /\ torn \in BOOLEAN
    /\ crashes \in 0..MaxCrashes

Quiet == \A p \in Callers : pc[p] = "idle"

\* An entry whose append returned is on disk until an ack or an eviction of its cycle finds
\* it, whatever other callers and crashes do (journal.path: "no data is lost").
NoLostEntry == kept \subseteq disk.entries

\* A sweep found an entry another call had not finished with, or a crash interrupted a call:
\* from then on the total may be off, as no step of the code counts the entries again.
Drifted == overlap # {} \/ torn

\* Between calls the byte total is the size of the stored entries (add_total), whatever calls
\* were made at the same time, until it has drifted.
TotalIsExact == Quiet /\ ~Drifted => mem.total = Cardinality(mem.entries)

\* "A byte budget caps un-acked data" (journal.rs): between calls the stored entries fit,
\* however many callers appended and evicted, until the total has drifted.
BudgetCaps == Quiet /\ MaxBytes > 0 /\ ~Drifted => Cardinality(mem.entries) <= MaxBytes

\* "When the consumer acknowledges a cycle all its entries are freed" (journal.rs): what was
\* kept of the cycle when ack_cycle was called is gone when it returns, whatever other
\* callers and crashes do.  The one ack that may free nothing returns at a marker that an
\* earlier ack or eviction set while the cycle was being appended to.
AckFreesCycle == \A p \in Callers : pc[p] = "return" => due[p] \cap mem.entries = {}

\* "Return all un-acked cycles with their entries in insertion order" (pending): a replay of
\* the journal sends every stored entry.
PendingIsComplete == Pending(mem) = mem.entries

\* Every call returns: an eviction does not go on for ever while others append.
CallsReturn == \A p \in Callers : (pc[p] # "idle") ~> (pc[p] = "idle")

=============================================================================
