--------------------- MODULE DiskPersistentQueue_proofs ---------------------
(***************************************************************************)
(* The queue of DiskPersistentQueue.tla loses no job, hands out no id      *)
(* twice and restarts no acknowledged job, for any number of adders, jobs, *)
(* crashes and aborts, when it has one runner.                             *)
(*                                                                         *)
(* NoLostJob is not inductive: a flush copies memory to disk, so the same  *)
(* must hold of memory in the middle of every operation, and a runner that *)
(* removes a marker or a payload must know that the job ran.  Consistent   *)
(* says so.                                                                *)
(***************************************************************************)
EXTENDS DiskPersistentQueue, TLAPS

\* The state stays within its types, whatever the runners do.
LEMMA TypeInit == Init => TypeOK
  BY BoundsAssumption DEF Init, TypeOK, Trees, JobId, AddPc, RunPc

\* Every tree operation keeps the trees and the program counters in their types.
LEMMA TypeNext == TypeOK /\ [Next]_vars => TypeOK'
  <1> USE BoundsAssumption DEF TypeOK, Trees, JobId, AddPc, RunPc,
      queueVars, adderVars, runnerVars, historyVars, outcomeVars, faultVars
  <1> SUFFICES ASSUME TypeOK, [Next]_vars PROVE TypeOK'
    OBVIOUS
  <1>1. ASSUME NEW a \in Adders, NextId(a) PROVE TypeOK'
    BY <1>1 DEF NextId, AddStep
  <1>2. ASSUME NEW a \in Adders, StoreTask(a) PROVE TypeOK'
    BY <1>2 DEF StoreTask, AddStep
  <1>3. ASSUME NEW a \in Adders, MarkPending(a) PROVE TypeOK'
    BY <1>3 DEF MarkPending, AddStep
  <1>4. ASSUME NEW a \in Adders, AddFlush(a) PROVE TypeOK'
    BY <1>4 DEF AddFlush, AddStep
  <1>5. ASSUME NEW r \in Runners, FetchPick(r) PROVE TypeOK'
    BY <1>5 DEF FetchPick, RunStep
  <1>6. ASSUME NEW r \in Runners, FetchClaim(r) PROVE TypeOK'
    BY <1>6 DEF FetchClaim, RunStep
  <1>7. ASSUME NEW r \in Runners, FetchUnmark(r) PROVE TypeOK'
    BY <1>7 DEF FetchUnmark, RunStep
  <1>8. ASSUME NEW r \in Runners, FetchFlush(r) PROVE TypeOK'
    BY <1>8 DEF FetchFlush, RunStep
  <1>9. ASSUME NEW r \in Runners, LoadTask(r) PROVE TypeOK'
    BY <1>9 DEF LoadTask, RunStep
  <1>10. ASSUME NEW r \in Runners, DropInflight(r) PROVE TypeOK'
    BY <1>10 DEF DropInflight, RunStep
  <1>11. ASSUME NEW r \in Runners, DropPending(r) PROVE TypeOK'
    BY <1>11 DEF DropPending, RunStep
  <1>12. ASSUME NEW r \in Runners, DropFlush(r) PROVE TypeOK'
    BY <1>12 DEF DropFlush, RunStep
  <1>13. ASSUME NEW r \in Runners, ExecOk(r) PROVE TypeOK'
    BY <1>13 DEF ExecOk, RunStep
  <1>14. ASSUME NEW r \in Runners, ExecErr(r) PROVE TypeOK'
    BY <1>14 DEF ExecErr, RunStep
  <1>15. ASSUME NEW r \in Runners, Abort(r) PROVE TypeOK'
    BY <1>15 DEF Abort, RunStep
  <1>16. ASSUME NEW r \in Runners, AckInflight(r) PROVE TypeOK'
    BY <1>16 DEF AckInflight, RunStep
  <1>17. ASSUME NEW r \in Runners, AckJob(r) PROVE TypeOK'
    BY <1>17 DEF AckJob, RunStep
  <1>18. ASSUME NEW r \in Runners, AckFlush(r) PROVE TypeOK'
    BY <1>18 DEF AckFlush, RunStep
  <1>19. ASSUME NEW r \in Runners, NackPending(r) PROVE TypeOK'
    BY <1>19 DEF NackPending, RunStep
  <1>20. ASSUME NEW r \in Runners, NackInflight(r) PROVE TypeOK'
    BY <1>20 DEF NackInflight, RunStep
  <1>21. ASSUME NEW r \in Runners, NackFlush(r) PROVE TypeOK'
    BY <1>21 DEF NackFlush, RunStep
  <1>22. CASE RecoverPending
    BY <1>22 DEF RecoverPending, RecoverStep
  <1>23. CASE RecoverInflight
    BY <1>23 DEF RecoverInflight, RecoverStep
  <1>24. CASE RecoverFlush
    BY <1>24 DEF RecoverFlush, RecoverStep
  <1>25. CASE Persist
    BY <1>25 DEF Persist
  <1>26. CASE Crash
    BY <1>26 DEF Crash
  <1>27. CASE UNCHANGED vars
    BY <1>27 DEF vars
  <1> QED
    BY <1>1, <1>2, <1>3, <1>4, <1>5, <1>6, <1>7, <1>8, <1>9, <1>10, <1>11, <1>12, <1>13, <1>14, <1>15, <1>16, <1>17, <1>18, <1>19, <1>20, <1>21, <1>22, <1>23, <1>24, <1>25, <1>26, <1>27 DEF Next, Add, Fetch, Drop, Ack, Nack, Recover

\* Every reachable state has the types of TypeOK.
THEOREM TypeCorrect == Spec => []TypeOK
  BY TypeInit, TypeNext, PTL DEF Spec

-----------------------------------------------------------------------------
\* A fresh queue directory is consistent.
LEMMA ConsistentInit == Init => Consistent
  BY BoundsAssumption
  DEF Init, Consistent, Stored, Marked, Counters, AddersOK, RunnersOK

\* With one runner, no step of add, fetch, ack, nack, recover, no
\* background flush, no abort and no crash makes the trees inconsistent.
LEMMA ConsistentNext ==
    ASSUME SingleRunner, TypeOK, Consistent, [Next]_vars
    PROVE  Consistent'
  <1> USE BoundsAssumption DEF Trees, JobId, IsHead, SingleRunner, TypeOK, AddPc, RunPc,
      Consistent, Stored, Marked, Counters, AddersOK, RunnersOK,
      queueVars, adderVars, runnerVars, historyVars, outcomeVars, faultVars
  <1>1. ASSUME NEW a \in Adders, NextId(a) PROVE Consistent'
    BY <1>1 DEF NextId, AddStep
  <1>2. ASSUME NEW a \in Adders, StoreTask(a) PROVE Consistent'
    BY <1>2 DEF StoreTask, AddStep
  <1>3. ASSUME NEW a \in Adders, MarkPending(a) PROVE Consistent'
    BY <1>3 DEF MarkPending, AddStep
  <1>4. ASSUME NEW a \in Adders, AddFlush(a) PROVE Consistent'
    <2> USE <1>4 DEF AddFlush, AddStep
    <2>f. addId[a] \in finished \cup (mem.jobs \cap Marked(mem))
      OBVIOUS
    <2>1. Stored(mem)'
      BY <2>f, Stored(mem), mem' = mem, finished' = finished, acked' = acked, accepted' = accepted \cup {addId[a]}, Zenon DEF Stored, Marked
    <2>2. Stored(disk)'
      BY <2>1, disk' = mem'
    <2>3. Counters'
      OBVIOUS
    <2>4. AddersOK'
      OBVIOUS
    <2>5. RunnersOK'
      OBVIOUS
    <2> QED
      BY <2>1, <2>2, <2>3, <2>4, <2>5
  <1>5. ASSUME NEW r \in Runners, FetchPick(r) PROVE Consistent'
    BY <1>5 DEF FetchPick, RunStep
  <1>6. ASSUME NEW r \in Runners, FetchClaim(r) PROVE Consistent'
    BY <1>6 DEF FetchClaim, RunStep
  <1>7. ASSUME NEW r \in Runners, FetchUnmark(r) PROVE Consistent'
    BY <1>7 DEF FetchUnmark, RunStep
  <1>8. ASSUME NEW r \in Runners, FetchFlush(r) PROVE Consistent'
    BY <1>8 DEF FetchFlush, RunStep
  <1>9. ASSUME NEW r \in Runners, LoadTask(r) PROVE Consistent'
    BY <1>9 DEF LoadTask, RunStep
  <1>10. ASSUME NEW r \in Runners, DropInflight(r) PROVE Consistent'
    BY <1>10 DEF DropInflight, RunStep
  <1>11. ASSUME NEW r \in Runners, DropPending(r) PROVE Consistent'
    BY <1>11 DEF DropPending, RunStep
  <1>12. ASSUME NEW r \in Runners, DropFlush(r) PROVE Consistent'
    BY <1>12 DEF DropFlush, RunStep
  <1>13. ASSUME NEW r \in Runners, ExecOk(r) PROVE Consistent'
    <2> USE <1>13 DEF ExecOk, RunStep
    <2>1. Stored(mem)'
      OBVIOUS
    <2>2. Stored(disk)'
      OBVIOUS
    <2>3. Counters'
      OBVIOUS
    <2>4. AddersOK'
      OBVIOUS
    <2>5. RunnersOK'
      OBVIOUS
    <2> QED
      BY <2>1, <2>2, <2>3, <2>4, <2>5
  <1>14. ASSUME NEW r \in Runners, ExecErr(r) PROVE Consistent'
    BY <1>14 DEF ExecErr, RunStep
  <1>15. ASSUME NEW r \in Runners, Abort(r) PROVE Consistent'
    BY <1>15 DEF Abort, RunStep
  <1>16. ASSUME NEW r \in Runners, AckInflight(r) PROVE Consistent'
    BY <1>16 DEF AckInflight, RunStep
  <1>17. ASSUME NEW r \in Runners, AckJob(r) PROVE Consistent'
    BY <1>17 DEF AckJob, RunStep
  <1>18. ASSUME NEW r \in Runners, AckFlush(r) PROVE Consistent'
    <2> USE <1>18 DEF AckFlush, RunStep
    <2>1. Stored(mem)'
      OBVIOUS
    <2>2. Stored(disk)'
      OBVIOUS
    <2>f. disk.next <= mem.next /\ disk.next \in Int /\ mem.next \in Int /\ runId[r] \in finished
      OBVIOUS
    <2>3. Counters'
      <3> HIDE <1>18 DEF AckFlush, RunStep
      <3> HIDE DEF TypeOK, AddersOK, RunnersOK, Stored, Consistent
      <3>1. disk' = mem /\ mem' = mem /\ accepted' = accepted /\ finished' = finished
        BY <1>18 DEF AckFlush, RunStep
      <3>2. acked' = acked \cup {runId[r]}
        BY <1>18 DEF AckFlush
      <3>3. Counters /\ accepted \cup finished \subseteq Int
        BY DEF Consistent, TypeOK
      <3> QED
        BY <2>f, <3>1, <3>2, <3>3
    <2>4. AddersOK'
      OBVIOUS
    <2>5. RunnersOK'
      OBVIOUS
    <2> QED
      BY <2>1, <2>2, <2>3, <2>4, <2>5
  <1>19. ASSUME NEW r \in Runners, NackPending(r) PROVE Consistent'
    BY <1>19 DEF NackPending, RunStep
  <1>20. ASSUME NEW r \in Runners, NackInflight(r) PROVE Consistent'
    BY <1>20 DEF NackInflight, RunStep
  <1>21. ASSUME NEW r \in Runners, NackFlush(r) PROVE Consistent'
    BY <1>21 DEF NackFlush, RunStep
  <1>22. CASE RecoverPending
    BY <1>22 DEF RecoverPending, RecoverStep
  <1>23. CASE RecoverInflight
    BY <1>23 DEF RecoverInflight, RecoverStep
  <1>24. CASE RecoverFlush
    BY <1>24 DEF RecoverFlush, RecoverStep
  <1>25. CASE Persist
    BY <1>25 DEF Persist
  <1>26. CASE Crash
    BY <1>26 DEF Crash
  <1>27. CASE UNCHANGED vars
    BY <1>27 DEF vars
  <1> QED
    BY <1>1, <1>2, <1>3, <1>4, <1>5, <1>6, <1>7, <1>8, <1>9, <1>10, <1>11, <1>12, <1>13, <1>14, <1>15, <1>16, <1>17, <1>18, <1>19, <1>20, <1>21, <1>22, <1>23, <1>24, <1>25, <1>26, <1>27 DEF Next, Add, Fetch, Drop, Ack, Nack, Recover

-----------------------------------------------------------------------------
\* The trees, on disk and in memory, agree with the runner and the adders in every
\* reachable state of a queue with one runner.
THEOREM QueueConsistent == ASSUME SingleRunner PROVE Spec => []Consistent
  <1>1. TypeOK /\ Consistent /\ [Next]_vars => Consistent'
    BY ConsistentNext
  <1> QED
    BY <1>1, ConsistentInit, TypeCorrect, PTL DEF Spec

\* An accepted job that has not run yet is on disk with its payload and a marker in every
\* reachable state, so that no crash loses it.
THEOREM NoJobIsLost == ASSUME SingleRunner PROVE Spec => []NoLostJob
  <1>1. Consistent => NoLostJob
    BY DEF Consistent, Stored, NoLostJob
  <1> QED
    BY <1>1, QueueConsistent, PTL

\* An id that an add returned or that a runner executed is never handed out again, although
\* a crash may roll the id counter back.
THEOREM IdsAreUnique == ASSUME SingleRunner PROVE Spec => []NoIdReuse
  <1>1. Consistent => NoIdReuse
    BY DEF Consistent, Counters, NoIdReuse
  <1> QED
    BY <1>1, QueueConsistent, PTL

\* A job whose ack returned is never executed again.
THEOREM AckIsFinal == ASSUME SingleRunner PROVE Spec => []AckedNeverRestarts
  <1>1. Consistent => AckedNeverRestarts
    BY DEF Consistent, Stored, Marked, RunnersOK, AckedNeverRestarts
  <1> QED
    BY <1>1, QueueConsistent, PTL

-----------------------------------------------------------------------------
(* The order of service.  That the head is the oldest pending job says     *)
(* nothing of the jobs that are inflight; InflightIsHeld does.             *)

\* Only an abort leaves a marker inflight behind a runner that goes on.
LEMMA InflightNext ==
    ASSUME SingleRunner, TypeOK, Consistent, InflightIsHeld, [Next]_vars
    PROVE  InflightIsHeld'
  <1> USE BoundsAssumption DEF Trees, SingleRunner, TypeOK, Consistent, RunnersOK, InflightIsHeld,
      queueVars, adderVars, runnerVars, historyVars, outcomeVars, faultVars
  <1>1. CASE /\ UNCHANGED <<phase, runPc, runId, aborts>>
             /\ mem'.inflight = mem.inflight
    BY <1>1
  <1>2. ASSUME NEW a \in Adders, Add(a) PROVE InflightIsHeld'
    BY <1>1, <1>2 DEF Add, NextId, StoreTask, MarkPending, AddFlush, AddStep
  <1>3. ASSUME NEW r \in Runners, Fetch(r) PROVE InflightIsHeld'
    BY <1>3 DEF Fetch, FetchPick, FetchClaim, FetchUnmark, FetchFlush, LoadTask, RunStep, Stored, Marked
  <1>4. ASSUME NEW r \in Runners, Drop(r) PROVE InflightIsHeld'
    BY <1>4 DEF Drop, DropInflight, DropPending, DropFlush, RunStep
  <1>5. ASSUME NEW r \in Runners, ExecOk(r) \/ ExecErr(r) PROVE InflightIsHeld'
    BY <1>5 DEF ExecOk, ExecErr, RunStep
  <1>6. ASSUME NEW r \in Runners, Abort(r) PROVE InflightIsHeld'
    BY <1>6 DEF Abort, RunStep
  <1>7. ASSUME NEW r \in Runners, Ack(r) PROVE InflightIsHeld'
    BY <1>7 DEF Ack, AckInflight, AckJob, AckFlush, RunStep
  <1>8. ASSUME NEW r \in Runners, Nack(r) PROVE InflightIsHeld'
    BY <1>8 DEF Nack, NackPending, NackInflight, NackFlush, RunStep
  <1>9. CASE Recover
    BY <1>9 DEF Recover, RecoverPending, RecoverInflight, RecoverFlush, RecoverStep
  <1>10. CASE Persist \/ UNCHANGED vars
    BY <1>1, <1>10 DEF Persist, vars
  <1>11. CASE Crash
    BY <1>11 DEF Crash
  <1> QED
    BY <1>2, <1>3, <1>4, <1>5, <1>6, <1>7, <1>8, <1>9, <1>10, <1>11 DEF Next

\* The job a runner picks is the oldest that waits: whatever else was accepted and has not
\* run is inflight without a runner.
LEMMA PickedIsOldest ==
    ASSUME SingleRunner, TypeOK, Consistent, InflightIsHeld, [Next]_vars,
           NEW r \in Runners, runPc[r] = "idle", runPc'[r] = "claim",
           NEW id \in accepted \ finished
    PROVE  runId'[r] <= id \/ (aborts > 0 /\ id \in mem.inflight)
  <1>1. FetchPick(r)
    <2> USE DEF TypeOK, AddPc, RunPc, runnerVars
    <2>1. ASSUME UNCHANGED runPc PROVE FALSE
      BY <2>1
    <2>2. ASSUME NEW a \in Adders, Add(a) PROVE FALSE
      BY <2>2, <2>1 DEF Add, NextId, StoreTask, MarkPending, AddFlush, AddStep
    <2>3. CASE Recover \/ Persist \/ UNCHANGED vars
      BY <2>3, <2>1 DEF Recover, RecoverPending, RecoverInflight, RecoverFlush, RecoverStep, Persist, vars
    <2>4. CASE Crash
      BY <2>4 DEF Crash
    <2>5. ASSUME NEW s \in Runners,
                 Fetch(s) \/ Drop(s) \/ ExecOk(s) \/ ExecErr(s) \/ Abort(s) \/ Ack(s) \/ Nack(s)
          PROVE  FetchPick(r)
      <3>1. s = r
        BY DEF SingleRunner
      <3> QED
        BY <2>5, <3>1 DEF Fetch, FetchPick, FetchClaim, FetchUnmark, FetchFlush, LoadTask, Drop, DropInflight,
           DropPending, DropFlush, ExecOk, ExecErr, Abort, Ack, AckInflight, AckJob, AckFlush,
           Nack, NackPending, NackInflight, NackFlush, RunStep
    <2> QED
      BY <2>2, <2>3, <2>4, <2>5 DEF Next
  <1>2. phase = "open" /\ runId'[r] \in mem.pending /\ \A other \in mem.pending : runId'[r] <= other
    BY <1>1 DEF FetchPick, RunStep, IsHead, TypeOK
  <1>3. id \in mem.pending \cup mem.inflight
    BY DEF Consistent, Stored, Marked
  <1>4. ASSUME id \in mem.inflight PROVE aborts > 0
    <2>1. \A s \in Runners : runPc[s] = "idle"
      BY DEF SingleRunner
    <2> QED
      BY <1>2, <1>4, <2>1, BoundsAssumption DEF InflightIsHeld, TypeOK
  <1> QED
    BY <1>2, <1>3, <1>4

\* With one runner, jobs are served in the order of their ids across failures, retries,
\* crashes and recoveries; only an aborted job can be overtaken.
THEOREM JobsAreServedInOrder == ASSUME SingleRunner PROVE Spec => ServedInOrder
  <1>1. Init => InflightIsHeld
    BY DEF Init, InflightIsHeld
  <1>2. TypeOK /\ Consistent /\ InflightIsHeld /\ [Next]_vars => InflightIsHeld'
    BY InflightNext
  <1>3. TypeOK /\ Consistent /\ InflightIsHeld /\ [Next]_vars
        => [\A r \in Runners : runPc[r] = "idle" /\ runPc'[r] = "claim" =>
              \A id \in accepted \ finished :
                  runId'[r] <= id \/ (aborts > 0 /\ id \in mem.inflight)]_vars
    BY PickedIsOldest
  <1> QED
    BY <1>1, <1>2, <1>3, TypeCorrect, QueueConsistent, PTL DEF Spec, ServedInOrder

-----------------------------------------------------------------------------
(* The refinement of JobQueue.  A job that this process finished must not  *)
(* start again, so it may have no marker that a later fetch could find:    *)
(* only the one its runner is about to remove.                             *)
SettledOK ==
    /\ settled \subseteq finished
    /\ \A id \in settled \cap Marked(mem) : \E r \in Runners : runPc[r] = "ack" /\ runId[r] = id

\* No step leaves a finished job a marker, and a restart forgets what was finished.
LEMMA SettledNext ==
    ASSUME SingleRunner, TypeOK, Consistent, SettledOK, [Next]_vars
    PROVE  SettledOK'
  <1> USE DEF Trees, SingleRunner, TypeOK, Consistent, AddersOK, RunnersOK, Marked, SettledOK,
      queueVars, adderVars, runnerVars, historyVars, outcomeVars, faultVars
  <1>1. CASE UNCHANGED <<mem, runPc, runId, settled, finished>>
    BY <1>1
  <1>2. ASSUME NEW a \in Adders, Add(a) PROVE SettledOK'
    BY <1>2 DEF Add, NextId, StoreTask, MarkPending, AddFlush, AddStep
  <1>3. ASSUME NEW r \in Runners, Fetch(r) PROVE SettledOK'
    BY <1>3 DEF Fetch, FetchPick, FetchClaim, FetchUnmark, FetchFlush, LoadTask, RunStep, IsHead
  <1>4. ASSUME NEW r \in Runners, Drop(r) PROVE SettledOK'
    BY <1>4 DEF Drop, DropInflight, DropPending, DropFlush, RunStep
  <1>5. ASSUME NEW r \in Runners, ExecOk(r) PROVE SettledOK'
    BY <1>5 DEF ExecOk, RunStep
  <1>6. ASSUME NEW r \in Runners, ExecErr(r) \/ Abort(r) \/ Nack(r) PROVE SettledOK'
    BY <1>6 DEF ExecErr, Abort, Nack, NackPending, NackInflight, NackFlush, RunStep
  <1>7. ASSUME NEW r \in Runners, Ack(r) PROVE SettledOK'
    BY <1>7 DEF Ack, AckInflight, AckJob, AckFlush, RunStep
  <1>8. CASE Recover
    BY <1>8 DEF Recover, RecoverPending, RecoverInflight, RecoverFlush, RecoverStep
  <1>9. CASE Persist \/ UNCHANGED vars
    BY <1>1, <1>9 DEF Persist, vars
  <1>10. CASE Crash
    BY <1>10 DEF Crash
  <1> QED
    BY <1>2, <1>3, <1>4, <1>5, <1>6, <1>7, <1>8, <1>9, <1>10 DEF Next

\* What a user of the queue sees of a step: nothing, or one step of JobQueue.
LEMMA StepIsPromised ==
    ASSUME SingleRunner, TypeOK, Consistent, SettledOK, [Next]_vars
    PROVE  [Promise!Next]_(Promise!vars)
  <1> USE DEF SingleRunner, TypeOK, Running,
      queueVars, adderVars, runnerVars, historyVars, outcomeVars, faultVars
  <1>1. ASSUME UNCHANGED <<accepted, finished, settled, acked>>,
               \A r \in Runners : Running(r)' = Running(r)
        PROVE  UNCHANGED Promise!vars
    BY <1>1 DEF Promise!vars
  <1>2. ASSUME NEW a \in Adders, Add(a) PROVE [Promise!Next]_(Promise!vars)
    <2>1. CASE AddFlush(a)
      <3>1. UNCHANGED <<finished, settled, acked, runPc, runId>> /\ accepted' = accepted \cup {addId[a]}
        BY <2>1 DEF AddFlush, AddStep
      <3>2. CASE addId[a] \in accepted \ finished
        BY <1>1, <3>1, <3>2
      <3>3. CASE addId[a] \notin accepted \ finished
        <4>1. Promise!Accept(addId[a])
          BY <3>1, <3>3 DEF Promise!Accept
        <4> QED BY <4>1 DEF Promise!Next
      <3> QED BY <3>2, <3>3
    <2>2. CASE NextId(a) \/ StoreTask(a) \/ MarkPending(a)
      BY <1>1, <2>2 DEF NextId, StoreTask, MarkPending, AddStep
    <2> QED BY <1>2, <2>1, <2>2 DEF Add
  <1>3. ASSUME NEW r \in Runners, LoadTask(r) PROVE [Promise!Next]_(Promise!vars)
    <2>1. CASE runId[r] \in mem.jobs
      <3>1. /\ runId[r] \notin settled \cup acked /\ runId[r] \in JobId
            /\ \A s \in Runners : Running(s) = {}
        BY <1>3 DEF LoadTask, RunStep, Consistent, RunnersOK, Stored, Marked, SettledOK
      <3>2. [s \in Runners |-> Running(s)]' = [[s \in Runners |-> Running(s)] EXCEPT ![r] = {runId[r]}]
        BY <1>3, <2>1, <3>1 DEF LoadTask, RunStep
      <3>3. UNCHANGED <<accepted, finished, settled, acked>>
        BY <1>3 DEF LoadTask, RunStep
      <3>4. \E s \in Runners, job \in JobId : Promise!Start(s, job)
        BY <3>1, <3>2, <3>3 DEF Promise!Start
      <3> QED BY <3>4 DEF Promise!Next
    <2>2. CASE runId[r] \notin mem.jobs
      BY <1>1, <1>3, <2>2 DEF LoadTask, RunStep
    <2> QED BY <2>1, <2>2
  <1>4. ASSUME NEW r \in Runners, ExecOk(r) PROVE [Promise!Next]_(Promise!vars)
    <2>1. Running(r) = {runId[r]} /\ runId[r] \in JobId
      BY <1>4 DEF ExecOk, RunStep
    <2>2. [s \in Runners |-> Running(s)]' = [[s \in Runners |-> Running(s)] EXCEPT ![r] = {}]
      BY <1>4 DEF ExecOk, RunStep
    <2>3. /\ finished' = finished \cup {runId[r]} /\ settled' = settled \cup {runId[r]}
          /\ UNCHANGED <<accepted, acked>>
      BY <1>4 DEF ExecOk, RunStep
    <2>4. Promise!Finish(r)
      BY <2>1, <2>2, <2>3 DEF Promise!Finish
    <2> QED BY <2>4 DEF Promise!Next
  <1>5. ASSUME NEW r \in Runners, ExecErr(r) \/ Abort(r) PROVE [Promise!Next]_(Promise!vars)
    <2>1. Running(r) = {runId[r]}
      BY <1>5 DEF ExecErr, Abort, RunStep
    <2>2. [s \in Runners |-> Running(s)]' = [[s \in Runners |-> Running(s)] EXCEPT ![r] = {}]
      BY <1>5 DEF ExecErr, Abort, RunStep
    <2>3. UNCHANGED <<accepted, finished, settled, acked>>
      BY <1>5 DEF ExecErr, Abort, RunStep
    <2>4. Promise!GiveUp(r)
      BY <2>1, <2>2, <2>3 DEF Promise!GiveUp
    <2> QED BY <2>4 DEF Promise!Next
  <1>6. ASSUME NEW r \in Runners, AckFlush(r) PROVE [Promise!Next]_(Promise!vars)
    <2>1. runId[r] \in finished /\ runId[r] \in JobId
      BY <1>6 DEF AckFlush, RunStep, Consistent, RunnersOK
    <2>2. /\ [s \in Runners |-> Running(s)]' = [s \in Runners |-> Running(s)]
          /\ acked' = acked \cup {runId[r]} /\ UNCHANGED <<accepted, finished, settled>>
      BY <1>6 DEF AckFlush, RunStep
    <2>3. Promise!Close(runId[r])
      BY <2>1, <2>2 DEF Promise!Close
    <2> QED BY <2>1, <2>3 DEF Promise!Next
  <1>7. ASSUME NEW r \in Runners,
               \/ FetchPick(r) \/ FetchClaim(r) \/ FetchUnmark(r) \/ FetchFlush(r)
               \/ Drop(r) \/ AckInflight(r) \/ AckJob(r) \/ Nack(r)
        PROVE  [Promise!Next]_(Promise!vars)
    BY <1>1, <1>7 DEF FetchPick, FetchClaim, FetchUnmark, FetchFlush, Drop, DropInflight, DropPending,
       DropFlush, AckInflight, AckJob, Nack, NackPending, NackInflight, NackFlush, RunStep
  <1>8. CASE Crash
    <2>1. Promise!Restart
      BY <1>8 DEF Crash, Promise!Restart
    <2> QED BY <2>1 DEF Promise!Next
  <1>9. CASE Recover \/ Persist \/ UNCHANGED vars
    BY <1>1, <1>9 DEF Recover, RecoverPending, RecoverInflight, RecoverFlush, RecoverStep, Persist, vars
  <1> QED
    BY <1>2, <1>3, <1>4, <1>5, <1>6, <1>7, <1>8, <1>9 DEF Next, Fetch, Ack

\* With one runner, every sequence of tree operations, crashes and recoveries of the queue
\* is a behaviour of JobQueue: no owed job is dropped, no settled or closed one starts.
THEOREM QueueKeepsPromise == ASSUME SingleRunner PROVE Spec => ImplementsJobQueue
  <1>1. Init => SettledOK /\ Promise!Init
    BY DEF Init, SettledOK, Promise!Init, Running
  <1>2. TypeOK /\ Consistent /\ SettledOK /\ [Next]_vars => SettledOK'
    BY SettledNext
  <1>3. TypeOK /\ Consistent /\ SettledOK /\ [Next]_vars => [Promise!Next]_(Promise!vars)
    BY StepIsPromised
  <1> QED
    BY <1>1, <1>2, <1>3, TypeCorrect, QueueConsistent, PTL DEF Spec, ImplementsJobQueue, Promise!Spec

=============================================================================
