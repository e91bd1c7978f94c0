------------------------------- MODULE JobQueue -------------------------------
(***************************************************************************)
(* What a user of DiskPersistentQueue (src/libdpq/src/lib.rs) may rely on: *)
(* a job that add accepted is owed until it ran, one runner at a time runs *)
(* it, a job that ran starts again only after the process was restarted,   *)
(* and a job that was acknowledged never starts again.  Where the job is   *)
(* kept meanwhile does not show here.                                      *)
(***************************************************************************)
CONSTANTS
    Jobs,    \* job ids
    Runners  \* runner loops

VARIABLES
    owed,    \* accepted jobs that have not run to their end yet
    done,    \* jobs that ran to their end at least once
    settled, \* the jobs of done that ended since the last restart
    running, \* for each runner, the set of jobs it runs: none or one
    closed   \* acknowledged jobs

vars == <<owed, done, settled, running, closed>>

Init ==
    /\ owed = {}
    /\ done = {}
    /\ settled = {}
    /\ running = [r \in Runners |-> {}]
    /\ closed = {}

\* add returns; a runner may have run the job before that.
Accept(job) ==
    /\ job \notin owed
    /\ owed' = (owed \cup {job}) \ done
    /\ UNCHANGED <<done, settled, running, closed>>

\* A runner gets the job from fetch, possibly before add returned.
Start(r, job) ==
    /\ running[r] = {}
    /\ job \notin settled \cup closed
    /\ \A s \in Runners : job \notin running[s]
    /\ running' = [running EXCEPT ![r] = {job}]
    /\ UNCHANGED <<owed, done, settled, closed>>

Finish(r) ==
    /\ running[r] # {}
    /\ done' = done \cup running[r]
    /\ settled' = settled \cup running[r]
    /\ owed' = owed \ running[r]
    /\ running' = [running EXCEPT ![r] = {}]
    /\ UNCHANGED closed

\* The execution failed or its runner was aborted: the job stays owed.
GiveUp(r) ==
    /\ running[r] # {}
    /\ running' = [running EXCEPT ![r] = {}]
    /\ UNCHANGED <<owed, done, settled, closed>>

Close(job) ==
    /\ job \in done
    /\ closed' = closed \cup {job}
    /\ UNCHANGED <<owed, done, settled, running>>

\* The process restarts: runs in progress are forgotten, jobs are not.
Restart ==
    /\ running' = [r \in Runners |-> {}]
    /\ settled' = {}
    /\ UNCHANGED <<owed, done, closed>>

Next ==
    \/ \E job \in Jobs : Accept(job) \/ Close(job)
    \/ \E r \in Runners : Finish(r) \/ GiveUp(r)
    \/ \E r \in Runners, job \in Jobs : Start(r, job)
    \/ Restart

Spec == Init /\ [][Next]_vars

=============================================================================
