--------------------------- MODULE CommandContract ---------------------------
(***************************************************************************)
(* What the durable command path promises an operator about one minion     *)
(* (docs/global_config.rst, "master -> minion durability contract"):       *)
(* only submitted commands are executed, the minion starts a command twice *)
(* only if it was restarted in between, and the master forgets a command   *)
(* only after it ran to its end.                                           *)
(***************************************************************************)
CONSTANT Cycles \* one command per cycle id

VARIABLES
    submitted, \* commands the master has queued
    started,   \* commands started since the minion's last start
    running,   \* commands being executed
    ran,       \* commands executed to their end at least once
    cleared    \* commands the master has forgotten

vars == <<submitted, started, running, ran, cleared>>

Init ==
    /\ submitted = {}
    /\ started = {}
    /\ running = {}
    /\ ran = {}
    /\ cleared = {}

Submit(c) ==
    /\ submitted' = submitted \cup {c}
    /\ UNCHANGED <<started, running, ran, cleared>>

Start(c) ==
    /\ c \in submitted \ started
    /\ running = {}
    /\ started' = started \cup {c}
    /\ running' = {c}
    /\ UNCHANGED <<submitted, ran, cleared>>

End(c) ==
    /\ c \in running
    /\ running' = running \ {c}
    /\ ran' = ran \cup {c}
    /\ UNCHANGED <<submitted, started, cleared>>

Clear(c) ==
    /\ c \in ran
    /\ cleared' = cleared \cup {c}
    /\ UNCHANGED <<submitted, started, running, ran>>

\* The minion process restarts.
Restart ==
    /\ started' = {}
    /\ running' = {}
    /\ UNCHANGED <<submitted, ran, cleared>>

Next ==
    \/ \E c \in Cycles : Submit(c) \/ Start(c) \/ End(c) \/ Clear(c)
    \/ Restart

Spec == Init /\ [][Next]_vars

=============================================================================
