--------------------------- MODULE OrderedChannel ---------------------------
(***************************************************************************)
(* What the code around the secure channel relies on: within a session the *)
(* master gets the messages of a minion in the order in which they were    *)
(* sealed, none twice and none left out; a session may stop at any point   *)
(* and is never resumed.                                                   *)
(***************************************************************************)
EXTENDS Naturals, Sequences

CONSTANTS Sessions,     \* 0 is none of them
          Messages

VARIABLES
    sealed,       \* per session: the messages sealed in it
    opened,       \* per session: the messages the master opened in it
    current       \* the session of the minion, 0 for none

vars == <<sealed, opened, current>>

Init == /\ sealed = [e \in Sessions |-> <<>>]
        /\ opened = [e \in Sessions |-> <<>>]
        /\ current = 0

Start(e) == /\ sealed[e] = <<>>
            /\ current' = e
            /\ UNCHANGED <<sealed, opened>>

Stop == current' = 0 /\ UNCHANGED <<sealed, opened>>

Seal(m) == /\ current \in Sessions
           /\ sealed' = [sealed EXCEPT ![current] = Append(@, m)]
           /\ UNCHANGED <<opened, current>>

Open(e) == /\ Len(opened[e]) < Len(sealed[e])
           /\ opened' = [opened EXCEPT ![e] = Append(@, sealed[e][Len(@) + 1])]
           /\ UNCHANGED <<sealed, current>>

Next == \/ \E e \in Sessions : Start(e) \/ Open(e)
        \/ \E m \in Messages : Seal(m)
        \/ Stop

Spec == Init /\ [][Next]_vars
=============================================================================
