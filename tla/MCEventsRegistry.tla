-------------------------- MODULE MCEventsRegistry --------------------------
(* Small instances of EventsRegistry for TLC.                              *)
EXTENDS EventsRegistry, TLC

CONSTANTS c1, c2, m1, m2, e1, e2, e3, r1

(* Two minions answer the command c1, one of them a second command.        *)
MCCycles == {c1, c2}
MCMinions == {m1, m2}
MCEvents == {e1, e2, e3}
MCReports == {r1}
MCCycleOf == e1 :> c1 @@ e2 :> c1 @@ e3 :> c2 @@ r1 :> c1
MCMinionOf == e1 :> m1 @@ e2 :> m2 @@ e3 :> m1 @@ r1 :> m1
MCTimeOf == e1 :> 1 @@ e2 :> 2 @@ e3 :> 2
=============================================================================
