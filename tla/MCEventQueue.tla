---------------------------- MODULE MCEventQueue ----------------------------
(* Instances of EventQueue.                                                  *)
EXTENDS EventQueue, TLC

CONSTANTS e1, e2, e3, e4

\* Three events of one priority and one of a lower urgency.
Shared == (e1 :> 0) @@ (e2 :> 0) @@ (e3 :> 0) @@ (e4 :> 1)
Two == (e1 :> 0) @@ (e2 :> 0)
Alike == Permutations({e1, e2})
=============================================================================
