---------------------------- MODULE MCTreeSearch ----------------------------
(* An instance of TreeSearch: six vertices next to the root fill the queue   *)
(* past the thresholds 2 and 5 of unsafeGetData; one more hangs on the last. *)
EXTENDS TreeSearch

MCEdges == {<<7, i>> : i \in 1 .. 6} \cup {<<1, 2>>, <<6, 0>>}
=============================================================================
