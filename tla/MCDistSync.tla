------------------------------ MODULE MCDistSync ------------------------------
(* Two nodes that ask for different intervals, n1 sending to n2.  The        *)
(* scenarios are a checkpoint with a packet, two calls of m5 checkpoint, two *)
(* packets in a longer run, an early exit, and a crash with a packet.        *)
EXTENDS DistSync, TLC

CONSTANTS n1, n2

MCTraffic == {<<n1, Switch>>, <<Switch, n2>>}

Scenario(p, c, e, x, t, r) ==
    [packet |-> p, ckpt |-> c, exit |-> e, crash |-> x, exitBy |-> t,
     syncRepeat |-> n1 :> r @@ n2 :> r + 1 @@ Switch :> r + 1]
MCScenarios == {Scenario(1, 1, 0, 0, 2, 1), Scenario(0, 2, 0, 0, 1, 1),
                Scenario(2, 0, 0, 0, 5, 2), Scenario(0, 0, 1, 0, 2, 1),
                Scenario(1, 0, 0, 1, 2, 2)}
=============================================================================
