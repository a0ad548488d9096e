------------------------------ MODULE DistSync ------------------------------
(***************************************************************************)
(* The synchronisation of a distributed simulation: every gem5 process     *)
(* (peer) simulates on its own and meets the others at periodic syncs      *)
(* (dev/net/dist_iface.cc).  The nodes send a request to the switch over   *)
(* TCP; once all have come the switch answers every node, and the answer   *)
(* says whether this sync ends in a checkpoint or in the exit.  Ethernet   *)
(* packets travel on the same sockets.  In each peer a simulation thread   *)
(* and one receiver thread per socket share the Sync object.               *)
(*                                                                         *)
(* A peer has one link per socket; a packet is its send tick and delay.    *)
(* An assertion whose failure the properties do not exclude, and a panic,  *)
(* end the process.                                                        *)
(***************************************************************************)
EXTENDS Integers, Sequences, FiniteSets

CONSTANTS Nodes,        \* the peers that simulate a machine
          Switch,       \* the peer that simulates the Ethernet switch
          syncStart,    \* the switch's tick of the first sync
          linkDelay,    \* the simulated latency of every link
          SendDelays,   \* how long a packet may occupy its link
          Traffic,      \* bound: the links that carry packets
          Scenarios     \* the interval each peer asks for, and the bounds: how
                        \* many packets, m5 checkpoint and early m5 exit calls
                        \* and crashes there are, and the tick by which every
                        \* node's program calls m5 exit

Peers == Nodes \cup {Switch}

ASSUME DistAssumption ==
    /\ IsFiniteSet(Nodes) /\ Nodes # {} /\ Switch \notin Nodes
    /\ syncStart \in Nat /\ linkDelay \in Nat /\ SendDelays \subseteq Nat \ {0}
    /\ Scenarios \subseteq [packet : Nat, ckpt : Nat, exit : Nat, crash : Nat,
                            exitBy : Nat, syncRepeat : [Peers -> 1..linkDelay]]

VARIABLES pc,            \* where the simulation thread of each peer is
          curTick, when, repeat,  \* its time; tick and interval of its SyncEvent
          leaving,       \* an exit event of a lost connection is scheduled
          sync,          \* the Sync object of each peer
          need, num,     \* SyncNode's requests; SyncSwitch's counts of them
          chan,          \* the bytes in flight from <<source, destination>>
          recvThread,    \* is the receiver thread of that socket alive?
          busyUntil,     \* TxLink: the tick of the send done event
          descQueue, prevRecvTick, \* RecvScheduler
          scenario       \* the chosen one, with what is left of its bounds

vars == <<pc, curTick, when, repeat, leaving, sync, need, num, chan, recvThread,
          busyUntil, descQueue, prevRecvTick, scenario>>
time == <<curTick, when, repeat>>
requests == <<need, num>>
links == <<busyUntil, descQueue, prevRecvTick>>

Links == (Nodes \X {Switch}) \cup ({Switch} \X Nodes)
In(p) == {l \in Links : l[2] = p}
Out(p) == {l \in Links : l[1] = p}

(* A message to a process that is gone is lost. *)
MutSend(ls, m) == chan' = [l \in Links |-> IF l \in ls /\ pc[l[2]] # "exit"
                                           THEN chan[l] \o <<m, m>> ELSE chan[l]]
Send(ls, m) == chan' = [l \in Links |-> IF l \in ls /\ pc[l[2]] # "exit"
                                        THEN Append(chan[l], m) ELSE chan[l]]
Spend(kind) == scenario[kind] > 0 /\ scenario' = [scenario EXCEPT ![kind] = @ - 1]
Goto(p, where) == pc' = [pc EXCEPT ![p] = where]

(* DistIface::init has run in every peer, startup() is next. *)
Init ==
    /\ scenario \in Scenarios
    /\ pc = [p \in Peers |-> "startup"]
    /\ curTick = [p \in Peers |-> 0] /\ when = curTick /\ repeat = curTick
    /\ leaving = [p \in Peers |-> FALSE]
    /\ sync = [p \in Peers |-> [waitNum |-> IF p = Switch THEN Cardinality(Nodes) ELSE 0,
                                nextAt |-> syncStart, nextRepeat |-> scenario.syncRepeat[p],
                                doCkpt |-> FALSE, doExit |-> FALSE, isAbort |-> FALSE]]
    /\ need = [n \in Nodes |-> [ckpt |-> "none", exit |-> "none"]]
    /\ num = [ckpt |-> 0, exit |-> 0]
    /\ chan = [l \in Links |-> <<>>] /\ recvThread = [l \in Links |-> TRUE]
    /\ busyUntil = [l \in Links |-> 0] /\ prevRecvTick = busyUntil
    /\ descQueue = chan

-----------------------------------------------------------------------------
(* The simulation thread: Sync::run *)

(* A request that has been sent is remembered as pending. *)
MutSent(req) == req
Sent(req) == IF req = "none" THEN "none" ELSE "pending"

(* SyncNode::run up to the wait.  A sync after an abort fails the assertion. *)
NodeRun(n, where) ==
    IF sync[n].isAbort
    THEN Goto(n, "ending") /\ UNCHANGED <<sync, need, chan>>
    ELSE /\ Goto(n, where)
         /\ sync' = [sync EXCEPT ![n].waitNum = 1]
         /\ Send(Out(n), [type |-> "cmdSyncReq", sendTick |-> curTick[n],
                          syncRepeat |-> sync[n].nextRepeat,
                          ckpt |-> need[n].ckpt, exit |-> need[n].exit])
         /\ need' = [need EXCEPT ![n] = [ckpt |-> Sent(@.ckpt), exit |-> Sent(@.exit)]]

(* A peer calls run: the switch only waits for the nodes. *)
Run(p, where) ==
    \/ p \in Nodes /\ NodeRun(p, where)
    \/ p = Switch /\ Goto(p, where) /\ UNCHANGED <<sync, need, chan>>

Waiting == {"starting", "syncing", "draining"}

(* start() after run: its assertions, and the first sync is scheduled. *)
AfterStart(p) ==
    /\ IF sync[p].doCkpt \/ sync[p].doExit THEN Goto(p, "ending") /\ UNCHANGED when
       ELSE Goto(p, "run") /\ when' = [when EXCEPT ![p] = sync[p].nextAt]
    /\ UNCHANGED <<repeat, sync>>

MutStopsFor(p) == IF sync[p].doCkpt \/ (p \in Nodes /\ need[p].ckpt = "pending")
                  THEN "drain" ELSE "run"
StopsFor(p) == IF sync[p].doCkpt THEN "drain" ELSE "run"

(* process() after run: the peer exits, or schedules the next sync and     *)
(* perhaps stops for a checkpoint.  (If a connection was lost as well, the *)
(* exit event ends the peer whether or not it stopped; to switch the syncs *)
(* off, doStopSync, is not modelled.)                                      *)
AfterSync(p) ==
    /\ IF sync[p].doExit \/ leaving[p] THEN Goto(p, "ending") /\ UNCHANGED <<when, repeat>>
       ELSE /\ Goto(p, StopsFor(p))
            /\ repeat' = [repeat EXCEPT ![p] = sync[p].nextRepeat]
            /\ when' = [when EXCEPT ![p] = curTick[p] + repeat'[p]]
    /\ UNCHANGED sync

(* drainComplete() after run: the peer writes its checkpoint and resumes. *)
AfterDrain(p) ==
    /\ Goto(p, "run") /\ sync' = [sync EXCEPT ![p].doCkpt = FALSE]
    /\ UNCHANGED <<when, repeat>>

(* An aborted sync: start() panics, process() returns to an event queue    *)
(* with nothing but an exit event, drainComplete() does not look.          *)
AfterAbort(p) ==
    \/ pc[p] = "draining" /\ AfterDrain(p)
    \/ pc[p] # "draining" /\ Goto(p, "ending") /\ UNCHANGED <<when, repeat, sync>>

(* SyncNode::run, woken up; nothing changes the flags before they are read. *)
NodeDone(n) ==
    /\ sync[n].waitNum = 0
    /\ \/ pc[n] \in Waiting /\ sync[n].isAbort /\ AfterAbort(n)
       \/ /\ ~sync[n].isAbort
          /\ \/ pc[n] = "starting" /\ AfterStart(n)
             \/ pc[n] = "syncing" /\ AfterSync(n)
             \/ pc[n] = "draining" /\ AfterDrain(n)
    /\ UNCHANGED <<curTick, leaving, requests, chan, recvThread, links, scenario>>

Answered == [starting |-> "started", syncing |-> "synced", draining |-> "drained"]

(* SyncSwitch::run once every request has come: it answers all nodes and   *)
(* is ready for the next sync.  A periodic sync must be at this very tick. *)
SwitchDone ==
    LET s == sync[Switch]
        ckpt == s.doCkpt \/ num.ckpt = Cardinality(Nodes)
        exit == s.doExit \/ num.exit = Cardinality(Nodes) IN
    /\ pc[Switch] \in Waiting /\ s.waitNum = 0
    /\ ~s.isAbort
    /\ IF pc[Switch] = "syncing" /\ s.nextAt # curTick[Switch]
       THEN Goto(Switch, "ending") /\ UNCHANGED <<sync, num, chan>>
       ELSE /\ Goto(Switch, Answered[pc[Switch]])
            /\ sync' = [sync EXCEPT ![Switch] = [@ EXCEPT !.waitNum = Cardinality(Nodes),
                                                          !.doCkpt = ckpt, !.doExit = exit]]
            /\ num' = [num EXCEPT !.ckpt = IF ckpt THEN 0 ELSE @]
            /\ Send(Out(Switch),
                    [type |-> "cmdSyncAck", sendTick |-> s.nextAt, syncRepeat |-> s.nextRepeat,
                     ckpt |-> IF ckpt THEN "immediate" ELSE "none",
                     exit |-> IF exit THEN "immediate" ELSE "none"])
    /\ UNCHANGED <<time, leaving, need, recvThread, links, scenario>>

(* The switch goes on without the lock: a receiver thread may change the   *)
(* flags between its answer and this step.                                 *)
SwitchGoesOn ==
    /\ \/ pc[Switch] = "started" /\ AfterStart(Switch)
       \/ pc[Switch] = "synced" /\ AfterSync(Switch)
       \/ pc[Switch] = "drained" /\ AfterDrain(Switch)
       \/ /\ pc[Switch] \in Waiting /\ sync[Switch].isAbort /\ AfterAbort(Switch)
    /\ UNCHANGED <<curTick, leaving, requests, chan, recvThread, links, scenario>>

-----------------------------------------------------------------------------
(* The simulation thread: SyncEvent, checkpoints and the events of a tick *)

(* startup() and SyncEvent::start agree on the tick of the first sync and  *)
(* on the smallest interval.                                               *)
Start(p) ==
    /\ pc[p] = "startup" /\ Run(p, "starting")
    /\ repeat' = [repeat EXCEPT ![p] = sync[p].nextRepeat]
    /\ UNCHANGED <<curTick, when, leaving, num, recvThread, links, scenario>>

MutRecvTick(d) == d.sendTick + d.sendDelay
RecvTick(d) == d.sendTick + d.sendDelay + linkDelay

(* A packet whose recvDone event is due. *)
Due(l) == descQueue[l] # <<>> /\ RecvTick(Head(descQueue[l])) = curTick[l[2]]

(* Events are served until the system is fully drained; serialize() and    *)
(* the sync in it run outside the event loop.                              *)
MutSimulating(p) == pc[p] \in {"run", "drain", "draining"}
Simulating(p) == pc[p] \in {"run", "drain"}

(* The tick may not end before the node's program has called m5 exit. *)
Owes(p) == p \in Nodes /\ curTick[p] = scenario.exitBy /\ need[p].exit = "none"

(* The last event of a tick is the sync: it has priority Sim_Exit_Pri, and *)
(* an exit event scheduled meanwhile comes before it.                      *)
AtSync(p) == curTick[p] = when[p] /\ ~leaving[p] /\ ~Owes(p) /\ ~\E l \in In(p) : Due(l)

(* SyncEvent::process, which panics while draining. *)
Process(p) ==
    /\ AtSync(p)
    /\ \/ pc[p] = "run" /\ Run(p, "syncing")
       \/ pc[p] = "drain" /\ Goto(p, "ending") /\ UNCHANGED <<sync, need, chan>>
    /\ UNCHANGED <<time, leaving, num, recvThread, links, scenario>>

(* The peer has drained: serialize() calls drainComplete(). *)
Drained(p) ==
    /\ pc[p] = "drain" /\ Run(p, "draining")
    /\ UNCHANGED <<time, leaving, num, recvThread, links, scenario>>

(* An exit event of the receiver thread: m5.drain() ignores it. *)
Quit(p) ==
    /\ leaving[p] /\ leaving' = [leaving EXCEPT ![p] = FALSE]
    /\ \/ pc[p] = "run" /\ Goto(p, "ending")
       \/ pc[p] = "drain" /\ UNCHANGED pc
    /\ UNCHANGED <<time, sync, requests, chan, recvThread, links, scenario>>

Advance(p) ==
    /\ Simulating(p) /\ ~leaving[p] /\ curTick[p] < when[p] /\ ~Owes(p)
    /\ ~\E l \in In(p) : Due(l)
    /\ curTick' = [curTick EXCEPT ![p] = @ + 1]
    /\ UNCHANGED <<pc, when, repeat, leaving, sync, requests, chan, recvThread, links, scenario>>

(* Once the sync of a tick is done nothing else happens in that tick. *)
Acting(p) == Simulating(p) /\ curTick[p] > when[p] - repeat[p]

(* readyToCkpt and readyToExit of an m5 instruction: a request replaces    *)
(* no earlier one unless it is immediate.                                  *)
Ask(old, req) == IF old = "none" \/ req = "immediate" THEN req ELSE old

RequestCkpt(n) ==
    /\ Acting(n) /\ Spend("ckpt")
    /\ \E req \in {"immediate", "collective"} :
           need' = [need EXCEPT ![n].ckpt = Ask(@, req)]
    /\ UNCHANGED <<pc, time, leaving, sync, num, chan, recvThread, links>>

RequestExit(n) ==
    /\ Acting(n) /\ (Spend("exit") \/ (Owes(n) /\ UNCHANGED scenario))
    /\ \E req \in {"immediate", "collective"} :
           need' = [need EXCEPT ![n].exit = Ask(@, req)]
    /\ UNCHANGED <<pc, time, leaving, sync, num, chan, recvThread, links>>

(* TxLink::transmit and packetOut, on a network that is silent before the  *)
(* first sync.                                                             *)
PacketOut(l) ==
    /\ Acting(l[1]) /\ when[l[1]] > syncStart
    /\ busyUntil[l] <= curTick[l[1]] /\ Spend("packet")
    /\ \E delay \in SendDelays :
           /\ Send({l}, [type |-> "dataDescriptor", sendTick |-> curTick[l[1]],
                         sendDelay |-> delay])
           /\ busyUntil' = [busyUntil EXCEPT ![l] = curTick[l[1]] + delay]
    /\ UNCHANGED <<pc, time, leaving, sync, requests, recvThread, descQueue, prevRecvTick>>

(* The recvDone event: popPacket. *)
PopPacket(l) ==
    /\ Simulating(l[2]) /\ Due(l)
    /\ descQueue' = [descQueue EXCEPT ![l] = Tail(@)]
    /\ prevRecvTick' = [prevRecvTick EXCEPT ![l] = curTick[l[2]]]
    /\ UNCHANGED <<pc, time, leaving, sync, requests, chan, recvThread, busyUntil, scenario>>

-----------------------------------------------------------------------------
(* The receiver threads: recvThreadFunc *)

IsCmd(m) == m.type # "dataDescriptor"

(* pushPacket: its assertions are OnTime below. *)
PushPacket(l) ==
    /\ ~IsCmd(Head(chan[l]))
    /\ descQueue' = [descQueue EXCEPT ![l] = Append(@, Head(chan[l]))]
    /\ UNCHANGED <<sync, num, recvThread>>

(* SyncSwitch::progress: a node has come to the sync. *)
Counted(s, m) ==
    [s EXCEPT !.waitNum = @ - 1,
              !.nextAt = IF m.sendTick > @ THEN m.sendTick ELSE @,
              !.nextRepeat = IF m.syncRepeat < @ THEN m.syncRepeat ELSE @,
              !.doCkpt = @ \/ m.ckpt = "immediate",
              !.doExit = @ \/ m.exit = "immediate"]

Collective(req) == IF req = "collective" THEN 1 ELSE 0

SwitchProgress(l) ==
    LET m == Head(chan[l]) IN
    /\ m.type = "cmdSyncReq" /\ ~sync[Switch].isAbort
    /\ sync' = [sync EXCEPT ![Switch] = Counted(@, m)]
    /\ num' = [ckpt |-> num.ckpt + Collective(m.ckpt), exit |-> num.exit + Collective(m.exit)]
    /\ UNCHANGED <<recvThread, descQueue>>

(* SyncNode::progress: the answer; the thread ends when the exit is near. *)
MutTaken(s, m) == [s EXCEPT !.waitNum = @ - 1, !.nextRepeat = m.syncRepeat,
                            !.doCkpt = m.ckpt # "none", !.doExit = m.exit # "none"]
Taken(s, m) == [s EXCEPT !.waitNum = @ - 1, !.nextAt = m.sendTick,
                         !.nextRepeat = m.syncRepeat,
                         !.doCkpt = m.ckpt # "none", !.doExit = m.exit # "none"]

NodeProgress(l) ==
    LET m == Head(chan[l]) IN
    /\ m.type = "cmdSyncAck" /\ ~sync[l[2]].isAbort
    /\ sync' = [sync EXCEPT ![l[2]] = Taken(@, m)]
    /\ recvThread' = [recvThread EXCEPT ![l] = m.exit = "none"]
    /\ UNCHANGED <<num, descQueue>>

(* Either progress ends the thread once the sync is aborted. *)
ProgressAborted(l) ==
    /\ IsCmd(Head(chan[l])) /\ sync[l[2]].isAbort
    /\ recvThread' = [recvThread EXCEPT ![l] = FALSE]
    /\ UNCHANGED <<sync, num, descQueue>>

Receive(l) ==
    /\ recvThread[l] /\ pc[l[2]] # "exit" /\ chan[l] # <<>>
    /\ PushPacket(l) \/ SwitchProgress(l) \/ NodeProgress(l) \/ ProgressAborted(l)
    /\ chan' = [chan EXCEPT ![l] = Tail(@)]
    /\ UNCHANGED <<pc, time, leaving, need, busyUntil, prevRecvTick, scenario>>

(* The connection is closed: schedule an exit, wake the simulation thread. *)
MutConnectionLost(l) ==
    /\ recvThread[l] /\ pc[l[2]] # "exit" /\ chan[l] = <<>> /\ pc[l[1]] = "exit"
    /\ leaving' = [leaving EXCEPT ![l[2]] = TRUE]
    /\ recvThread' = [recvThread EXCEPT ![l] = FALSE]
    /\ UNCHANGED <<pc, time, sync, requests, chan, links, scenario>>
ConnectionLost(l) ==
    /\ recvThread[l] /\ pc[l[2]] # "exit" /\ chan[l] = <<>> /\ pc[l[1]] = "exit"
    /\ leaving' = [leaving EXCEPT ![l[2]] = TRUE]
    /\ sync' = [sync EXCEPT ![l[2]] = [@ EXCEPT !.waitNum = 0, !.isAbort = TRUE]]
    /\ recvThread' = [recvThread EXCEPT ![l] = FALSE]
    /\ UNCHANGED <<pc, time, requests, chan, links, scenario>>

-----------------------------------------------------------------------------
(* The end of a process *)

(* Its sockets are closed and what it has not read is lost. *)
Gone(p) ==
    /\ Goto(p, "exit")
    /\ chan' = [l \in Links |-> IF l \in In(p) THEN <<>> ELSE chan[l]]
    /\ descQueue' = [l \in Links |-> IF l \in In(p) THEN <<>> ELSE descQueue[l]]
    /\ UNCHANGED <<time, leaving, sync, requests, recvThread, busyUntil, prevRecvTick>>

Close(p) == pc[p] = "ending" /\ Gone(p) /\ UNCHANGED scenario

(* The user, a tick limit or a failure ends a peer at any time. *)
Crash(p) ==
    /\ pc[p] \notin {"ending", "exit"} /\ Spend("crash") /\ Gone(p)

(* sendTCP on a closed socket panics, at the latest on the second try. *)
BrokenPipe(p) ==
    /\ \E l \in Out(p) : pc[l[2]] = "exit"
    /\ Simulating(p) \/ (p = Switch /\ pc[p] \in Waiting /\ sync[p].waitNum = 0)
    /\ Goto(p, "ending")
    /\ UNCHANGED <<time, leaving, sync, requests, chan, recvThread, links, scenario>>

-----------------------------------------------------------------------------
Step(p) == \/ Start(p) \/ Process(p) \/ Drained(p) \/ Quit(p) \/ Advance(p) \/ Close(p)
           \/ p \in Nodes /\ NodeDone(p)
           \/ p = Switch /\ (SwitchDone \/ SwitchGoesOn)
           \/ \E l \in In(p) : PopPacket(l)

Thread(l) == Receive(l) \/ ConnectionLost(l)

Next == \/ \E p \in Peers : Step(p) \/ Crash(p) \/ BrokenPipe(p)
        \/ \E n \in Nodes : RequestCkpt(n) \/ RequestExit(n)
        \/ \E l \in Traffic : PacketOut(l)
        \/ \E l \in Links : Thread(l)

Spec == Init /\ [][Next]_vars

(* Threads run, and a program that owes its m5 exit comes to it. *)
FairSpec == /\ Spec
            /\ \A p \in Peers : WF_vars(Step(p))
            /\ \A l \in Links : WF_vars(Thread(l))
            /\ \A n \in Nodes : WF_vars(Owes(n) /\ RequestExit(n))

-----------------------------------------------------------------------------
(* Unless a checkpoint was asked for, the assertions of calcReceiveTick    *)
(* and pushPacket hold for every packet about to be pushed, and for the    *)
(* next one when a packet is popped: it was sent in the quantum its        *)
(* receiver is in, is due only after the next sync, is not late and does   *)
(* not overlap the packet before it.                                       *)
OnTime ==
    (\A n \in Nodes : need[n].ckpt = "none") =>
    \A l \in Links :
        LET m == Head(chan[l])
            d == Head(descQueue[l]) IN
        /\ recvThread[l] /\ chan[l] # <<>> /\ ~IsCmd(m) =>
             /\ RecvTick(m) >= prevRecvTick[l] + m.sendDelay
             /\ RecvTick(m) > curTick[l[2]]
             /\ m.sendTick > when[l[2]] - repeat[l[2]]
             /\ RecvTick(m) > when[l[2]]
             /\ descQueue[l] # <<>> => d.sendTick + d.sendDelay <= RecvTick(m)
        /\ Len(descQueue[l]) > 1 /\ Due(l) =>
             RecvTick(descQueue[l][2]) >= curTick[l[2]] + descQueue[l][2].sendDelay

(* The assertions on waitNum: zero when a node enters a sync, positive     *)
(* when a request or an answer arrives and the sync is not aborted.        *)
OneSyncAtATime ==
    /\ \A n \in Nodes : pc[n] \in {"run", "drain"} => sync[n].waitNum = 0
    /\ \A l \in Links :
          recvThread[l] /\ chan[l] # <<>> /\ ~sync[l[2]].isAbort
             => ~IsCmd(Head(chan[l])) \/ sync[l[2]].waitNum > 0

(* The assertion that ends SyncNode::run: a periodic sync completes at the *)
(* tick at which the node entered it.                                      *)
SameTick ==
    \A n \in Nodes : pc[n] = "syncing" /\ sync[n].waitNum = 0 /\ ~sync[n].isAbort
                        => sync[n].nextAt = curTick[n]

(* A checkpoint is taken by all nodes at the same sync: while one drains   *)
(* for it, none simulates on, but one that has lost its connection.        *)
CheckpointTogether ==
    \A m, n \in Nodes : pc[m] = "drain" /\ pc[n] = "run" => sync[n].isAbort

(* The sync of drainComplete drains the physical network: when two peers   *)
(* write their checkpoints no packet is still between them.                *)
NothingInFlight ==
    LET Writes(p) == IF p = Switch THEN pc[p] = "drained"
                     ELSE pc[p] = "draining" /\ sync[p].waitNum = 0 /\ ~sync[p].isAbort IN
    \A l \in Links : Writes(l[1]) /\ Writes(l[2])
        => \A i \in 1..Len(chan[l]) : IsCmd(chan[l][i])

(* A collective request counts once: numExitReq and numCkptReq never       *)
(* exceed the nodes that have asked.                                       *)
CountedOnce ==
    /\ num.exit <= Cardinality({n \in Nodes : need[n].exit # "none"})
    /\ num.ckpt <= Cardinality({n \in Nodes : need[n].ckpt # "none"})

(* A node waits for an answer that no thread will receive: its receiver    *)
(* has ended because an exit was granted in the sync of a checkpoint.      *)
Orphan(n) == pc[n] \in Waiting /\ sync[n].waitNum > 0 /\ ~recvThread[<<Switch, n>>]

(* Requested exits, closed connections and crashes end every peer; only a  *)
(* node whose receiver thread ended during a checkpoint may be left over.  *)
Ends == <>\A p \in Peers : pc[p] = "exit" \/ (p \in Nodes /\ Orphan(p))
=============================================================================
