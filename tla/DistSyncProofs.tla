--------------------------- MODULE DistSyncProofs ---------------------------
(***************************************************************************)
(* The syncs of a distributed simulation for any number of nodes and       *)
(* syncs: the assertions of the Sync objects on waitNum and nextAt hold, a *)
(* checkpoint is taken by all nodes at one sync with no packet under way,  *)
(* and a collective request counts once.                                   *)
(*                                                                         *)
(* The switch does not record which requests it has counted, nor what it   *)
(* answered at its last sync.  The invariant says that some round explains *)
(* the state of all peers.                                                 *)
(***************************************************************************)
EXTENDS DistSync, TLAPS, FiniteSetTheorems

Up(n) == <<n, Switch>>
Down(n) == <<Switch, n>>

Idle == {"startup", "run", "drain"}
Locations == Idle \cup Waiting \cup {"started", "synced", "drained", "ending", "exit"}
Requests == {"none", "immediate", "collective", "pending"}

Message ==
  [type : {"cmdSyncReq", "cmdSyncAck"}, sendTick : Nat, syncRepeat : Nat,
   ckpt : Requests, exit : Requests]
  \cup [type : {"dataDescriptor"}, sendTick : Nat, sendDelay : Nat]

SyncObject == [waitNum : Int, nextAt : Nat, nextRepeat : Nat,
               doCkpt : BOOLEAN, doExit : BOOLEAN, isAbort : BOOLEAN]

TypeInv ==
  /\ pc \in [Peers -> Locations]
  /\ curTick \in [Peers -> Nat] /\ when \in [Peers -> Nat] /\ repeat \in [Peers -> Nat]
  /\ sync \in [Peers -> SyncObject]
  /\ need \in [Nodes -> [ckpt : Requests, exit : Requests]]
  /\ num \in [ckpt : Nat, exit : Nat]
  /\ chan \in [Links -> Seq(Message)]

----------------------------------------------------------------------------
(* Channels *)

\* The requests and answers in a channel.
Cmds(q) == {q[i] : i \in {j \in DOMAIN q : IsCmd(q[j])}}

\* It holds at most one.
One(q) == \A i, j \in DOMAIN q : IsCmd(q[i]) /\ IsCmd(q[j]) => i = j

\* No packet was sent after it.
Sealed(q) == \A i \in DOMAIN q : ~IsCmd(q[i]) => \E j \in DOMAIN q : i < j /\ IsCmd(q[j])

----------------------------------------------------------------------------
(* Rounds *)

\* A round: whose requests the switch has counted; where the nodes are before
\* they send a request, and where they were before the last answer; what that
\* answer said; and the tick of the next periodic sync.
Round == [counted : SUBSET Nodes, next : Idle, last : Idle \cup {"none"},
          ckpt : BOOLEAN, exit : BOOLEAN, tick : Nat, repeat : Nat, at : Nat]

\* Where a peer waits for the answer to a request it sends there.
Wait(loc) == CASE loc = "startup" -> "starting"
               [] loc = "run" -> "syncing"
               [] loc = "drain" -> "draining"
               [] OTHER -> "none"

Granted(b) == IF b THEN "immediate" ELSE "none"

\* The last answer.
Ack(h) == [type |-> "cmdSyncAck", sendTick |-> h.tick, syncRepeat |-> h.repeat,
           ckpt |-> Granted(h.ckpt), exit |-> Granted(h.exit)]

\* How the rounds follow each other.
RoundInv(h) ==
  /\ h.last = "none" <=> h.next = "startup"
  /\ h.last # "none" => h.next = IF h.last = "run" /\ h.ckpt THEN "drain" ELSE "run"
  /\ h.last = "startup" => h.at = h.tick
  /\ h.last = "run" => h.at = h.tick + h.repeat

\* The tick of a request that is sent from loc.
AskedAt(h, t) ==
  CASE h.next = "startup" -> t = 0
    [] h.next = "run" -> t = h.at
    [] h.next = "drain" -> t <= h.at

\* Node n simulates; or has sent its request; or has not read the last answer,
\* or not acted on it.
Simulates(n, h) ==
  /\ pc[n] = h.next /\ sync[n].waitNum = 0
  /\ IF h.next = "startup" THEN curTick[n] = 0
     ELSE when[n] = h.at /\ curTick[n] <= h.at

Asked(n, h) ==
  /\ pc[n] = Wait(h.next) /\ sync[n].waitNum = 1 /\ Cmds(chan[Down(n)]) = {}
  /\ AskedAt(h, curTick[n])
  /\ h.next # "startup" => when[n] = h.at

Lags(n, h) ==
  /\ h.last # "none" /\ pc[n] = Wait(h.last)
  /\ h.last = "startup" => curTick[n] = 0
  /\ h.last = "run" => curTick[n] = h.tick
  /\ h.last = "drain" => when[n] = h.at /\ curTick[n] <= h.at

Unread(n, h) == Lags(n, h) /\ sync[n].waitNum = 1 /\ Cmds(chan[Down(n)]) # {}

Read(n, h) ==
  /\ Lags(n, h) /\ sync[n].waitNum = 0
  /\ sync[n].nextAt = h.tick /\ sync[n].nextRepeat = h.repeat
  /\ sync[n].doCkpt = h.ckpt /\ sync[n].doExit = h.exit

Live(n) == ~sync[n].isAbort /\ pc[n] \notin {"ending", "exit"}

LiveInv(n, h) ==
  Live(n) => Simulates(n, h) \/ Asked(n, h) \/ Unread(n, h) \/ Read(n, h)

\* The requests of a node that the switch has, or will have, counted.
RequestInv(n, h) ==
  /\ One(chan[Up(n)])
  /\ \A m \in Cmds(chan[Up(n)]) : m.type = "cmdSyncReq" /\ AskedAt(h, m.sendTick)
  /\ n \in h.counted => Cmds(chan[Up(n)]) = {}
  /\ n \in h.counted \/ Cmds(chan[Up(n)]) # {} =>
       Asked(n, h) \/ sync[n].isAbort \/ pc[n] = "exit"
  /\ pc[n] \in Waiting => Sealed(chan[Up(n)])
  /\ pc[Switch] = "exit" => chan[Up(n)] = <<>>

\* The answer on its way to a node.
AnswerInv(n, h) ==
  /\ One(chan[Down(n)])
  /\ \A m \in Cmds(chan[Down(n)]) : m = Ack(h)
  /\ Cmds(chan[Down(n)]) # {} => Live(n) /\ Unread(n, h)
  /\ pc[Switch] \in {"started", "synced", "drained"} => Sealed(chan[Down(n)])
  /\ pc[n] = "exit" => chan[Down(n)] = <<>>

NodeInv(n, h) ==
  /\ LiveInv(n, h) /\ RequestInv(n, h) /\ AnswerInv(n, h)
  /\ pc[n] \in Idle => sync[n].waitNum = 0
  /\ pc[n] = "drain" => h.next = "drain"
  /\ sync[n].isAbort => pc[Switch] = "exit"

\* What the switch has made of the requests it has counted.
SwitchInv(h) ==
  ~sync[Switch].isAbort =>
    /\ sync[Switch].waitNum = Cardinality(Nodes) - Cardinality(h.counted)
    /\ IF h.next = "startup" THEN sync[Switch].nextAt = syncStart
       ELSE /\ sync[Switch].nextAt <= h.at
            /\ h.next = "run" /\ h.counted # {} => sync[Switch].nextAt = h.at

Explains(h) == RoundInv(h) /\ SwitchInv(h) /\ \A n \in Nodes : NodeInv(n, h)

IInv == TypeInv /\ \E h \in Round : Explains(h)

\* The nodes whose collective request has been counted have sent it.
OnceInv(k) ==
  \E C \in SUBSET Nodes :
    /\ num[k] = Cardinality(C)
    /\ \A n \in Nodes :
         /\ n \in C => need[n][k] \in {"pending", "immediate"}
         /\ \A m \in Cmds(chan[Up(n)]) : m[k] = "collective" =>
              n \notin C /\ need[n][k] \in {"pending", "immediate"}

----------------------------------------------------------------------------
(* What appending and receiving do to a channel *)

\* A packet is sent.
LEMMA AppendPacket ==
  ASSUME NEW q \in Seq(Message), NEW m \in Message, ~IsCmd(m)
  PROVE  /\ Append(q, m) \in Seq(Message)
         /\ Cmds(Append(q, m)) = Cmds(q)
         /\ One(q) => One(Append(q, m))
<1> DEFINE r == Append(q, m)
<1>1. /\ r \in Seq(Message) /\ Len(q) \in Nat
      /\ DOMAIN q = 1 .. Len(q) /\ DOMAIN r = 1 .. Len(q) + 1
      /\ r[Len(q) + 1] = m /\ \A i \in 1 .. Len(q) : r[i] = q[i]
  OBVIOUS
<1> HIDE DEF r
<1>2. \A i \in DOMAIN r : IsCmd(r[i]) => i \in DOMAIN q /\ r[i] = q[i]
  BY <1>1
<1>3. \A i \in DOMAIN q : i \in DOMAIN r /\ r[i] = q[i]
  BY <1>1
<1>4. Cmds(r) = Cmds(q)
  BY <1>2, <1>3, Zenon DEF Cmds
<1>5. One(q) => One(r)
  BY <1>2, Zenon DEF One
<1> QED
  BY <1>1, <1>4, <1>5, Zenon DEF r

\* A request or an answer is sent on a channel that holds none.
LEMMA AppendCmd ==
  ASSUME NEW q \in Seq(Message), NEW m \in Message, IsCmd(m), Cmds(q) = {}
  PROVE  /\ Append(q, m) \in Seq(Message)
         /\ Cmds(Append(q, m)) = {m}
         /\ One(Append(q, m)) /\ Sealed(Append(q, m))
<1> DEFINE r == Append(q, m)
<1>1. /\ r \in Seq(Message) /\ Len(q) \in Nat
      /\ DOMAIN q = 1 .. Len(q) /\ DOMAIN r = 1 .. Len(q) + 1
      /\ r[Len(q) + 1] = m /\ \A i \in 1 .. Len(q) : r[i] = q[i]
  OBVIOUS
<1> HIDE DEF r
<1>2. \A i \in DOMAIN q : ~IsCmd(q[i])
  BY Zenon DEF Cmds
<1>3. \A i \in DOMAIN r : IsCmd(r[i]) <=> i = Len(q) + 1
  BY <1>1, <1>2
<1>4. Cmds(r) = {m}
  BY <1>1, <1>3 DEF Cmds
<1>5. One(r)
  BY <1>3, Zenon DEF One
<1>6. Sealed(r)
  BY <1>1, <1>3 DEF Sealed
<1> QED
  BY <1>1, <1>4, <1>5, <1>6, Zenon DEF r

\* The first message is received.
LEMMA ReceiveFirst ==
  ASSUME NEW q \in Seq(Message), q # <<>>, One(q)
  PROVE  /\ Head(q) \in Message /\ Tail(q) \in Seq(Message) /\ One(Tail(q))
         /\ Sealed(q) => Sealed(Tail(q))
         /\ IF IsCmd(Head(q)) THEN Cmds(q) = {Head(q)} /\ Cmds(Tail(q)) = {}
            ELSE Cmds(Tail(q)) = Cmds(q)
<1> DEFINE r == Tail(q)
<1>1. /\ r \in Seq(Message) /\ Len(q) \in Nat \ {0} /\ Head(q) = q[1] /\ q[1] \in Message
      /\ DOMAIN q = 1 .. Len(q) /\ DOMAIN r = 1 .. Len(q) - 1
      /\ \A i \in 1 .. Len(q) - 1 : r[i] = q[i + 1]
  OBVIOUS
<1> HIDE DEF r
<1>2. \A i \in DOMAIN r : i \in Int /\ i + 1 \in DOMAIN q /\ r[i] = q[i + 1]
  BY <1>1
<1>3. \A i \in DOMAIN q \ {1} : i \in Int /\ i - 1 \in DOMAIN r /\ r[i - 1] = q[i]
  BY <1>1
<1>4. One(r)
  <2> SUFFICES ASSUME NEW i \in DOMAIN r, NEW j \in DOMAIN r, IsCmd(r[i]), IsCmd(r[j])
               PROVE  i = j
    BY Zenon DEF One
  <2>1. i + 1 = j + 1
    BY <1>2, Zenon DEF One
  <2> QED
    BY <1>2, <2>1
<1>5. ASSUME Sealed(q) PROVE Sealed(r)
  <2> SUFFICES ASSUME NEW i \in DOMAIN r, ~IsCmd(r[i])
               PROVE  \E j \in DOMAIN r : i < j /\ IsCmd(r[j])
    BY Zenon DEF Sealed
  <2>1. PICK j \in DOMAIN q : i + 1 < j /\ IsCmd(q[j])
    BY <1>2, <1>5, Zenon DEF Sealed
  <2>2. i \in Int /\ j \in Int /\ i >= 1 /\ j # 1
    BY <1>1, <2>1
  <2>3. j - 1 \in DOMAIN r /\ r[j - 1] = q[j] /\ i < j - 1
    BY <1>3, <2>1, <2>2
  <2> QED
    BY <2>1, <2>3, Zenon
<1>6. CASE IsCmd(Head(q))
  <2>1. 1 \in DOMAIN q
    BY <1>1
  <2>2. \A i \in DOMAIN q : IsCmd(q[i]) <=> i = 1
    BY <1>1, <1>6, <2>1, Zenon DEF One
  <2>3. Cmds(q) = {Head(q)}
    BY <1>1, <2>1, <2>2, Zenon DEF Cmds
  <2>4. \A i \in DOMAIN r : ~IsCmd(r[i])
    <3> SUFFICES ASSUME NEW i \in DOMAIN r, IsCmd(r[i]) PROVE FALSE
      BY Zenon
    <3>1. i + 1 = 1 /\ i >= 1 /\ i \in Int
      BY <1>1, <1>2, <2>2
    <3> QED
      BY <3>1
  <2>5. Cmds(r) = {}
    BY <2>4, Zenon DEF Cmds
  <2> QED
    BY <1>1, <1>4, <1>5, <1>6, <2>3, <2>5, Zenon DEF r
<1>7. CASE ~IsCmd(Head(q))
  <2>1. Cmds(r) \subseteq Cmds(q)
    BY <1>2, Zenon DEF Cmds
  <2>2. ASSUME NEW i \in DOMAIN q, IsCmd(q[i]) PROVE q[i] \in Cmds(r)
    <3>1. i # 1
      BY <1>1, <1>7, <2>2, Zenon
    <3> QED
      BY <1>3, <2>2, <3>1, Zenon DEF Cmds
  <2>3. Cmds(q) \subseteq Cmds(r)
    BY <2>2, Zenon DEF Cmds
  <2>4. Cmds(r) = Cmds(q)
    BY <2>1, <2>3, Zenon
  <2> QED
    BY <1>1, <1>4, <1>5, <1>7, <2>4, Zenon DEF r
<1> QED
  BY <1>6, <1>7, Zenon

\* The empty channel.
LEMMA EmptyChannel == Cmds(<<>>) = {} /\ One(<<>>) /\ Sealed(<<>>)
BY DEF Cmds, One, Sealed

\* A sealed channel without a request or answer holds no packet.
LEMMA SealedEmpty ==
  ASSUME NEW q \in Seq(Message), Sealed(q), Cmds(q) = {}
  PROVE  \A i \in DOMAIN q : IsCmd(q[i])
BY Zenon DEF Sealed, Cmds

\* The head of a channel is one of its requests or answers.
LEMMA HeadCmd ==
  ASSUME NEW q \in Seq(Message), q # <<>>, IsCmd(Head(q))
  PROVE  Head(q) \in Cmds(q)
<1>1. 1 \in DOMAIN q /\ Head(q) = q[1]
  OBVIOUS
<1> QED
  BY <1>1, Zenon DEF Cmds

----------------------------------------------------------------------------
(* Links *)

\* Every node has a link to the switch and one from it.
LEMMA LinksOf ==
  /\ \A n \in Nodes : /\ Up(n) \in Links /\ Down(n) \in Links
                      /\ Up(n)[1] = n /\ Up(n)[2] = Switch
                      /\ Down(n)[1] = Switch /\ Down(n)[2] = n
                      /\ In(n) = {Down(n)} /\ Out(n) = {Up(n)}
  /\ In(Switch) = {Up(n) : n \in Nodes}
  /\ Out(Switch) = {Down(n) : n \in Nodes}
  /\ \A m, n \in Nodes : /\ Up(m) # Down(n) /\ Up(m) \notin Out(Switch) /\ Down(m) \notin In(Switch)
                         /\ (Up(m) = Up(n) => m = n) /\ (Down(m) = Down(n) => m = n)
  /\ \A l \in Links : /\ \E n \in Nodes : l = Up(n) \/ l = Down(n)
                      /\ l[1] \in Peers /\ l[2] \in Peers
<1>1. Switch \notin Nodes
  BY DistAssumption, Zenon
<1>2. \A m, n \in Nodes : Up(m) # Down(n) /\ (Up(m) = Up(n) => m = n) /\ (Down(m) = Down(n) => m = n)
  BY <1>1, Zenon DEF Up, Down
<1>3. \A n \in Nodes : /\ Up(n) \in Links /\ Down(n) \in Links
                       /\ Up(n)[1] = n /\ Up(n)[2] = Switch
                       /\ Down(n)[1] = Switch /\ Down(n)[2] = n
  BY Zenon DEF Up, Down, Links
<1>4. \A l \in Links : \E n \in Nodes : l = Up(n) \/ l = Down(n)
  BY DEF Up, Down, Links
<1>5. \A n \in Nodes : In(n) = {Down(n)} /\ Out(n) = {Up(n)}
  BY <1>1, <1>3, <1>4 DEF In, Out
<1>6. In(Switch) = {Up(n) : n \in Nodes}
  BY <1>1, <1>3, <1>4 DEF In
<1>7. Out(Switch) = {Down(n) : n \in Nodes}
  BY <1>1, <1>3, <1>4 DEF Out
<1>8. \A l \in Links : l[1] \in Peers /\ l[2] \in Peers
  BY <1>3, <1>4 DEF Peers
<1>9. \A m \in Nodes : Up(m) \notin Out(Switch) /\ Down(m) \notin In(Switch)
  BY <1>2, <1>6, <1>7, Zenon
<1> QED
  BY <1>2, <1>3, <1>4, <1>5, <1>6, <1>7, <1>8, <1>9, Zenon

----------------------------------------------------------------------------
(* Types *)

\* SyncNode::progress and SyncSwitch::progress on the fields.
LEMMA Progressed ==
  ASSUME NEW s \in SyncObject, NEW m \in Message, IsCmd(m)
  PROVE  /\ m.sendTick \in Nat /\ m.syncRepeat \in Nat
         /\ Counted(s, m) \in SyncObject
         /\ Counted(s, m).waitNum = s.waitNum - 1
         /\ Counted(s, m).nextAt = IF m.sendTick > s.nextAt THEN m.sendTick ELSE s.nextAt
         /\ Counted(s, m).isAbort = s.isAbort
         /\ Taken(s, m) \in SyncObject
         /\ Taken(s, m).waitNum = s.waitNum - 1
         /\ Taken(s, m).nextAt = m.sendTick
         /\ Taken(s, m).nextRepeat = m.syncRepeat
         /\ Taken(s, m).doCkpt = (m.ckpt # "none")
         /\ Taken(s, m).doExit = (m.exit # "none")
         /\ Taken(s, m).isAbort = s.isAbort
<1>1. m.sendTick \in Nat /\ m.syncRepeat \in Nat
  BY Zenon DEF Message, IsCmd
<1>2. /\ s.waitNum - 1 \in Int /\ s.nextAt \in Nat /\ s.nextRepeat \in Nat
      /\ s.doCkpt \in BOOLEAN /\ s.doExit \in BOOLEAN
      /\ DOMAIN s = {"waitNum", "nextAt", "nextRepeat", "doCkpt", "doExit", "isAbort"}
  BY DEF SyncObject
<1>3. /\ (IF m.sendTick > s.nextAt THEN m.sendTick ELSE s.nextAt) \in Nat
      /\ (IF m.syncRepeat < s.nextRepeat THEN m.syncRepeat ELSE s.nextRepeat) \in Nat
  BY <1>1, <1>2, Zenon
<1>4. /\ (s.doCkpt \/ m.ckpt = "immediate") \in BOOLEAN
      /\ (s.doExit \/ m.exit = "immediate") \in BOOLEAN
      /\ (m.ckpt # "none") \in BOOLEAN /\ (m.exit # "none") \in BOOLEAN
  BY Zenon
<1>5. Counted(s, m) \in SyncObject
  <2>1. PICK w \in Int : w = s.waitNum - 1
    BY <1>2, Zenon
  <2>2. PICK a \in Nat : a = IF m.sendTick > s.nextAt THEN m.sendTick ELSE s.nextAt
    BY <1>3, Zenon
  <2>3. PICK r \in Nat : r = IF m.syncRepeat < s.nextRepeat THEN m.syncRepeat ELSE s.nextRepeat
    BY <1>3, Zenon
  <2>4. PICK c \in BOOLEAN : c = (s.doCkpt \/ m.ckpt = "immediate")
    BY <1>4, Zenon
  <2>5. PICK e \in BOOLEAN : e = (s.doExit \/ m.exit = "immediate")
    BY <1>4, Zenon
  <2>6. Counted(s, m) = [s EXCEPT !.waitNum = w, !.nextAt = a, !.nextRepeat = r,
                                  !.doCkpt = c, !.doExit = e]
    BY <2>1, <2>2, <2>3, <2>4, <2>5, Zenon DEF Counted
  <2> QED
    BY <2>6, Zenon DEF SyncObject
<1>6. Taken(s, m) \in SyncObject
  <2>1. PICK w \in Int : w = s.waitNum - 1
    BY <1>2, Zenon
  <2>2. PICK c \in BOOLEAN : c = (m.ckpt # "none")
    BY <1>4, Zenon
  <2>3. PICK e \in BOOLEAN : e = (m.exit # "none")
    BY <1>4, Zenon
  <2>4. Taken(s, m) = [s EXCEPT !.waitNum = w, !.nextAt = m.sendTick,
                                !.nextRepeat = m.syncRepeat, !.doCkpt = c, !.doExit = e]
    BY <2>1, <2>2, <2>3, Zenon DEF Taken
  <2> QED
    BY <1>1, <2>4, Zenon DEF SyncObject
<1>7. /\ Counted(s, m).waitNum = s.waitNum - 1
      /\ Counted(s, m).nextAt = IF m.sendTick > s.nextAt THEN m.sendTick ELSE s.nextAt
      /\ Counted(s, m).isAbort = s.isAbort
  BY <1>2, Zenon DEF Counted
<1>8. /\ Taken(s, m).waitNum = s.waitNum - 1
      /\ Taken(s, m).nextAt = m.sendTick
      /\ Taken(s, m).nextRepeat = m.syncRepeat
      /\ Taken(s, m).isAbort = s.isAbort
  BY <1>2, Zenon DEF Taken
<1>9. Taken(s, m).doCkpt = (m.ckpt # "none") /\ Taken(s, m).doExit = (m.exit # "none")
  BY <1>2, Zenon DEF Taken
<1> QED
  BY <1>1, <1>5, <1>6, <1>7, <1>8, <1>9, Zenon

\* Sending keeps the type of the channels.
LEMMA SendTypes ==
  ASSUME TypeInv, NEW ls, NEW m \in Message, Send(ls, m)
  PROVE  chan' \in [Links -> Seq(Message)]
BY DEF TypeInv, Send

\* Sync::run keeps the types.
LEMMA RunTypes ==
  ASSUME TypeInv, NEW p \in Peers, NEW loc \in Locations, Run(p, loc)
  PROVE  /\ pc' \in [Peers -> Locations] /\ sync' \in [Peers -> SyncObject]
         /\ need' \in [Nodes -> [ckpt : Requests, exit : Requests]]
         /\ chan' \in [Links -> Seq(Message)]
<1>1. "ending" \in Locations
  BY Zenon DEF Locations
<1>2. CASE Goto(p, loc) /\ UNCHANGED <<sync, need, chan>>
  BY <1>2, Zenon DEF TypeInv, Goto
<1>3. CASE p \in Nodes /\ NodeRun(p, loc) /\ sync[p].isAbort
  BY <1>1, <1>3, Zenon DEF TypeInv, NodeRun, Goto
<1>4. CASE p \in Nodes /\ NodeRun(p, loc) /\ ~sync[p].isAbort
  <2> DEFINE m == [type |-> "cmdSyncReq", sendTick |-> curTick[p],
                   syncRepeat |-> sync[p].nextRepeat,
                   ckpt |-> need[p].ckpt, exit |-> need[p].exit]
  <2>1. m \in Message
    BY <1>4, Zenon DEF TypeInv, Message, SyncObject
  <2>2. Goto(p, loc) /\ Send(Out(p), m) /\ sync' = [sync EXCEPT ![p].waitNum = 1]
    BY <1>4, Zenon DEF NodeRun
  <2>3. need' = [need EXCEPT ![p] = [ckpt |-> Sent(@.ckpt), exit |-> Sent(@.exit)]]
    BY <1>4, Zenon DEF NodeRun
  <2> HIDE DEF m
  <2>4. chan' \in [Links -> Seq(Message)]
    BY <2>1, <2>2, SendTypes, Zenon
  <2>5. need' \in [Nodes -> [ckpt : Requests, exit : Requests]]
    BY <1>4, <2>3, Zenon DEF TypeInv, Sent, Requests
  <2>6. sync' \in [Peers -> SyncObject]
    <3>1. PICK s \in SyncObject : s = sync[p]
      BY Zenon DEF TypeInv
    <3>2. [s EXCEPT !.waitNum = 1] \in SyncObject
      BY DEF SyncObject
    <3>3. sync' = [sync EXCEPT ![p] = [s EXCEPT !.waitNum = 1]]
      BY <2>2, <3>1, Zenon
    <3> QED
      BY <3>2, <3>3, Zenon DEF TypeInv
  <2> QED
    BY <2>2, <2>4, <2>5, <2>6, Zenon DEF Goto, TypeInv
<1> QED
  BY <1>2, <1>3, <1>4, Zenon DEF Run

\* What comes after the answer keeps the types.
LEMMA AfterTypes ==
  ASSUME TypeInv, NEW p \in Peers,
         AfterStart(p) \/ AfterSync(p) \/ AfterDrain(p) \/ AfterAbort(p)
  PROVE  /\ pc' \in [Peers -> Locations] /\ sync' \in [Peers -> SyncObject]
         /\ when' \in [Peers -> Nat] /\ repeat' \in [Peers -> Nat]
<1>1. {"ending", "run", "drain"} \subseteq Locations
  BY Zenon DEF Locations, Idle
<1>2. sync[p].nextRepeat \in Nat /\ sync[p].nextAt \in Nat
  BY Zenon DEF TypeInv, SyncObject
<1>3. CASE AfterStart(p)
  BY <1>1, <1>2, <1>3, Zenon DEF TypeInv, AfterStart, Goto
<1>4. CASE AfterSync(p)
  <2>1. CASE sync[p].doExit \/ leaving[p]
    BY <1>1, <1>4, <2>1, Zenon DEF TypeInv, AfterSync, Goto
  <2>2. CASE ~(sync[p].doExit \/ leaving[p])
    <3>1. /\ Goto(p, StopsFor(p)) /\ sync' = sync
          /\ repeat' = [repeat EXCEPT ![p] = sync[p].nextRepeat]
          /\ when' = [when EXCEPT ![p] = curTick[p] + repeat'[p]]
      BY <1>4, <2>2, Zenon DEF AfterSync
    <3>2. repeat' \in [Peers -> Nat]
      BY <1>2, <3>1, Zenon DEF TypeInv
    <3>3. curTick[p] + repeat'[p] \in Nat
      BY <3>2 DEF TypeInv
    <3> QED
      BY <1>1, <3>1, <3>2, <3>3, Zenon DEF TypeInv, Goto, StopsFor
  <2> QED
    BY <2>1, <2>2, Zenon
<1>5. CASE AfterDrain(p)
  BY <1>1, <1>5, Zenon DEF TypeInv, AfterDrain, Goto, SyncObject
<1>6. CASE AfterAbort(p)
  BY <1>1, <1>5, <1>6, Zenon DEF TypeInv, AfterAbort, Goto
<1> QED
  BY <1>3, <1>4, <1>5, <1>6, Zenon

\* Types are kept.
LEMMA NextTypes == TypeInv /\ [Next]_vars => TypeInv'
<1> SUFFICES ASSUME TypeInv, [Next]_vars PROVE TypeInv'
  BY Zenon
<1>0. {"starting", "syncing", "draining", "ending", "exit", "started", "synced", "drained"} \subseteq Locations
  BY Zenon DEF Locations, Waiting
<1>1. CASE UNCHANGED vars
  BY <1>1, Zenon DEF vars, TypeInv
<1>2. ASSUME NEW p \in Peers, Start(p) \/ Process(p) \/ Drained(p)
      PROVE  TypeInv'
  <2>1. CASE Process(p) /\ pc[p] = "drain"
    BY <1>0, <2>1, Zenon DEF Process, Goto, TypeInv, time
  <2>2. PICK loc \in Locations : Run(p, loc) \/ (Process(p) /\ pc[p] = "drain")
    BY <1>0, <1>2, Zenon DEF Start, Process, Drained
  <2>3. /\ curTick' = curTick /\ when' = when /\ num' = num
        /\ repeat' = repeat \/ repeat' = [repeat EXCEPT ![p] = sync[p].nextRepeat]
    BY <1>2, Zenon DEF Start, Process, Drained, time
  <2>4. repeat' \in [Peers -> Nat]
    BY <2>3, Zenon DEF TypeInv, SyncObject
  <2> QED
    BY <2>1, <2>2, <2>3, <2>4, RunTypes, Zenon DEF TypeInv
<1>3. ASSUME NEW p \in Peers, Quit(p) \/ BrokenPipe(p) \/ Close(p) \/ Crash(p)
      PROVE  TypeInv'
  <2>1. CASE Quit(p) \/ BrokenPipe(p)
    BY <1>0, <2>1, Zenon DEF Quit, BrokenPipe, Goto, TypeInv, time, requests
  <2>2. CASE Close(p) \/ Crash(p)
    <3>1. chan' \in [Links -> Seq(Message)]
      <4>1. <<>> \in Seq(Message)
        OBVIOUS
      <4> QED
        BY <2>2, <4>1, Zenon DEF Close, Crash, Gone, TypeInv
    <3> QED
      BY <1>0, <2>2, <3>1, Zenon DEF Close, Crash, Gone, Goto, TypeInv, time, requests
  <2> QED
    BY <1>3, <2>1, <2>2, Zenon
<1>4. ASSUME NEW p \in Peers, Advance(p) PROVE TypeInv'
  BY <1>4 DEF Advance, TypeInv, requests
<1>5. ASSUME NEW n \in Nodes, NodeDone(n) PROVE TypeInv'
  <2>1. n \in Peers
    BY Zenon DEF Peers
  <2> QED
    BY <1>5, <2>1, AfterTypes, Zenon DEF NodeDone, TypeInv, requests
<1>6. CASE SwitchGoesOn
  <2>1. Switch \in Peers
    BY Zenon DEF Peers
  <2> QED
    BY <1>6, <2>1, AfterTypes, Zenon DEF SwitchGoesOn, TypeInv, requests
<1>7. CASE SwitchDone
  <2> DEFINE s == sync[Switch]
             ckpt == s.doCkpt \/ num.ckpt = Cardinality(Nodes)
             exit == s.doExit \/ num.exit = Cardinality(Nodes)
             m == [type |-> "cmdSyncAck", sendTick |-> s.nextAt, syncRepeat |-> s.nextRepeat,
                   ckpt |-> IF ckpt THEN "immediate" ELSE "none",
                   exit |-> IF exit THEN "immediate" ELSE "none"]
  <2>0. Switch \in Peers
    BY Zenon DEF Peers
  <2>1. curTick' = curTick /\ when' = when /\ repeat' = repeat /\ need' = need
    BY <1>7, Zenon DEF SwitchDone, time
  <2>2. CASE Goto(Switch, "ending") /\ UNCHANGED <<sync, num, chan>>
    BY <1>0, <2>1, <2>2, Zenon DEF Goto, TypeInv
  <2>3. CASE /\ Goto(Switch, Answered[pc[Switch]])
             /\ sync' = [sync EXCEPT ![Switch] = [@ EXCEPT !.waitNum = Cardinality(Nodes),
                                                          !.doCkpt = ckpt, !.doExit = exit]]
             /\ num' = [num EXCEPT !.ckpt = IF ckpt THEN 0 ELSE @]
             /\ Send(Out(Switch), m)
    <3>1. m \in Message
      BY <2>0, Zenon DEF Message, TypeInv, SyncObject, Requests
    <3>2. Cardinality(Nodes) \in Nat
      BY DistAssumption, FS_CardinalityType, Zenon
    <3>3. sync' \in [Peers -> SyncObject]
      <4>1. s \in SyncObject /\ ckpt \in BOOLEAN /\ exit \in BOOLEAN /\ Cardinality(Nodes) \in Int
        BY <2>0, <3>2 DEF TypeInv
      <4> HIDE DEF ckpt, exit, m
      <4>2. [s EXCEPT !.waitNum = Cardinality(Nodes), !.doCkpt = ckpt, !.doExit = exit] \in SyncObject
        BY <4>1, Zenon DEF SyncObject
      <4> QED
        BY <2>3, <4>2, Zenon DEF TypeInv
    <3>4. num' \in [ckpt : Nat, exit : Nat]
      BY <2>3, Zenon DEF TypeInv
    <3>5. pc[Switch] \in Waiting /\ Answered[pc[Switch]] \in Locations
      BY <1>0, <1>7 DEF SwitchDone, Waiting, Answered
    <3>6. pc' \in [Peers -> Locations]
      BY <2>3, <3>5, Zenon DEF Goto, TypeInv
    <3> HIDE DEF m
    <3>7. chan' \in [Links -> Seq(Message)]
      BY <2>3, <3>1, SendTypes, Zenon
    <3> QED
      BY <2>1, <3>3, <3>4, <3>6, <3>7, Zenon DEF TypeInv
  <2> QED
    BY <1>7, <2>2, <2>3, Zenon DEF SwitchDone
<1>8. ASSUME NEW l \in Links, PopPacket(l) PROVE TypeInv'
  BY <1>8, Zenon DEF PopPacket, TypeInv, time, requests
<1>9. ASSUME NEW n \in Nodes, RequestCkpt(n) \/ RequestExit(n) PROVE TypeInv'
  <2>1. need' \in [Nodes -> [ckpt : Requests, exit : Requests]]
    <3>1. PICK req \in {"immediate", "collective"} :
            \/ need' = [need EXCEPT ![n].ckpt = Ask(@, req)]
            \/ need' = [need EXCEPT ![n].exit = Ask(@, req)]
      BY <1>9, Zenon DEF RequestCkpt, RequestExit
    <3>2. /\ need[n] \in [ckpt : Requests, exit : Requests]
          /\ Ask(need[n].ckpt, req) \in Requests /\ Ask(need[n].exit, req) \in Requests
      BY Zenon DEF TypeInv, Ask, Requests
    <3>3. /\ [need[n] EXCEPT !.ckpt = Ask(need[n].ckpt, req)] \in [ckpt : Requests, exit : Requests]
          /\ [need[n] EXCEPT !.exit = Ask(need[n].exit, req)] \in [ckpt : Requests, exit : Requests]
      BY <3>2, Zenon
    <3>4. \/ need' = [need EXCEPT ![n] = [need[n] EXCEPT !.ckpt = Ask(need[n].ckpt, req)]]
          \/ need' = [need EXCEPT ![n] = [need[n] EXCEPT !.exit = Ask(need[n].exit, req)]]
      BY <3>1, Zenon
    <3> QED
      BY <3>3, <3>4, Zenon DEF TypeInv
  <2> QED
    BY <1>9, <2>1, Zenon DEF RequestCkpt, RequestExit, TypeInv, time
<1>10. ASSUME NEW l \in Traffic, PacketOut(l) PROVE TypeInv'
  <2>1. PICK d \in SendDelays : Send({l}, [type |-> "dataDescriptor", sendTick |-> curTick[l[1]], sendDelay |-> d])
    BY <1>10, Zenon DEF PacketOut
  <2>2. CASE l \in Links
    <3>1. [type |-> "dataDescriptor", sendTick |-> curTick[l[1]], sendDelay |-> d] \in Message
      BY <2>2, LinksOf, DistAssumption, Zenon DEF TypeInv, Message
    <3>2. chan' \in [Links -> Seq(Message)]
      BY <2>1, <3>1, SendTypes, Zenon
    <3> QED
      BY <1>10, <3>2, Zenon DEF PacketOut, TypeInv, time, requests
  <2>3. CASE l \notin Links
    <3>1. chan' \in [Links -> Seq(Message)]
      BY <2>1, <2>3, Zenon DEF Send, TypeInv
    <3> QED
      BY <1>10, <3>1, Zenon DEF PacketOut, TypeInv, time, requests
  <2> QED
    BY <2>2, <2>3, Zenon
<1>11. ASSUME NEW l \in Links, Receive(l) PROVE TypeInv'
  <2>1. chan[l] \in Seq(Message) /\ chan[l] # <<>> /\ l[2] \in Peers
    BY <1>11, LinksOf, Zenon DEF Receive, TypeInv
  <2>2. PICK m \in Message : m = Head(chan[l])
    BY <2>1
  <2>3. chan' \in [Links -> Seq(Message)]
    BY <1>11, <2>1 DEF Receive, TypeInv
  <2>4. pc' = pc /\ curTick' = curTick /\ when' = when /\ repeat' = repeat /\ need' = need
    BY <1>11, Zenon DEF Receive, time
  <2>5. CASE PushPacket(l) \/ ProgressAborted(l)
    BY <2>3, <2>4, <2>5, Zenon DEF PushPacket, ProgressAborted, TypeInv
  <2>6. CASE SwitchProgress(l)
    <3>1. m.type = "cmdSyncReq" /\ sync' = [sync EXCEPT ![Switch] = Counted(@, m)]
      BY <2>2, <2>6, Zenon DEF SwitchProgress
    <3>2. num' = [ckpt |-> num.ckpt + Collective(m.ckpt), exit |-> num.exit + Collective(m.exit)]
      BY <2>2, <2>6, Zenon DEF SwitchProgress
    <3>3. m.sendTick \in Nat /\ m.syncRepeat \in Nat
      BY <3>1, Zenon DEF Message
    <3>4. Counted(sync[Switch], m) \in SyncObject
      <4>1. sync[Switch] \in SyncObject
        BY Zenon DEF TypeInv, Peers
      <4> QED
        BY <3>1, <4>1, Progressed, Zenon DEF IsCmd
    <3>5. sync' \in [Peers -> SyncObject]
      BY <3>1, <3>4, Zenon DEF TypeInv
    <3>6. num' \in [ckpt : Nat, exit : Nat]
      BY <3>2 DEF TypeInv, Collective
    <3> QED
      BY <2>3, <2>4, <3>5, <3>6, Zenon DEF TypeInv
  <2>7. CASE NodeProgress(l)
    <3>1. m.type = "cmdSyncAck" /\ sync' = [sync EXCEPT ![l[2]] = Taken(@, m)] /\ num' = num
      BY <2>2, <2>7, Zenon DEF NodeProgress
    <3>2. m.sendTick \in Nat /\ m.syncRepeat \in Nat
      BY <3>1, Zenon DEF Message
    <3>3. Taken(sync[l[2]], m) \in SyncObject
      <4>1. sync[l[2]] \in SyncObject
        BY <2>1, Zenon DEF TypeInv
      <4> QED
        BY <3>1, <4>1, Progressed, Zenon DEF IsCmd
    <3>4. sync' \in [Peers -> SyncObject]
      BY <3>1, <3>3, Zenon DEF TypeInv
    <3> QED
      BY <2>3, <2>4, <3>1, <3>4, Zenon DEF TypeInv
  <2> QED
    BY <1>11, <2>5, <2>6, <2>7, Zenon DEF Receive
<1>12. ASSUME NEW l \in Links, ConnectionLost(l) PROVE TypeInv'
  <2>1. sync' \in [Peers -> SyncObject]
    <3>1. PICK s \in SyncObject : s = sync[l[2]]
      BY LinksOf, Zenon DEF TypeInv
    <3>2. PICK w \in Int : w = 0
      OBVIOUS
    <3>3. [s EXCEPT !.waitNum = w, !.isAbort = TRUE] \in SyncObject
      BY Zenon DEF SyncObject
    <3>4. sync' = [sync EXCEPT ![l[2]] = [s EXCEPT !.waitNum = w, !.isAbort = TRUE]]
      BY <1>12, <3>1, <3>2, Zenon DEF ConnectionLost
    <3> QED
      BY <3>3, <3>4, Zenon DEF TypeInv
  <2> QED
    BY <1>12, <2>1, Zenon DEF ConnectionLost, TypeInv, time, requests
<1> QED
  BY <1>1, <1>2, <1>3, <1>4, <1>5, <1>6, <1>7, <1>8, <1>9, <1>10, <1>11, <1>12, Zenon
  DEF Next, Step, Thread, In

----------------------------------------------------------------------------
(* Rounds and the steps of nodes *)

\* A node that a step does not concern.
LEMMA NodeFrame ==
  ASSUME NEW n \in Nodes, NEW h \in Round, NodeInv(n, h),
         pc'[n] = pc[n], sync'[n] = sync[n], curTick'[n] = curTick[n], when'[n] = when[n],
         chan'[Up(n)] = chan[Up(n)], chan'[Down(n)] = chan[Down(n)],
         pc'[Switch] = "exit" <=> pc[Switch] = "exit",
         pc'[Switch] \in {"started", "synced", "drained"} =>
           pc[Switch] \in {"started", "synced", "drained"}
  PROVE  NodeInv(n, h)'
<1>1. Asked(n, h)' <=> Asked(n, h)
  BY Zenon DEF Asked
<1>2. Unread(n, h)' <=> Unread(n, h)
  BY Zenon DEF Unread, Lags
<1>3. Read(n, h)' <=> Read(n, h)
  BY Zenon DEF Read, Lags
<1>4. Simulates(n, h)' <=> Simulates(n, h)
  BY Zenon DEF Simulates
<1>5. Live(n)' <=> Live(n)
  BY Zenon DEF Live
<1>6. LiveInv(n, h)'
  BY <1>1, <1>2, <1>3, <1>4, <1>5, Zenon DEF NodeInv, LiveInv
<1>7. RequestInv(n, h)'
  BY <1>1, Zenon DEF NodeInv, RequestInv
<1>8. AnswerInv(n, h)'
  BY <1>2, <1>5, Zenon DEF NodeInv, AnswerInv
<1> QED
  BY <1>6, <1>7, <1>8, Zenon DEF NodeInv

\* A step of node n that leaves the other peers alone.
OnlyNode(n) ==
  /\ \A q \in Peers \ {n} : /\ pc'[q] = pc[q] /\ sync'[q] = sync[q]
                            /\ curTick'[q] = curTick[q] /\ when'[q] = when[q]
  /\ \A q \in Nodes \ {n} : chan'[Up(q)] = chan[Up(q)] /\ chan'[Down(q)] = chan[Down(q)]

\* Such a step keeps a round if it keeps it for the node.
LEMMA NodeStep ==
  ASSUME NEW n \in Nodes, NEW h \in Round, Explains(h), OnlyNode(n), NodeInv(n, h)'
  PROVE  Explains(h)'
<1>1. n # Switch /\ Switch \in Peers /\ Nodes \subseteq Peers
  BY DistAssumption, Zenon DEF Peers
<1>2. SwitchInv(h)'
  BY <1>1, Zenon DEF Explains, SwitchInv, OnlyNode
<1>3. RoundInv(h)'
  BY Zenon DEF Explains, RoundInv
<1>4. \A q \in Nodes \ {n} : NodeInv(q, h)'
  BY <1>1, NodeFrame, Zenon DEF Explains, OnlyNode
<1> QED
  BY <1>2, <1>3, <1>4, Zenon DEF Explains

\* A node outside a sync has no request and no answer under way.
LEMMA Outside ==
  ASSUME NEW n \in Nodes, NEW h \in Round, NodeInv(n, h), sync[n].waitNum = 0, pc[n] # "exit"
  PROVE  /\ Cmds(chan[Down(n)]) = {}
         /\ n \in h.counted \/ Cmds(chan[Up(n)]) # {} => sync[n].isAbort
         /\ Live(n) => Simulates(n, h) \/ Read(n, h)
BY DEF NodeInv, LiveInv, RequestInv, AnswerInv, Asked, Unread

\* A node ends.
LEMMA NodeEnds ==
  ASSUME TypeInv, NEW n \in Nodes, NEW h \in Round, Explains(h),
         sync[n].waitNum = 0, pc[n] # "exit",
         pc' = [pc EXCEPT ![n] = "ending"], sync' = sync, chan' = chan, curTick' = curTick,
         \A q \in Peers \ {n} : when'[q] = when[q]
  PROVE  Explains(h)'
<1>1. NodeInv(n, h) /\ n # Switch /\ n \in Peers /\ Switch \in Peers
  BY DistAssumption, Zenon DEF Explains, Peers
<1>2. pc'[n] = "ending" /\ \A q \in Peers \ {n} : pc'[q] = pc[q]
  BY <1>1, Zenon DEF TypeInv
<1>3. OnlyNode(n)
  BY <1>2, Zenon DEF OnlyNode
<1>4. ~Live(n)'
  BY <1>2, Zenon DEF Live
<1>5. LiveInv(n, h)'
  BY <1>4, Zenon DEF LiveInv
<1>6. pc'[Switch] = pc[Switch]
  BY <1>1, <1>2, Zenon
<1>7. RequestInv(n, h)'
  BY <1>1, <1>2, <1>6, Outside, Zenon DEF NodeInv, RequestInv, Waiting
<1>8. AnswerInv(n, h)'
  BY <1>1, <1>2, <1>6, Outside, Zenon DEF NodeInv, AnswerInv
<1>9. NodeInv(n, h)'
  BY <1>1, <1>2, <1>5, <1>6, <1>7, <1>8, Zenon DEF NodeInv, Idle
<1> QED
  BY <1>3, <1>9, NodeStep, Zenon

\* SyncNode::run sends the request of node n.
LEMMA NodeAsks ==
  ASSUME TypeInv, NEW n \in Nodes, NEW h \in Round, Explains(h),
         pc[n] \in Idle, pc[n] = "run" => curTick[n] = when[n],
         NodeRun(n, Wait(pc[n])), curTick' = curTick, when' = when
  PROVE  Explains(h)'
<1>1. NodeInv(n, h) /\ n # Switch /\ n \in Peers /\ Switch \in Peers
  BY DistAssumption, Zenon DEF Explains, Peers
<1>2. sync[n].waitNum = 0 /\ pc[n] # "exit"
  BY <1>1, Zenon DEF NodeInv, Idle
<1>3. CASE sync[n].isAbort
  BY <1>2, <1>3, NodeEnds, Zenon DEF NodeRun, Goto
<1>4. CASE ~sync[n].isAbort
  <2> DEFINE m == [type |-> "cmdSyncReq", sendTick |-> curTick[n],
                   syncRepeat |-> sync[n].nextRepeat,
                   ckpt |-> need[n].ckpt, exit |-> need[n].exit]
  <2>1. m \in Message /\ IsCmd(m) /\ m.type = "cmdSyncReq" /\ m.sendTick = curTick[n]
    BY <1>1, Zenon DEF TypeInv, Message, SyncObject, IsCmd
  <2>2. Goto(n, Wait(pc[n])) /\ Send(Out(n), m) /\ sync' = [sync EXCEPT ![n].waitNum = 1]
    BY <1>4, Zenon DEF NodeRun
  <2> HIDE DEF m
  <2>3. /\ chan' = [l \in Links |-> IF l = Up(n) /\ pc[Switch] # "exit"
                                    THEN Append(chan[l], m) ELSE chan[l]]
    BY <2>2, LinksOf DEF Send
  <2>4. /\ chan'[Up(n)] = IF pc[Switch] # "exit" THEN Append(chan[Up(n)], m) ELSE chan[Up(n)]
        /\ chan'[Down(n)] = chan[Down(n)]
        /\ \A q \in Nodes \ {n} : chan'[Up(q)] = chan[Up(q)] /\ chan'[Down(q)] = chan[Down(q)]
    BY <2>3, LinksOf, Zenon
  <2>5. /\ pc'[n] = Wait(pc[n]) /\ sync'[n].waitNum = 1 /\ ~sync'[n].isAbort
        /\ \A q \in Peers \ {n} : pc'[q] = pc[q] /\ sync'[q] = sync[q]
    BY <1>1, <1>4, <2>2, Zenon DEF TypeInv, Goto, SyncObject
  <2>6. OnlyNode(n)
    BY <2>4, <2>5, Zenon DEF OnlyNode
  <2>7. /\ Cmds(chan[Down(n)]) = {} /\ Cmds(chan[Up(n)]) = {} /\ n \notin h.counted
        /\ Simulates(n, h) \/ Read(n, h)
    BY <1>1, <1>2, <1>4, Outside, Zenon DEF Live, Idle
  <2>8. Simulates(n, h) /\ pc[n] = h.next
    BY <2>7, Zenon DEF Read, Lags, Simulates, Idle, Wait, Round
  <2>9. AskedAt(h, curTick[n]) /\ (h.next # "startup" => when[n] = h.at)
    <3>1. curTick[n] \in Nat /\ h.at \in Nat
      BY <1>1, Zenon DEF TypeInv, Round
    <3> QED
      BY <2>8, <3>1, Zenon DEF Simulates, AskedAt, Idle
  <2>10. Asked(n, h)'
    BY <2>4, <2>5, <2>7, <2>8, <2>9, Zenon DEF Asked, AskedAt
  <2>11. /\ One(chan'[Up(n)]) /\ Sealed(chan'[Up(n)])
         /\ Cmds(chan'[Up(n)]) = {} \/ Cmds(chan'[Up(n)]) = {m}
         /\ pc[Switch] = "exit" => chan'[Up(n)] = <<>>
    <3>1. CASE pc[Switch] = "exit"
      <4>1. chan'[Up(n)] = <<>>
        BY <1>1, <2>4, <3>1, Zenon DEF NodeInv, RequestInv
      <4> QED
        BY <4>1, EmptyChannel, Zenon
    <3>2. CASE pc[Switch] # "exit"
      <4>1. chan[Up(n)] \in Seq(Message)
        BY LinksOf, Zenon DEF TypeInv
      <4> QED
        BY <2>1, <2>4, <2>7, <3>2, <4>1, AppendCmd, Zenon
    <3> QED
      BY <3>1, <3>2, Zenon
  <2>12. pc'[Switch] = pc[Switch]
    BY <1>1, <2>5, Zenon
  <2>13. RequestInv(n, h)'
    BY <2>1, <2>7, <2>9, <2>10, <2>11, <2>12, Zenon DEF RequestInv, AskedAt
  <2>14. pc'[n] \notin Idle \cup {"exit"}
    BY <2>5, Zenon DEF Wait, Idle
  <2>15. AnswerInv(n, h)'
    BY <1>1, <2>4, <2>7, <2>12, <2>14, Zenon DEF NodeInv, AnswerInv
  <2>16. LiveInv(n, h)'
    BY <2>10, Zenon DEF LiveInv
  <2>17. NodeInv(n, h)'
    BY <2>5, <2>13, <2>14, <2>15, <2>16, Zenon DEF NodeInv, Idle
  <2> QED
    BY <2>6, <2>17, NodeStep, Zenon
<1> QED
  BY <1>3, <1>4, Zenon

\* Node n goes on after the answer, or advances its time: where it then is, it
\* is as the round says.
LEMMA NodeSimulates ==
  ASSUME TypeInv, NEW n \in Nodes, NEW h \in Round, Explains(h),
         sync[n].waitNum = 0, pc[n] \notin {"ending", "exit"},
         pc'[n] \in {"run", "drain"}, Live(n) => Simulates(n, h)',
         pc'[n] = "drain" => Live(n) \/ pc[n] = "drain",
         sync'[n].waitNum = 0, sync'[n].isAbort = sync[n].isAbort,
         \A q \in Peers \ {n} : /\ pc'[q] = pc[q] /\ sync'[q] = sync[q]
                                /\ curTick'[q] = curTick[q] /\ when'[q] = when[q],
         chan' = chan
  PROVE  Explains(h)'
<1>1. NodeInv(n, h) /\ n # Switch /\ n \in Peers /\ Switch \in Peers
  BY DistAssumption, Zenon DEF Explains, Peers
<1>2. OnlyNode(n) /\ pc'[Switch] = pc[Switch]
  BY <1>1, Zenon DEF OnlyNode
<1>3. pc'[n] \in Idle /\ pc'[n] \notin Waiting /\ pc'[n] # "exit"
  BY Zenon DEF Idle, Waiting
<1>4. Live(n)' <=> Live(n)
  BY Zenon DEF Live
<1>5. LiveInv(n, h)'
  BY <1>4, Zenon DEF LiveInv
<1>6. RequestInv(n, h)'
  BY <1>1, <1>2, <1>3, Outside, Zenon DEF NodeInv, RequestInv
<1>7. AnswerInv(n, h)'
  BY <1>1, <1>2, <1>3, Outside, Zenon DEF NodeInv, AnswerInv
<1>8. pc'[n] = "drain" => h.next = "drain"
  BY <1>1, Zenon DEF NodeInv, Simulates
<1>9. NodeInv(n, h)'
  BY <1>1, <1>2, <1>5, <1>6, <1>7, <1>8, Zenon DEF NodeInv
<1> QED
  BY <1>2, <1>9, NodeStep, Zenon

\* SyncNode::run returns.
LEMMA NodeGoesOn ==
  ASSUME TypeInv, NEW n \in Nodes, NEW h \in Round, Explains(h), NodeDone(n)
  PROVE  Explains(h)'
<1>1. /\ NodeInv(n, h) /\ RoundInv(h) /\ n # Switch /\ n \in Peers /\ Switch \in Peers
      /\ sync[n] \in SyncObject /\ curTick[n] \in Nat /\ h.at \in Nat /\ h.tick \in Nat
      /\ h.repeat \in Nat
  BY DistAssumption, Zenon DEF Explains, Peers, TypeInv, Round
<1>2. sync[n].waitNum = 0 /\ pc[n] \in Waiting /\ pc[n] \notin {"ending", "exit"} /\ curTick' = curTick /\ chan' = chan
  BY Zenon DEF NodeDone, Waiting
<1>3. CASE Goto(n, "ending") /\ UNCHANGED <<when, repeat, sync>>
  BY <1>2, <1>3, NodeEnds, Zenon DEF Goto
<1>4. CASE pc[n] = "draining" /\ AfterDrain(n)
  <2>1. /\ pc'[n] = "run" /\ when' = when
        /\ sync'[n].waitNum = 0 /\ sync'[n].isAbort = sync[n].isAbort
        /\ \A q \in Peers \ {n} : pc'[q] = pc[q] /\ sync'[q] = sync[q]
    BY <1>1, <1>2, <1>4, Zenon DEF AfterDrain, Goto, TypeInv, SyncObject
  <2>2. ASSUME Live(n), pc[n] = "draining" PROVE Simulates(n, h)'
    <3>1. Read(n, h)
      BY <1>1, <1>2, <2>2, Outside, Zenon DEF Simulates, Waiting, Round, Idle
    <3>2. h.last = "drain" /\ h.next = "run" /\ when[n] = h.at /\ curTick[n] <= h.at
      BY <1>1, <2>2, <3>1, Zenon DEF Read, Lags, Wait, RoundInv, Round, Idle
    <3> QED
      BY <1>2, <2>1, <3>2, Zenon DEF Simulates
  <2> QED
    BY <1>2, <1>4, <2>1, <2>2, NodeSimulates, Zenon
<1>5. CASE pc[n] = "starting" /\ ~sync[n].isAbort /\ AfterStart(n)
  <2>1. CASE sync[n].doCkpt \/ sync[n].doExit
    BY <1>3, <1>5, <2>1, Zenon DEF AfterStart
  <2>2. CASE ~(sync[n].doCkpt \/ sync[n].doExit)
    <3>1. /\ pc'[n] = "run" /\ when'[n] = sync[n].nextAt /\ sync' = sync
          /\ \A q \in Peers \ {n} : pc'[q] = pc[q] /\ when'[q] = when[q]
      BY <1>1, <1>5, <2>2, Zenon DEF AfterStart, Goto, TypeInv
    <3>2. Read(n, h)
      BY <1>1, <1>2, <1>5, Outside, Zenon DEF Simulates, Live, Round, Idle
    <3>3. h.last = "startup" /\ h.next = "run" /\ sync[n].nextAt = h.at /\ curTick[n] = 0
      BY <1>1, <1>5, <3>2, Zenon DEF Read, Lags, Wait, RoundInv, Round, Idle
    <3>4. Simulates(n, h)'
      BY <1>1, <1>2, <3>1, <3>3 DEF Simulates
    <3> QED
      BY <1>2, <3>1, <3>4, NodeSimulates, Zenon DEF Live
  <2> QED
    BY <2>1, <2>2, Zenon
<1>6. CASE pc[n] = "syncing" /\ ~sync[n].isAbort /\ AfterSync(n)
  <2>1. CASE sync[n].doExit \/ leaving[n]
    BY <1>3, <1>6, <2>1, Zenon DEF AfterSync
  <2>2. CASE ~(sync[n].doExit \/ leaving[n])
    <3>1. /\ pc'[n] = StopsFor(n) /\ sync' = sync
          /\ when'[n] = curTick[n] + sync[n].nextRepeat
          /\ \A q \in Peers \ {n} : pc'[q] = pc[q] /\ when'[q] = when[q]
      BY <1>1, <1>6, <2>2, Zenon DEF AfterSync, Goto, TypeInv
    <3>2. Read(n, h) /\ Live(n)
      BY <1>1, <1>2, <1>6, Outside, Zenon DEF Simulates, Live, Round, Idle
    <3>3. /\ h.last = "run" /\ h.next = StopsFor(n) /\ curTick[n] = h.tick
          /\ sync[n].nextRepeat = h.repeat /\ h.at = h.tick + h.repeat
      BY <1>1, <1>6, <3>2, Zenon DEF Read, Lags, Wait, RoundInv, Round, Idle, StopsFor
    <3>4. Simulates(n, h)'
      BY <1>1, <1>2, <3>1, <3>3 DEF Simulates, StopsFor
    <3> QED
      BY <1>2, <3>1, <3>2, <3>4, NodeSimulates, Zenon DEF StopsFor
  <2> QED
    BY <2>1, <2>2, Zenon
<1> QED
  BY <1>3, <1>4, <1>5, <1>6, Zenon DEF NodeDone, AfterAbort

\* Node n advances its time.
LEMMA NodeAdvances ==
  ASSUME TypeInv, NEW n \in Nodes, NEW h \in Round, Explains(h), Advance(n)
  PROVE  Explains(h)'
<1>1. /\ NodeInv(n, h) /\ n \in Peers /\ pc[n] \in {"run", "drain"}
      /\ curTick[n] \in Nat /\ when[n] \in Nat /\ curTick[n] < when[n]
  BY Zenon DEF Explains, Peers, TypeInv, Advance, Simulating
<1>2. /\ pc' = pc /\ when' = when /\ sync' = sync /\ chan' = chan
      /\ curTick'[n] = curTick[n] + 1 /\ \A q \in Peers \ {n} : curTick'[q] = curTick[q]
  BY <1>1, Zenon DEF Advance, TypeInv
<1>3. sync[n].waitNum = 0
  BY <1>1, Zenon DEF NodeInv, Idle
<1>4. ASSUME Live(n) PROVE Simulates(n, h)'
  <2>1. Simulates(n, h)
    BY <1>1, <1>3, <1>4, Outside, Zenon DEF Read, Lags, Wait, Round, Idle
  <2>2. h.next # "startup"
    BY <1>1, <2>1, Zenon DEF Simulates
  <2> QED
    BY <1>1, <1>2, <2>1, <2>2 DEF Simulates
<1> QED
  BY <1>1, <1>2, <1>3, <1>4, NodeSimulates, Zenon

\* Node n is gone.
LEMMA NodeGone ==
  ASSUME TypeInv, NEW n \in Nodes, NEW h \in Round, Explains(h), Gone(n)
  PROVE  Explains(h)'
<1>1. NodeInv(n, h) /\ n # Switch /\ n \in Peers /\ Switch \in Peers
  BY DistAssumption, Zenon DEF Explains, Peers
<1>2. /\ pc'[n] = "exit" /\ \A q \in Peers \ {n} : pc'[q] = pc[q]
      /\ sync' = sync /\ curTick' = curTick /\ when' = when
  BY <1>1, Zenon DEF Gone, Goto, TypeInv, time
<1>3. chan' = [l \in Links |-> IF l = Down(n) THEN <<>> ELSE chan[l]]
  BY LinksOf, Zenon DEF Gone
<1>4. /\ chan'[Up(n)] = chan[Up(n)] /\ chan'[Down(n)] = <<>>
      /\ \A q \in Nodes \ {n} : chan'[Up(q)] = chan[Up(q)] /\ chan'[Down(q)] = chan[Down(q)]
  BY <1>3, LinksOf, Zenon
<1>5. OnlyNode(n) /\ pc'[Switch] = pc[Switch]
  BY <1>1, <1>2, <1>4, Zenon DEF OnlyNode
<1>6. LiveInv(n, h)'
  BY <1>2, Zenon DEF LiveInv, Live
<1>7. RequestInv(n, h)'
  BY <1>1, <1>2, <1>4, <1>5, Zenon DEF NodeInv, RequestInv, Waiting
<1>8. AnswerInv(n, h)'
  BY <1>4, EmptyChannel, Zenon DEF AnswerInv
<1>9. NodeInv(n, h)'
  BY <1>1, <1>2, <1>5, <1>6, <1>7, <1>8, Zenon DEF NodeInv, Idle
<1> QED
  BY <1>5, <1>9, NodeStep, Zenon

\* Node n loses its connection: the switch is gone.
LEMMA NodeAborts ==
  ASSUME TypeInv, NEW n \in Nodes, NEW h \in Round, Explains(h), ConnectionLost(Down(n))
  PROVE  Explains(h)'
<1>1. NodeInv(n, h) /\ n # Switch /\ n \in Peers /\ Switch \in Peers
  BY DistAssumption, Zenon DEF Explains, Peers
<1>2. /\ pc' = pc /\ curTick' = curTick /\ when' = when /\ chan' = chan
      /\ pc[n] # "exit" /\ chan[Down(n)] = <<>> /\ pc[Switch] = "exit"
      /\ sync' = [sync EXCEPT ![n] = [@ EXCEPT !.waitNum = 0, !.isAbort = TRUE]]
  BY <1>1, LinksOf, Zenon DEF ConnectionLost, time
<1>3. /\ sync'[n].waitNum = 0 /\ sync'[n].isAbort
      /\ \A q \in Peers \ {n} : sync'[q] = sync[q]
  BY <1>1, <1>2, Zenon DEF TypeInv, SyncObject
<1>4. OnlyNode(n)
  BY <1>2, <1>3, Zenon DEF OnlyNode
<1>5. LiveInv(n, h)'
  BY <1>3, Zenon DEF LiveInv, Live
<1>6. RequestInv(n, h)'
  BY <1>1, <1>2, <1>3, Zenon DEF NodeInv, RequestInv
<1>7. AnswerInv(n, h)'
  BY <1>2, EmptyChannel, Zenon DEF AnswerInv
<1>8. NodeInv(n, h)'
  BY <1>1, <1>2, <1>3, <1>5, <1>6, <1>7, Zenon DEF NodeInv
<1> QED
  BY <1>4, <1>8, NodeStep, Zenon

----------------------------------------------------------------------------
(* Rounds and the steps of the switch *)

\* The switch moves without answering.
LEMMA SwitchMoves ==
  ASSUME NEW h \in Round, Explains(h),
         \A n \in Nodes : /\ pc'[n] = pc[n] /\ sync'[n] = sync[n]
                          /\ curTick'[n] = curTick[n] /\ when'[n] = when[n],
         chan' = chan, pc[Switch] # "exit",
         pc'[Switch] \notin {"exit", "started", "synced", "drained"} \/ pc'[Switch] = pc[Switch],
         sync'[Switch].isAbort = sync[Switch].isAbort,
         sync'[Switch].waitNum = sync[Switch].waitNum,
         sync'[Switch].nextAt = sync[Switch].nextAt
  PROVE  Explains(h)'
<1>1. SwitchInv(h)'
  BY Zenon DEF Explains, SwitchInv
<1>2. \A n \in Nodes : NodeInv(n, h)'
  BY NodeFrame, Zenon DEF Explains
<1> QED
  BY <1>1, <1>2, Zenon DEF Explains, RoundInv

\* The switch is gone.
LEMMA SwitchGone ==
  ASSUME TypeInv, NEW h \in Round, Explains(h), Gone(Switch)
  PROVE  Explains(h)'
<1>1. /\ pc'[Switch] = "exit" /\ \A n \in Nodes : pc'[n] = pc[n]
      /\ sync' = sync /\ curTick' = curTick /\ when' = when
  BY DistAssumption, Zenon DEF Gone, Goto, TypeInv, time, Peers
<1>2. \A n \in Nodes : chan'[Up(n)] = <<>> /\ chan'[Down(n)] = chan[Down(n)]
  BY LinksOf, Zenon DEF Gone
<1>3. ASSUME NEW n \in Nodes PROVE NodeInv(n, h)'
  <2>1. NodeInv(n, h)
    BY Zenon DEF Explains
  <2>2. Asked(n, h)' <=> Asked(n, h)
    BY <1>1, <1>2, Zenon DEF Asked
  <2>3. Unread(n, h)' <=> Unread(n, h)
    BY <1>1, <1>2, Zenon DEF Unread, Lags
  <2>4. /\ Read(n, h)' <=> Read(n, h)
        /\ Simulates(n, h)' <=> Simulates(n, h)
        /\ Live(n)' <=> Live(n)
    BY <1>1, Zenon DEF Read, Lags, Simulates, Live
  <2>5. LiveInv(n, h)'
    BY <2>1, <2>2, <2>3, <2>4, Zenon DEF NodeInv, LiveInv
  <2>6. RequestInv(n, h)'
    BY <1>1, <1>2, <2>1, <2>2, EmptyChannel, Zenon DEF NodeInv, RequestInv
  <2>7. AnswerInv(n, h)'
    BY <1>1, <1>2, <2>1, <2>3, <2>4, Zenon DEF NodeInv, AnswerInv
  <2> QED
    BY <1>1, <2>1, <2>5, <2>6, <2>7, Zenon DEF NodeInv
<1>4. SwitchInv(h)'
  BY <1>1, Zenon DEF Explains, SwitchInv
<1> QED
  BY <1>3, <1>4, Zenon DEF Explains, RoundInv

\* The switch loses a connection.
LEMMA SwitchAborts ==
  ASSUME TypeInv, NEW n \in Nodes, NEW h \in Round, Explains(h), ConnectionLost(Up(n))
  PROVE  Explains(h)'
<1>1. n # Switch /\ n \in Peers /\ Switch \in Peers /\ Nodes \subseteq Peers \ {Switch}
  BY DistAssumption, Zenon DEF Peers
<1>2. /\ pc' = pc /\ curTick' = curTick /\ when' = when /\ chan' = chan
      /\ sync' = [sync EXCEPT ![Switch] = [@ EXCEPT !.waitNum = 0, !.isAbort = TRUE]]
  BY <1>1, LinksOf, Zenon DEF ConnectionLost, time
<1>3. sync'[Switch].isAbort /\ \A q \in Peers \ {Switch} : sync'[q] = sync[q]
  BY <1>1, <1>2, Zenon DEF TypeInv, SyncObject
<1>4. SwitchInv(h)'
  BY <1>3, Zenon DEF SwitchInv
<1>5. \A q \in Nodes : NodeInv(q, h)'
  BY <1>1, <1>2, <1>3, NodeFrame, Zenon DEF Explains
<1> QED
  BY <1>4, <1>5, Zenon DEF Explains, RoundInv

\* The switch answers: everybody's request has been counted, and the next
\* round begins.
LEMMA SwitchAnswers ==
  ASSUME TypeInv, NEW h \in Round, Explains(h), SwitchDone
  PROVE  \E g \in Round : Explains(g)'
<1> DEFINE s == sync[Switch]
           c == s.doCkpt \/ num.ckpt = Cardinality(Nodes)
           e == s.doExit \/ num.exit = Cardinality(Nodes)
           m == [type |-> "cmdSyncAck", sendTick |-> s.nextAt, syncRepeat |-> s.nextRepeat,
                 ckpt |-> Granted(c), exit |-> Granted(e)]
<1>0. Switch \in Peers /\ Nodes \subseteq Peers \ {Switch} /\ s \in SyncObject
  BY DistAssumption, Zenon DEF Peers, TypeInv
<1>1. /\ pc[Switch] \in Waiting /\ s.waitNum = 0 /\ ~s.isAbort
      /\ curTick' = curTick /\ when' = when
  BY Zenon DEF SwitchDone, time
<1>2. CASE Goto(Switch, "ending") /\ UNCHANGED <<sync, num, chan>>
  <2>1. pc'[Switch] = "ending" /\ \A n \in Nodes : pc'[n] = pc[n]
    BY <1>0, <1>2, Zenon DEF Goto, TypeInv
  <2> QED
    BY <1>1, <1>2, <2>1, SwitchMoves, Zenon DEF Waiting
<1>3. CASE /\ Goto(Switch, Answered[pc[Switch]])
           /\ sync' = [sync EXCEPT ![Switch] = [@ EXCEPT !.waitNum = Cardinality(Nodes),
                                                        !.doCkpt = c, !.doExit = e]]
           /\ Send(Out(Switch), m)
  <2>1. /\ IsFiniteSet(Nodes) /\ Nodes # {} /\ Cardinality(Nodes) \in Nat
        /\ h.counted \in SUBSET Nodes
    BY DistAssumption, FS_CardinalityType, Zenon DEF Round
  <2>2. h.counted = Nodes
    <3>1. 0 = Cardinality(Nodes) - Cardinality(h.counted)
      BY <1>1, Zenon DEF Explains, SwitchInv
    <3>2. IsFiniteSet(h.counted) /\ Cardinality(h.counted) \in Nat
      BY <2>1, FS_Subset, FS_CardinalityType, Zenon
    <3>3. Cardinality(Nodes) = Cardinality(h.counted)
      BY <2>1, <3>1, <3>2
    <3> QED
      BY <2>1, <3>3, FS_Subset, Zenon
  <2>3. c \in BOOLEAN /\ e \in BOOLEAN /\ s.nextAt \in Nat /\ s.nextRepeat \in Nat
    BY <1>0, Zenon DEF SyncObject
  <2>4. /\ h.next \in Idle /\ h.at \in Nat /\ RoundInv(h)
    BY Zenon DEF Round, Explains
  <2>5. IF h.next = "startup" THEN s.nextAt = syncStart
        ELSE s.nextAt <= h.at /\ (h.next = "run" => s.nextAt = h.at)
    BY <1>1, <2>1, <2>2, Zenon DEF Explains, SwitchInv
  <2>6. PICK k \in BOOLEAN : k = c
    BY <2>3, Zenon
  <2>7. PICK x \in BOOLEAN : x = e
    BY <2>3, Zenon
  <2>8. PICK t \in Nat : t = s.nextAt
    BY <2>3, Zenon
  <2>9. PICK r \in Nat : r = s.nextRepeat
    BY <2>3, Zenon
  <2>10. PICK a \in Nat : /\ h.next = "startup" => a = t
                          /\ h.next = "run" => a = t + r
                          /\ h.next = "drain" => a = h.at
    BY <2>4, <2>8, <2>9 DEF Idle
  <2>11. PICK g \in Round :
           /\ g.counted = {} /\ g.last = h.next /\ g.ckpt = k /\ g.exit = x
           /\ g.tick = t /\ g.repeat = r /\ g.at = a
           /\ g.next = IF h.next = "run" /\ k THEN "drain" ELSE "run"
    <3> DEFINE g0 == [counted |-> {}, next |-> IF h.next = "run" /\ k THEN "drain" ELSE "run",
                      last |-> h.next, ckpt |-> k, exit |-> x, tick |-> t, repeat |-> r, at |-> a]
    <3>1. g0 \in Round
      BY <2>4, Zenon DEF Round, Idle
    <3> QED
      BY <3>1, Zenon
  <2>12. RoundInv(g) /\ g.last # "none" /\ g.next # "startup" /\ t <= a
    BY <2>4, <2>5, <2>8, <2>9, <2>10, <2>11 DEF RoundInv, Idle
  <2>13. m = Ack(g) /\ m \in Message /\ IsCmd(m)
    <3>1. Granted(c) = Granted(k) /\ Granted(e) = Granted(x)
      BY <2>6, <2>7, Zenon
    <3>2. m = Ack(g)
      BY <2>8, <2>9, <2>11, <3>1, Zenon DEF Ack
    <3>3. Ack(g) \in Message /\ IsCmd(Ack(g))
      BY <2>11, Zenon DEF Ack, Granted, Message, Requests, IsCmd, Round
    <3> QED
      BY <3>2, <3>3, Zenon
  <2> HIDE DEF c, e, m
  <2>14. /\ pc'[Switch] \in {"started", "synced", "drained"} /\ pc'[Switch] # "exit"
         /\ \A n \in Nodes : pc'[n] = pc[n] /\ sync'[n] = sync[n]
         /\ pc[Switch] # "exit"
    BY <1>0, <1>1, <1>3 DEF Goto, TypeInv, Waiting, Answered
  <2>15. /\ sync'[Switch].waitNum = Cardinality(Nodes)
         /\ sync'[Switch].nextAt = t
    BY <1>0, <1>3, <2>8, Zenon DEF TypeInv, SyncObject
  <2>16. \A n \in Nodes :
           /\ chan'[Up(n)] = chan[Up(n)]
           /\ chan'[Down(n)] = IF pc[n] # "exit" THEN Append(chan[Down(n)], m) ELSE chan[Down(n)]
    BY <1>3, LinksOf, Zenon DEF Send
  <2>17. ASSUME NEW n \in Nodes PROVE NodeInv(n, g)'
    <3>1. NodeInv(n, h) /\ n \in h.counted
      BY <2>2, Zenon DEF Explains
    <3>2. /\ ~sync[n].isAbort /\ Cmds(chan[Up(n)]) = {}
          /\ Asked(n, h) \/ pc[n] = "exit"
      BY <2>14, <3>1, Zenon DEF NodeInv, RequestInv
    <3>3. Cmds(chan[Down(n)]) = {}
      BY <3>1, <3>2, EmptyChannel, Zenon DEF NodeInv, AnswerInv, Asked
    <3>4. CASE pc[n] = "exit"
      <4>1. chan'[Down(n)] = <<>>
        BY <2>16, <3>1, <3>4, Zenon DEF NodeInv, AnswerInv
      <4>2. LiveInv(n, g)'
        BY <2>14, <3>4, Zenon DEF LiveInv, Live
      <4>3. RequestInv(n, g)'
        BY <2>11, <2>14, <2>16, <3>1, <3>2, <3>4, Zenon DEF NodeInv, RequestInv, Waiting
      <4>4. AnswerInv(n, g)'
        BY <4>1, EmptyChannel, Zenon DEF AnswerInv
      <4> QED
        BY <2>14, <3>2, <3>4, <4>2, <4>3, <4>4, Zenon DEF NodeInv, Idle
    <3>5. CASE pc[n] # "exit"
      <4>1. Asked(n, h)
        BY <3>2, <3>5, Zenon
      <4>2. chan[Down(n)] \in Seq(Message) /\ chan'[Down(n)] = Append(chan[Down(n)], m)
        BY <2>16, <3>5, LinksOf, Zenon DEF TypeInv
      <4>3. Cmds(chan'[Down(n)]) = {m} /\ One(chan'[Down(n)]) /\ Sealed(chan'[Down(n)])
        BY <2>13, <3>3, <4>2, AppendCmd, Zenon
      <4>4. pc[n] = Wait(h.next) /\ pc[n] \in Waiting
        BY <2>4, <4>1, Zenon DEF Asked, Wait, Idle, Waiting
      <4>5. Lags(n, g)'
        <5>1. curTick[n] \in Nat
          BY <1>0, Zenon DEF TypeInv
        <5> QED
          BY <1>1, <2>4, <2>5, <2>8, <2>10, <2>11, <2>12, <2>14, <4>1, <4>4, <5>1, Zenon
          DEF Lags, Asked, AskedAt, Idle
      <4>6. Unread(n, g)'
        BY <2>14, <4>1, <4>3, <4>5, Zenon DEF Unread, Asked
      <4>7. Live(n)'
        BY <2>14, <3>2, <4>4, Zenon DEF Live, Waiting
      <4>8. LiveInv(n, g)'
        BY <4>6, Zenon DEF LiveInv
      <4>9. RequestInv(n, g)'
        BY <2>11, <2>14, <2>16, <3>1, <3>2, Zenon DEF NodeInv, RequestInv
      <4>10. AnswerInv(n, g)'
        BY <2>13, <2>14, <3>5, <4>3, <4>6, <4>7, Zenon DEF AnswerInv, Ack
      <4> QED
        BY <2>14, <3>2, <4>4, <4>8, <4>9, <4>10, Zenon DEF NodeInv, Idle, Waiting
    <3> QED
      BY <3>4, <3>5, Zenon
  <2>18. SwitchInv(g)'
    <3>1. Cardinality(g.counted) = 0
      BY <2>11, FS_EmptySet, Zenon
    <3> QED
      BY <2>1, <2>11, <2>12, <2>15, <3>1 DEF SwitchInv
  <2>19. Explains(g)'
    BY <2>12, <2>17, <2>18, Zenon DEF Explains, RoundInv
  <2> QED
    BY <2>19, Zenon
<1> QED
  BY <1>2, <1>3, Zenon DEF SwitchDone, Granted

----------------------------------------------------------------------------
(* Rounds and the messages *)

\* A packet is sent: its sender simulates.
LEMMA PacketSent ==
  ASSUME TypeInv, NEW h \in Round, Explains(h), NEW l, PacketOut(l)
  PROVE  Explains(h)'
<1>1. /\ pc' = pc /\ sync' = sync /\ curTick' = curTick /\ when' = when
      /\ pc[l[1]] \in {"run", "drain"}
  BY Zenon DEF PacketOut, time, Acting, Simulating
<1>2. CASE l \notin Links
  <2>1. chan' = chan
    BY <1>2 DEF PacketOut, Send, TypeInv
  <2> QED
    BY <1>1, <2>1, NodeFrame, Zenon DEF Explains, RoundInv, SwitchInv
<1>3. CASE l \in Links
  <2>1. PICK d \in SendDelays :
          Send({l}, [type |-> "dataDescriptor", sendTick |-> curTick[l[1]], sendDelay |-> d])
    BY Zenon DEF PacketOut
  <2>2. PICK m \in Message :
          m = [type |-> "dataDescriptor", sendTick |-> curTick[l[1]], sendDelay |-> d]
    <3>1. [type |-> "dataDescriptor", sendTick |-> curTick[l[1]], sendDelay |-> d] \in Message
      BY <1>3, LinksOf, DistAssumption, Zenon DEF TypeInv, Message
    <3> QED
      BY <3>1, Zenon
  <2>3. ~IsCmd(m) /\ chan' = [k \in Links |-> IF k = l /\ pc[l[2]] # "exit"
                                              THEN Append(chan[k], m) ELSE chan[k]]
    BY <2>1, <2>2, Zenon DEF IsCmd, Send
  <2>4. \A k \in Links : /\ Cmds(chan'[k]) = Cmds(chan[k])
                         /\ One(chan[k]) => One(chan'[k])
                         /\ chan'[k] = chan[k] \/ (k = l /\ pc[l[2]] # "exit")
    <3> SUFFICES ASSUME NEW k \in Links
                 PROVE  /\ Cmds(chan'[k]) = Cmds(chan[k])
                        /\ One(chan[k]) => One(chan'[k])
                        /\ chan'[k] = chan[k] \/ (k = l /\ pc[l[2]] # "exit")
      BY Zenon
    <3>1. chan[k] \in Seq(Message)
      BY Zenon DEF TypeInv
    <3>2. chan'[k] = chan[k] \/ (k = l /\ pc[l[2]] # "exit" /\ chan'[k] = Append(chan[k], m))
      BY <2>3, Zenon
    <3> QED
      BY <2>3, <3>1, <3>2, AppendPacket, Zenon
  <2>5. ASSUME NEW n \in Nodes PROVE NodeInv(n, h)'
    <3>1. NodeInv(n, h) /\ Up(n) \in Links /\ Down(n) \in Links
      BY LinksOf, Zenon DEF Explains
    <3>2. /\ Asked(n, h)' <=> Asked(n, h)
          /\ Unread(n, h)' <=> Unread(n, h)
          /\ Read(n, h)' <=> Read(n, h)
          /\ Simulates(n, h)' <=> Simulates(n, h)
          /\ Live(n)' <=> Live(n)
      BY <1>1, <2>4, <3>1, Zenon DEF Asked, Unread, Lags, Read, Simulates, Live
    <3>3. LiveInv(n, h)'
      BY <3>1, <3>2, Zenon DEF NodeInv, LiveInv
    <3>4. /\ pc[n] \in Waiting => chan'[Up(n)] = chan[Up(n)]
          /\ pc[Switch] = "exit" => chan'[Up(n)] = chan[Up(n)]
          /\ pc[Switch] \in {"started", "synced", "drained"} => chan'[Down(n)] = chan[Down(n)]
          /\ pc[n] = "exit" => chan'[Down(n)] = chan[Down(n)]
      BY <1>1, <2>4, <3>1, LinksOf DEF Waiting
    <3>5. RequestInv(n, h)'
      BY <1>1, <2>4, <3>1, <3>2, <3>4, Zenon DEF NodeInv, RequestInv
    <3>6. AnswerInv(n, h)'
      BY <1>1, <2>4, <3>1, <3>2, <3>4, Zenon DEF NodeInv, AnswerInv
    <3> QED
      BY <1>1, <3>1, <3>3, <3>5, <3>6, Zenon DEF NodeInv
  <2>6. SwitchInv(h)'
    BY <1>1, Zenon DEF Explains, SwitchInv
  <2> QED
    BY <2>5, <2>6, Zenon DEF Explains, RoundInv
<1> QED
  BY <1>2, <1>3, Zenon

\* What receiving the first message of a link does to the channels.
LEMMA ReceivedFrom ==
  ASSUME TypeInv, NEW h \in Round, Explains(h), NEW l \in Links, Receive(l)
  PROVE  /\ pc' = pc /\ curTick' = curTick /\ when' = when
         /\ pc[l[2]] # "exit" /\ chan[l] # <<>> /\ Head(chan[l]) \in Message
         /\ \A k \in Links \ {l} : chan'[k] = chan[k]
         /\ One(chan'[l]) /\ (Sealed(chan[l]) => Sealed(chan'[l]))
         /\ IF IsCmd(Head(chan[l]))
            THEN Cmds(chan[l]) = {Head(chan[l])} /\ Cmds(chan'[l]) = {}
            ELSE Cmds(chan'[l]) = Cmds(chan[l])
<1>1. /\ pc' = pc /\ curTick' = curTick /\ when' = when
      /\ pc[l[2]] # "exit" /\ chan[l] # <<>> /\ chan' = [chan EXCEPT ![l] = Tail(@)]
  BY Zenon DEF Receive, time
<1>2. PICK q \in Seq(Message) : q = chan[l]
  BY Zenon DEF TypeInv
<1>3. chan'[l] = Tail(q) /\ \A k \in Links \ {l} : chan'[k] = chan[k]
  BY <1>1, <1>2, Zenon DEF TypeInv
<1>4. One(q)
  BY <1>2, LinksOf DEF Explains, NodeInv, RequestInv, AnswerInv
<1> QED
  BY <1>1, <1>2, <1>3, <1>4, ReceiveFirst, Zenon

\* A packet is received, or nothing but the end of the thread comes of it.
LEMMA PacketReceived ==
  ASSUME TypeInv, NEW h \in Round, Explains(h), NEW l \in Links, Receive(l),
         PushPacket(l) \/ ProgressAborted(l)
  PROVE  Explains(h)'
<1>1. /\ pc' = pc /\ curTick' = curTick /\ when' = when /\ sync' = sync
      /\ pc[l[2]] # "exit"
  BY ReceivedFrom, Zenon DEF PushPacket, ProgressAborted
<1>2. \A k \in Links : /\ Cmds(chan'[k]) \subseteq Cmds(chan[k])
                       /\ One(chan[k]) => One(chan'[k])
                       /\ Sealed(chan[k]) => Sealed(chan'[k])
                       /\ chan'[k] = chan[k] \/ k = l
                       /\ Cmds(chan'[k]) = Cmds(chan[k]) \/ sync[k[2]].isAbort
  BY ReceivedFrom, Zenon DEF PushPacket, ProgressAborted
<1>3. ASSUME NEW n \in Nodes PROVE NodeInv(n, h)'
  <2>1. /\ NodeInv(n, h) /\ Up(n) \in Links /\ Down(n) \in Links
        /\ Up(n)[2] = Switch /\ Down(n)[2] = n
    BY LinksOf, Zenon DEF Explains
  <2>2. Cmds(chan'[Down(n)]) = Cmds(chan[Down(n)])
    <3>1. sync[n].isAbort => Cmds(chan[Down(n)]) = {}
      BY <2>1, Zenon DEF NodeInv, AnswerInv, Live
    <3> QED
      BY <1>2, <2>1, <3>1, Zenon
  <2>3. /\ Asked(n, h)' <=> Asked(n, h)
        /\ Unread(n, h)' <=> Unread(n, h)
        /\ Read(n, h)' <=> Read(n, h)
        /\ Simulates(n, h)' <=> Simulates(n, h)
        /\ Live(n)' <=> Live(n)
    BY <1>1, <2>2, Zenon DEF Asked, Unread, Lags, Read, Simulates, Live
  <2>4. LiveInv(n, h)'
    BY <2>1, <2>3, Zenon DEF NodeInv, LiveInv
  <2>5. /\ pc[Switch] = "exit" => chan'[Up(n)] = chan[Up(n)]
        /\ pc[n] = "exit" => chan'[Down(n)] = chan[Down(n)]
    BY <1>1, <1>2, <2>1, Zenon
  <2>6. RequestInv(n, h)'
    BY <1>1, <1>2, <2>1, <2>3, <2>5, Zenon DEF NodeInv, RequestInv
  <2>7. AnswerInv(n, h)'
    BY <1>1, <1>2, <2>1, <2>2, <2>3, <2>5, Zenon DEF NodeInv, AnswerInv
  <2> QED
    BY <1>1, <2>1, <2>4, <2>6, <2>7, Zenon DEF NodeInv
<1>4. SwitchInv(h)'
  BY <1>1, Zenon DEF Explains, SwitchInv
<1> QED
  BY <1>3, <1>4, Zenon DEF Explains, RoundInv

\* A node reads the answer.
LEMMA AnswerReceived ==
  ASSUME TypeInv, NEW h \in Round, Explains(h), NEW l \in Links, Receive(l), NodeProgress(l)
  PROVE  Explains(h)'
<1>1. PICK m \in Message : m = Head(chan[l])
  BY ReceivedFrom, Zenon
<1>2. /\ m.type = "cmdSyncAck" /\ IsCmd(m) /\ ~sync[l[2]].isAbort
      /\ sync' = [sync EXCEPT ![l[2]] = Taken(@, m)]
  BY <1>1, Zenon DEF NodeProgress, IsCmd
<1>3. m \in Cmds(chan[l])
  BY <1>1, <1>2, ReceivedFrom, Zenon
<1>4. PICK n \in Nodes : l = Down(n)
  BY <1>2, <1>3, LinksOf, Zenon DEF Explains, NodeInv, RequestInv
<1>5. /\ NodeInv(n, h) /\ n # Switch /\ n \in Peers /\ Switch \in Peers /\ l[2] = n
      /\ sync[n] \in SyncObject
  BY <1>4, DistAssumption, LinksOf, Zenon DEF Explains, Peers, TypeInv
<1>6. m = Ack(h) /\ Unread(n, h) /\ Live(n)
  BY <1>3, <1>4, <1>5, Zenon DEF NodeInv, AnswerInv
<1>7. /\ pc' = pc /\ curTick' = curTick /\ when' = when
      /\ Cmds(chan'[Down(n)]) = {} /\ One(chan'[Down(n)])
      /\ Sealed(chan[Down(n)]) => Sealed(chan'[Down(n)])
      /\ chan'[Up(n)] = chan[Up(n)]
      /\ \A q \in Nodes \ {n} : chan'[Up(q)] = chan[Up(q)] /\ chan'[Down(q)] = chan[Down(q)]
  BY <1>1, <1>2, <1>4, ReceivedFrom, LinksOf
<1>8. sync'[n] = Taken(sync[n], m) /\ \A q \in Peers \ {n} : sync'[q] = sync[q]
  BY <1>2, <1>5, Zenon DEF TypeInv
<1>9. /\ sync'[n].waitNum = sync[n].waitNum - 1
      /\ sync'[n].nextAt = m.sendTick /\ sync'[n].nextRepeat = m.syncRepeat
      /\ sync'[n].doCkpt = (m.ckpt # "none") /\ sync'[n].doExit = (m.exit # "none")
      /\ sync'[n].isAbort = sync[n].isAbort
  BY <1>2, <1>5, <1>8, Progressed
<1>10. OnlyNode(n)
  BY <1>7, <1>8, Zenon DEF OnlyNode
<1>11. Read(n, h)'
  <2>1. sync'[n].waitNum = 0
    BY <1>6, <1>9 DEF Unread
  <2>2. sync'[n].nextAt = h.tick /\ sync'[n].nextRepeat = h.repeat
    BY <1>6, <1>9, Zenon DEF Ack
  <2>3. m.ckpt = Granted(h.ckpt) /\ m.exit = Granted(h.exit)
    BY <1>6, Zenon DEF Ack
  <2>4. h.ckpt \in BOOLEAN /\ h.exit \in BOOLEAN
    BY Zenon DEF Round
  <2>5. (m.ckpt # "none") = h.ckpt /\ (m.exit # "none") = h.exit
    BY <2>3, <2>4, Zenon DEF Granted
  <2>6. Lags(n, h)'
    BY <1>6, <1>7, Zenon DEF Unread, Lags
  <2> QED
    BY <1>9, <2>1, <2>2, <2>5, <2>6, Zenon DEF Read
<1>12. n \notin h.counted /\ Cmds(chan[Up(n)]) = {}
  BY <1>5, <1>6, Zenon DEF NodeInv, RequestInv, Asked, Unread, Live
<1>13. pc[n] # "exit" /\ ~sync'[n].isAbort /\ pc[n] \notin Idle
  <2>1. pc[n] \in {Wait("startup"), Wait("run"), Wait("drain")}
    BY <1>6, Zenon DEF Unread, Lags, Round, Idle
  <2> QED
    BY <1>2, <1>5, <1>9, <2>1, Zenon DEF Wait, Idle
<1>14. LiveInv(n, h)'
  BY <1>11, Zenon DEF LiveInv
<1>15. RequestInv(n, h)'
  BY <1>5, <1>7, <1>12, Zenon DEF NodeInv, RequestInv
<1>16. AnswerInv(n, h)'
  BY <1>5, <1>7, <1>13, Zenon DEF NodeInv, AnswerInv
<1>17. NodeInv(n, h)'
  BY <1>5, <1>7, <1>13, <1>14, <1>15, <1>16, Zenon DEF NodeInv, Idle
<1> QED
  BY <1>10, <1>17, NodeStep, Zenon

\* The switch counts a request.
LEMMA RequestReceived ==
  ASSUME TypeInv, NEW h \in Round, Explains(h), NEW l \in Links, Receive(l), SwitchProgress(l)
  PROVE  \E g \in Round : Explains(g)'
<1>1. PICK m \in Message : m = Head(chan[l])
  BY ReceivedFrom, Zenon
<1>2. /\ m.type = "cmdSyncReq" /\ IsCmd(m) /\ ~sync[Switch].isAbort
      /\ sync' = [sync EXCEPT ![Switch] = Counted(@, m)]
  BY <1>1, Zenon DEF SwitchProgress, IsCmd
<1>3. m \in Cmds(chan[l])
  BY <1>1, <1>2, ReceivedFrom, Zenon
<1>4. PICK n \in Nodes : l = Up(n)
  <2>1. PICK n \in Nodes : l = Up(n) \/ l = Down(n)
    BY LinksOf, Zenon
  <2>2. l = Down(n) => m = Ack(h)
    BY <1>3, Zenon DEF Explains, NodeInv, AnswerInv
  <2>3. Ack(h).type # "cmdSyncReq"
    BY Zenon DEF Ack
  <2> QED  BY <2>1, <2>2, <2>3, <1>2, Zenon
<1>5. /\ NodeInv(n, h) /\ Switch \in Peers /\ Nodes \subseteq Peers \ {Switch} /\ l[2] = Switch
      /\ sync[Switch] \in SyncObject /\ n \in Nodes
  BY <1>4, DistAssumption, LinksOf, Zenon DEF Explains, Peers, TypeInv
<1>6. /\ AskedAt(h, m.sendTick) /\ n \notin h.counted
      /\ Asked(n, h) \/ sync[n].isAbort \/ pc[n] = "exit"
  BY <1>3, <1>4, <1>5, Zenon DEF NodeInv, RequestInv
<1>7. /\ pc' = pc /\ curTick' = curTick /\ when' = when /\ pc[Switch] # "exit"
      /\ Cmds(chan'[Up(n)]) = {} /\ One(chan'[Up(n)])
      /\ Sealed(chan[Up(n)]) => Sealed(chan'[Up(n)])
      /\ chan'[Down(n)] = chan[Down(n)]
      /\ \A q \in Nodes \ {n} : chan'[Up(q)] = chan[Up(q)] /\ chan'[Down(q)] = chan[Down(q)]
  BY <1>1, <1>2, <1>4, <1>5, ReceivedFrom, LinksOf
<1>8. sync'[Switch] = Counted(sync[Switch], m) /\ \A q \in Nodes : sync'[q] = sync[q]
  BY <1>2, <1>5, Zenon DEF TypeInv
<1>9. /\ sync'[Switch].waitNum = sync[Switch].waitNum - 1
      /\ sync'[Switch].nextAt = IF m.sendTick > sync[Switch].nextAt THEN m.sendTick
                                ELSE sync[Switch].nextAt
      /\ sync[Switch].nextAt \in Nat /\ m.sendTick \in Nat /\ sync[Switch].waitNum \in Int
  BY <1>2, <1>5, <1>8, Progressed DEF SyncObject
<1>10. PICK g \in Round :
         /\ g.counted = h.counted \cup {n} /\ g.next = h.next /\ g.last = h.last
         /\ g.ckpt = h.ckpt /\ g.exit = h.exit /\ g.tick = h.tick
         /\ g.repeat = h.repeat /\ g.at = h.at
  <2> DEFINE g0 == [counted |-> h.counted \cup {n}, next |-> h.next, last |-> h.last,
                    ckpt |-> h.ckpt, exit |-> h.exit, tick |-> h.tick,
                    repeat |-> h.repeat, at |-> h.at]
  <2>1. g0 \in Round
    BY Zenon DEF Round
  <2> QED
    BY <2>1, Zenon
<1>11. /\ h.at \in Nat /\ h.next \in Idle /\ h.counted \in SUBSET Nodes
  BY Zenon DEF Round
<1>12. SwitchInv(g)'
  <2>1. IsFiniteSet(h.counted)
    BY <1>11, DistAssumption, FS_Subset, Zenon
  <2>2. Cardinality(g.counted) = Cardinality(h.counted) + 1 /\ Cardinality(h.counted) \in Nat
    BY <1>6, <1>10, <2>1, FS_AddElement, FS_CardinalityType
  <2>3. Cardinality(Nodes) \in Nat
    BY DistAssumption, FS_CardinalityType, Zenon
  <2>4. sync'[Switch].waitNum = Cardinality(Nodes) - Cardinality(g.counted)
    BY <1>2, <1>9, <2>2, <2>3 DEF Explains, SwitchInv
  <2>5. IF h.next = "startup" THEN sync[Switch].nextAt = syncStart
        ELSE sync[Switch].nextAt <= h.at
    BY <1>2, Zenon DEF Explains, SwitchInv
  <2>6. syncStart \in Nat
    BY DistAssumption, Zenon
  <2>7. CASE h.next = "startup"
    BY <1>6, <1>9, <1>10, <2>4, <2>5, <2>6, <2>7 DEF SwitchInv, AskedAt
  <2>8. CASE h.next = "run"
    BY <1>6, <1>9, <1>10, <1>11, <2>4, <2>5, <2>8 DEF SwitchInv, AskedAt
  <2>9. CASE h.next = "drain"
    BY <1>6, <1>9, <1>10, <1>11, <2>4, <2>5, <2>9, Zenon DEF SwitchInv, AskedAt
  <2> QED
    BY <1>11, <2>7, <2>8, <2>9, Zenon DEF Idle
<1>13. ASSUME NEW q \in Nodes PROVE NodeInv(q, g)'
  <2>1. NodeInv(q, h)
    BY Zenon DEF Explains
  <2>2. chan'[Down(q)] = chan[Down(q)] /\ sync'[q] = sync[q]
    BY <1>7, <1>8, Zenon
  <2>3. /\ Asked(q, g)' <=> Asked(q, h)
        /\ Unread(q, g)' <=> Unread(q, h)
        /\ Read(q, g)' <=> Read(q, h)
        /\ Simulates(q, g)' <=> Simulates(q, h)
        /\ Live(q)' <=> Live(q)
    BY <1>7, <1>10, <2>2, Zenon DEF Asked, AskedAt, Unread, Lags, Read, Simulates, Live
  <2>4. LiveInv(q, g)'
    BY <2>1, <2>3, Zenon DEF NodeInv, LiveInv
  <2>5. AnswerInv(q, g)'
    BY <1>7, <1>10, <2>1, <2>2, <2>3, Zenon DEF NodeInv, AnswerInv, Ack
  <2>6. RequestInv(q, g)'
    <3>1. CASE q = n
      BY <1>5, <1>6, <1>7, <1>8, <1>10, <2>3, <3>1, Zenon DEF NodeInv, RequestInv
    <3>2. CASE q # n
      <4>1. chan'[Up(q)] = chan[Up(q)] /\ (q \in g.counted <=> q \in h.counted)
        BY <1>7, <1>10, <3>2, Zenon
      <4> QED
        BY <1>7, <1>10, <2>1, <2>2, <2>3, <4>1, Zenon DEF NodeInv, RequestInv, AskedAt
    <3> QED
      BY <3>1, <3>2, Zenon
  <2> QED
    BY <1>7, <1>10, <2>1, <2>2, <2>4, <2>5, <2>6, Zenon DEF NodeInv
<1>14. RoundInv(g)'
  BY <1>10, Zenon DEF Explains, RoundInv
<1> QED
  BY <1>12, <1>13, <1>14, Zenon DEF Explains

----------------------------------------------------------------------------
(* The invariant *)

\* A step that leaves the state of a round alone.
LEMMA Unmoved ==
  ASSUME NEW h \in Round, Explains(h),
         pc' = pc, sync' = sync, chan' = chan, curTick' = curTick, when' = when
  PROVE  Explains(h)'
<1>1. \A n \in Nodes : NodeInv(n, h)'
  BY NodeFrame, Zenon DEF Explains
<1> QED
  BY <1>1, Zenon DEF Explains, RoundInv, SwitchInv

\* The simulation thread of a node keeps the round.
LEMMA NodeSteps ==
  ASSUME TypeInv, NEW h \in Round, Explains(h), NEW n \in Nodes, Step(n) \/ Crash(n) \/ BrokenPipe(n)
  PROVE  Explains(h)'
<1>1. n # Switch /\ NodeInv(n, h) /\ n \in Peers
  BY DistAssumption, Zenon DEF Explains, Peers
<1>2. pc[n] \in Idle => sync[n].waitNum = 0
  BY <1>1, Zenon DEF NodeInv
<1>3. CASE Start(n)
  <2>1. /\ pc[n] = "startup" /\ NodeRun(n, Wait(pc[n])) /\ curTick' = curTick /\ when' = when
    BY <1>1, <1>3, Zenon DEF Start, Run, Wait
  <2> QED
    BY <2>1, NodeAsks, Zenon DEF Idle
<1>4. CASE Process(n)
  <2>1. curTick[n] = when[n] /\ curTick' = curTick /\ when' = when
    BY <1>4, Zenon DEF Process, AtSync, time
  <2>2. CASE pc[n] = "run" /\ Run(n, "syncing")
    <3>1. NodeRun(n, Wait(pc[n])) /\ pc[n] \in Idle
      BY <1>1, <2>2, Zenon DEF Run, Wait, Idle
    <3> QED
      BY <2>1, <3>1, NodeAsks, Zenon
  <2>3. CASE pc[n] = "drain" /\ Goto(n, "ending") /\ UNCHANGED <<sync, need, chan>>
    BY <1>2, <2>1, <2>3, NodeEnds, Zenon DEF Goto, Idle
  <2> QED
    BY <1>4, <2>2, <2>3, Zenon DEF Process
<1>5. CASE Drained(n)
  <2>1. /\ pc[n] = "drain" /\ NodeRun(n, Wait(pc[n])) /\ curTick' = curTick /\ when' = when
    BY <1>1, <1>5, Zenon DEF Drained, Run, Wait, time
  <2> QED
    BY <2>1, NodeAsks, Zenon DEF Idle
<1>6. CASE Quit(n)
  <2>1. /\ sync' = sync /\ chan' = chan /\ curTick' = curTick /\ when' = when
        /\ \/ pc[n] = "run" /\ pc' = [pc EXCEPT ![n] = "ending"]
           \/ pc' = pc
    BY <1>6, Zenon DEF Quit, Goto, time
  <2> QED
    BY <1>2, <2>1, NodeEnds, Unmoved, Zenon DEF Idle
<1>7. CASE Advance(n)
  BY <1>7, NodeAdvances, Zenon
<1>8. CASE Close(n) \/ Crash(n)
  BY <1>8, NodeGone, Zenon DEF Close, Crash
<1>9. CASE NodeDone(n)
  BY <1>9, NodeGoesOn, Zenon
<1>10. CASE \E l \in In(n) : PopPacket(l)
  <2>1. /\ pc' = pc /\ sync' = sync /\ chan' = chan /\ curTick' = curTick /\ when' = when
    BY <1>10, Zenon DEF PopPacket, time
  <2> QED
    BY <2>1, Unmoved, Zenon
<1>11. CASE BrokenPipe(n)
  <2>1. /\ sync' = sync /\ chan' = chan /\ curTick' = curTick /\ when' = when
        /\ pc[n] \in {"run", "drain"} /\ pc' = [pc EXCEPT ![n] = "ending"]
    BY <1>1, <1>11, Zenon DEF BrokenPipe, Goto, time, Simulating
  <2> QED
    BY <1>2, <2>1, NodeEnds, Zenon DEF Idle
<1> QED
  BY <1>1, <1>3, <1>4, <1>5, <1>6, <1>7, <1>8, <1>9, <1>10, <1>11, Zenon DEF Step

\* The simulation thread of the switch keeps the round, or begins the next.
LEMMA SwitchSteps ==
  ASSUME TypeInv, NEW h \in Round, Explains(h), Step(Switch) \/ Crash(Switch) \/ BrokenPipe(Switch)
  PROVE  \E g \in Round : Explains(g)'
<1>1. Switch \notin Nodes /\ Switch \in Peers /\ Nodes \subseteq Peers \ {Switch}
  BY DistAssumption, Zenon DEF Peers
<1>2. ASSUME NEW loc \in Locations \ {"exit", "started", "synced", "drained"},
             pc' = [pc EXCEPT ![Switch] = loc], pc[Switch] # "exit", sync' = sync, chan' = chan,
             \A n \in Nodes : curTick'[n] = curTick[n] /\ when'[n] = when[n]
      PROVE  Explains(h)'
  <2>1. pc'[Switch] = loc /\ \A n \in Nodes : pc'[n] = pc[n]
    BY <1>1, <1>2, Zenon DEF TypeInv
  <2> QED
    BY <1>2, <2>1, SwitchMoves, Zenon
<1>3. CASE Start(Switch) \/ Process(Switch) \/ Drained(Switch) \/ BrokenPipe(Switch)
  <2>1. PICK loc \in {"starting", "syncing", "draining", "ending"} :
            /\ pc' = [pc EXCEPT ![Switch] = loc] /\ pc[Switch] # "exit" /\ sync' = sync
            /\ chan' = chan /\ curTick' = curTick /\ when' = when
    <3>1. CASE Start(Switch)
      BY <1>1, <3>1, Zenon DEF Start, Run, Goto
    <3>2. CASE Process(Switch)
      BY <1>1, <3>2, Zenon DEF Process, Run, Goto, time
    <3>3. CASE Drained(Switch)
      BY <1>1, <3>3, Zenon DEF Drained, Run, Goto, time
    <3>4. CASE BrokenPipe(Switch)
      BY <3>4, Zenon DEF BrokenPipe, Goto, time, Simulating, Waiting
    <3> QED
      BY <1>3, <3>1, <3>2, <3>3, <3>4, Zenon
  <2>2. loc \in Locations \ {"exit", "started", "synced", "drained"}
    BY Zenon DEF Locations, Waiting
  <2> QED
    BY <1>2, <2>1, <2>2, Zenon
<1>4. CASE Quit(Switch) \/ Advance(Switch) \/ (\E l \in In(Switch) : PopPacket(l))
  <2>1. CASE Quit(Switch)
    <3>1. /\ sync' = sync /\ chan' = chan /\ curTick' = curTick /\ when' = when
          /\ \/ pc[Switch] = "run" /\ pc' = [pc EXCEPT ![Switch] = "ending"]
             \/ pc' = pc
      BY <2>1, Zenon DEF Quit, Goto, time
    <3>2. "ending" \in Locations \ {"exit", "started", "synced", "drained"}
      BY Zenon DEF Locations
    <3> QED
      BY <1>2, <3>1, <3>2, Unmoved, Zenon
  <2>2. CASE Advance(Switch)
    <3>1. /\ pc' = pc /\ sync' = sync /\ chan' = chan /\ when' = when /\ pc[Switch] # "exit"
          /\ \A n \in Nodes : curTick'[n] = curTick[n]
      BY <1>1, <2>2, Zenon DEF Advance, Simulating, TypeInv
    <3> QED
      BY <3>1, SwitchMoves, Zenon
  <2>3. CASE \E l \in In(Switch) : PopPacket(l)
    <3>1. /\ pc' = pc /\ sync' = sync /\ chan' = chan /\ curTick' = curTick /\ when' = when
      BY <2>3, Zenon DEF PopPacket, time
    <3> QED
      BY <3>1, Unmoved, Zenon
  <2> QED
    BY <1>4, <2>1, <2>2, <2>3, Zenon
<1>5. CASE Close(Switch) \/ Crash(Switch)
  BY <1>5, SwitchGone, Zenon DEF Close, Crash
<1>6. CASE SwitchDone
  BY <1>6, SwitchAnswers, Zenon
<1>7. CASE SwitchGoesOn
  <2>1. /\ chan' = chan /\ curTick' = curTick /\ pc[Switch] # "exit"
        /\ AfterStart(Switch) \/ AfterSync(Switch) \/ AfterDrain(Switch)
             \/ (Goto(Switch, "ending") /\ UNCHANGED <<when, repeat, sync>>)
    BY <1>7, Zenon DEF SwitchGoesOn, AfterAbort, Waiting
  <2>2. PICK loc \in {"run", "drain", "ending"} : pc' = [pc EXCEPT ![Switch] = loc]
    BY <2>1, Zenon DEF AfterStart, AfterSync, AfterDrain, StopsFor, Goto
  <2>3. pc'[Switch] = loc /\ \A n \in Nodes : pc'[n] = pc[n]
    BY <1>1, <2>2, Zenon DEF TypeInv
  <2>4. \A n \in Nodes : when'[n] = when[n]
    BY <1>1, <2>1, Zenon DEF AfterStart, AfterSync, AfterDrain, TypeInv
  <2>5. PICK s \in SyncObject : s = sync[Switch]
    BY <1>1, Zenon DEF TypeInv
  <2>6. sync' = sync \/ sync' = [sync EXCEPT ![Switch] = [s EXCEPT !.doCkpt = FALSE]]
    BY <2>1, <2>5, Zenon DEF AfterStart, AfterSync, AfterDrain
  <2>7. /\ \A n \in Nodes : sync'[n] = sync[n]
        /\ sync'[Switch].isAbort = s.isAbort /\ sync'[Switch].waitNum = s.waitNum
        /\ sync'[Switch].nextAt = s.nextAt
    BY <1>1, <2>5, <2>6 DEF TypeInv, SyncObject
  <2> QED
    BY <2>1, <2>3, <2>4, <2>5, <2>7, SwitchMoves, Zenon
<1> QED
  BY <1>1, <1>3, <1>4, <1>5, <1>6, <1>7, Zenon DEF Step

\* Every step keeps the invariant.
LEMMA NextIInv == IInv /\ [Next]_vars => IInv'
<1> SUFFICES ASSUME IInv, [Next]_vars PROVE IInv'
  BY Zenon
<1>1. TypeInv /\ TypeInv'
  BY NextTypes, Zenon DEF IInv
<1>2. PICK h \in Round : Explains(h)
  BY Zenon DEF IInv
<1> SUFFICES \E g \in Round : Explains(g)'
  BY <1>1, Zenon DEF IInv
<1>3. CASE UNCHANGED vars
  BY <1>2, <1>3, Unmoved, Zenon DEF vars
<1>4. CASE \E p \in Peers : Step(p) \/ Crash(p) \/ BrokenPipe(p)
  BY <1>1, <1>2, <1>4, NodeSteps, SwitchSteps, Zenon DEF Peers
<1>5. CASE \E n \in Nodes : RequestCkpt(n) \/ RequestExit(n)
  <2>1. pc' = pc /\ sync' = sync /\ chan' = chan /\ curTick' = curTick /\ when' = when
    BY <1>5, Zenon DEF RequestCkpt, RequestExit, time
  <2> QED
    BY <1>2, <2>1, Unmoved, Zenon
<1>6. CASE \E l \in Traffic : PacketOut(l)
  BY <1>1, <1>2, <1>6, PacketSent, Zenon
<1>7. CASE \E l \in Links : Receive(l)
  <2>1. PICK l \in Links : Receive(l)
    BY <1>7, Zenon
  <2>2. PushPacket(l) \/ SwitchProgress(l) \/ NodeProgress(l) \/ ProgressAborted(l)
    BY <2>1, Zenon DEF Receive
  <2> QED
    BY <1>1, <1>2, <2>1, <2>2, PacketReceived, AnswerReceived, RequestReceived, Zenon
<1>8. CASE \E l \in Links : ConnectionLost(l)
  <2>1. PICK n \in Nodes : ConnectionLost(Up(n)) \/ ConnectionLost(Down(n))
    BY <1>8, LinksOf
  <2> QED
    BY <1>1, <1>2, <2>1, NodeAborts, SwitchAborts, Zenon
<1> QED
  BY <1>3, <1>4, <1>5, <1>6, <1>7, <1>8, Zenon DEF Next, Thread

\* The first round: everybody is about to start.
LEMMA InitIInv == Init => IInv
<1> SUFFICES ASSUME Init PROVE IInv
  BY Zenon
<1>1. PICK s \in [packet : Nat, ckpt : Nat, exit : Nat, crash : Nat,
                  exitBy : Nat, syncRepeat : [Peers -> 1..linkDelay]] : s = scenario
  BY DistAssumption, Zenon DEF Init
<1>2. Cardinality(Nodes) \in Nat /\ syncStart \in Nat
      /\ Switch \notin Nodes /\ Switch \in Peers /\ Nodes \subseteq Peers
  BY DistAssumption, FS_CardinalityType, Zenon DEF Peers
<1>3. /\ \A p \in Peers : pc[p] = "startup" /\ curTick[p] = 0
      /\ \A l \in Links : chan[l] = <<>>
      /\ \A n \in Nodes : sync[n].waitNum = 0
      /\ \A p \in Peers : ~sync[p].isAbort
      /\ sync[Switch].waitNum = Cardinality(Nodes) /\ sync[Switch].nextAt = syncStart
  BY <1>2, Zenon DEF Init
<1>4. TypeInv
  <2>1. sync \in [Peers -> SyncObject]
    <3>1. \A p \in Peers : s.syncRepeat[p] \in Nat
      BY <1>1
    <3> QED
      BY <1>1, <1>2, <3>1 DEF Init, SyncObject
  <2> QED
    BY <2>1 DEF Init, TypeInv, Locations, Idle, Requests
<1>5. PICK h \in Round : /\ h.counted = {} /\ h.next = "startup" /\ h.last = "none"
  <2> DEFINE h0 == [counted |-> {}, next |-> "startup", last |-> "none",
                    ckpt |-> FALSE, exit |-> FALSE, tick |-> 0, repeat |-> 0, at |-> 0]
  <2>1. h0 \in Round
    BY Zenon DEF Round, Idle
  <2> QED
    BY <2>1, Zenon
<1>6. RoundInv(h)
  BY <1>5, Zenon DEF RoundInv
<1>7. SwitchInv(h)
  BY <1>2, <1>3, <1>5, FS_EmptySet DEF SwitchInv
<1>8. ASSUME NEW n \in Nodes PROVE NodeInv(n, h)
  <2>1. chan[Up(n)] = <<>> /\ chan[Down(n)] = <<>>
    BY <1>3, LinksOf, Zenon
  <2>2. Simulates(n, h)
    BY <1>2, <1>3, <1>5, Zenon DEF Simulates
  <2>3. RequestInv(n, h) /\ AnswerInv(n, h)
    BY <1>5, <2>1, EmptyChannel, Zenon DEF RequestInv, AnswerInv
  <2> QED
    BY <1>2, <1>3, <2>2, <2>3, Zenon DEF NodeInv, LiveInv
<1> QED
  BY <1>4, <1>6, <1>7, <1>8, Zenon DEF IInv, Explains

\* The invariant holds.
LEMMA Invariance == Spec => []IInv
BY InitIInv, NextIInv, PTL DEF Spec

----------------------------------------------------------------------------
(* Collective requests *)

\* Whatever is sent, the channel holds what it held and what is sent.
LEMMA AppendAny ==
  ASSUME NEW q \in Seq(Message), NEW m \in Message
  PROVE  Cmds(Append(q, m)) \subseteq Cmds(q) \cup {m}
<1> DEFINE r == Append(q, m)
<1>1. /\ DOMAIN q = 1 .. Len(q) /\ DOMAIN r = 1 .. Len(q) + 1 /\ Len(q) \in Nat
      /\ r[Len(q) + 1] = m /\ \A i \in 1 .. Len(q) : r[i] = q[i]
  OBVIOUS
<1> HIDE DEF r
<1>2. \A i \in DOMAIN r : (i \in DOMAIN q /\ r[i] = q[i]) \/ r[i] = m
  BY <1>1
<1> QED
  BY <1>2, Zenon DEF Cmds, r

\* A step that neither asks nor counts.
LEMMA OnceFrame ==
  ASSUME NEW k, OnceInv(k), need' = need, num' = num,
         \A n \in Nodes : Cmds(chan'[Up(n)]) \subseteq Cmds(chan[Up(n)])
  PROVE  OnceInv(k)'
BY Zenon DEF OnceInv

\* A node asks, or sends what it has asked: a request that was sent stays
\* pending, or becomes immediate.
LEMMA OnceAsked ==
  ASSUME NEW k, OnceInv(k), num' = num, NEW n \in Nodes,
         \A q \in Nodes \ {n} : need'[q][k] = need[q][k],
         \A q \in Nodes \ {n} : Cmds(chan'[Up(q)]) \subseteq Cmds(chan[Up(q)]),
         need[n][k] \in {"pending", "immediate"} => need'[n][k] \in {"pending", "immediate"},
         \A m \in Cmds(chan'[Up(n)]) \ Cmds(chan[Up(n)]) :
           m[k] = need[n][k] /\ (m[k] = "collective" => need'[n][k] = "pending")
  PROVE  OnceInv(k)'
<1>1. PICK C \in SUBSET Nodes :
        /\ num[k] = Cardinality(C)
        /\ \A q \in Nodes :
             /\ q \in C => need[q][k] \in {"pending", "immediate"}
             /\ \A m \in Cmds(chan[Up(q)]) : m[k] = "collective" =>
                  q \notin C /\ need[q][k] \in {"pending", "immediate"}
  BY Zenon DEF OnceInv
<1>2. \A q \in Nodes : q \in C => need'[q][k] \in {"pending", "immediate"}
  BY <1>1, Zenon
<1>3. ASSUME NEW q \in Nodes, NEW m \in Cmds(chan'[Up(q)]), m[k] = "collective"
      PROVE  q \notin C /\ need'[q][k] \in {"pending", "immediate"}
  <2>1. CASE m \in Cmds(chan[Up(q)])
    BY <1>1, <1>3, <2>1, Zenon
  <2>2. CASE m \notin Cmds(chan[Up(q)])
    BY <1>1, <1>3, <2>2, Zenon
  <2> QED
    BY <2>1, <2>2, Zenon
<1> QED
  BY <1>1, <1>2, <1>3, Zenon DEF OnceInv

\* Sync::run.
LEMMA OnceRun ==
  ASSUME TypeInv, NEW k \in {"ckpt", "exit"}, OnceInv(k), NEW p \in Peers, NEW loc, Run(p, loc),
         num' = num
  PROVE  OnceInv(k)'
<1>1. CASE need' = need /\ chan' = chan
  BY <1>1, OnceFrame, Zenon
<1>2. CASE p \in Nodes /\ ~sync[p].isAbort /\ NodeRun(p, loc)
  <2>1. PICK r \in [ckpt : Requests, exit : Requests] : r = need[p]
    BY <1>2, Zenon DEF TypeInv
  <2>2. need' = [need EXCEPT ![p] = [ckpt |-> Sent(r.ckpt), exit |-> Sent(r.exit)]]
    BY <1>2, <2>1, Zenon DEF NodeRun
  <2>3. need'[p] = [ckpt |-> Sent(r.ckpt), exit |-> Sent(r.exit)]
        /\ \A q \in Nodes \ {p} : need'[q] = need[q]
    BY <1>2, <2>2, Zenon DEF TypeInv
  <2>4. need'[p][k] = Sent(r[k])
    BY <2>3
  <2>5. PICK m \in Message : /\ m[k] = r[k]
                             /\ Send(Out(p), m)
    <3> DEFINE m0 == [type |-> "cmdSyncReq", sendTick |-> curTick[p],
                      syncRepeat |-> sync[p].nextRepeat,
                      ckpt |-> r.ckpt, exit |-> r.exit]
    <3>1. Send(Out(p), m0)
      BY <1>2, <2>1, Zenon DEF NodeRun
    <3>2. m0 \in Message
      BY <1>2, <2>1, Zenon DEF TypeInv, SyncObject, Message
    <3>3. m0[k] = r[k]
      OBVIOUS
    <3> QED
      BY <3>1, <3>2, <3>3, Zenon
  <2>6. /\ \A q \in Nodes \ {p} : chan'[Up(q)] = chan[Up(q)]
        /\ chan'[Up(p)] = chan[Up(p)] \/ chan'[Up(p)] = Append(chan[Up(p)], m)
    BY <1>2, <2>5, LinksOf DEF Send
  <2>7. chan[Up(p)] \in Seq(Message)
    BY <1>2, LinksOf, Zenon DEF TypeInv
  <2>8. \A x \in Cmds(chan'[Up(p)]) \ Cmds(chan[Up(p)]) : x = m
    BY <2>6, <2>7, AppendAny, Zenon
  <2>9. /\ r[k] \in {"pending", "immediate"} => need'[p][k] \in {"pending", "immediate"}
        /\ r[k] = "collective" => need'[p][k] = "pending"
    BY <2>4, Zenon DEF Sent
  <2> QED
    BY <1>2, <2>1, <2>3, <2>5, <2>6, <2>8, <2>9, OnceAsked, Zenon
<1> QED
  BY <1>1, <1>2, Zenon DEF Run, NodeRun

\* The switch counts a request.
LEMMA OnceCounted ==
  ASSUME TypeInv, NEW k \in {"ckpt", "exit"}, OnceInv(k), NEW h \in Round, Explains(h),
         NEW l \in Links, Receive(l), SwitchProgress(l)
  PROVE  OnceInv(k)'
<1>1. PICK m \in Message : m = Head(chan[l])
  BY ReceivedFrom, Zenon
<1>2. /\ m.type = "cmdSyncReq" /\ IsCmd(m) /\ need' = need
      /\ num' = [ckpt |-> num.ckpt + Collective(m.ckpt), exit |-> num.exit + Collective(m.exit)]
  BY <1>1, Zenon DEF SwitchProgress, IsCmd, Receive
<1>3. m \in Cmds(chan[l])
  BY <1>1, <1>2, ReceivedFrom, Zenon
<1>4. PICK n \in Nodes : l = Up(n)
  <2>1. PICK n \in Nodes : l = Up(n) \/ l = Down(n)
    BY LinksOf, Zenon
  <2>2. l = Down(n) => m = Ack(h)
    BY <1>3, Zenon DEF Explains, NodeInv, AnswerInv
  <2>3. Ack(h).type # "cmdSyncReq"
    BY Zenon DEF Ack
  <2> QED  BY <2>1, <2>2, <2>3, <1>2, Zenon
<1>5. /\ Cmds(chan'[Up(n)]) = {}
      /\ \A q \in Nodes \ {n} : chan'[Up(q)] = chan[Up(q)]
  BY <1>1, <1>2, <1>4, ReceivedFrom, LinksOf
<1>6. num'[k] = num[k] + Collective(m[k])
  BY <1>2
<1>7. PICK C \in SUBSET Nodes :
        /\ num[k] = Cardinality(C)
        /\ \A q \in Nodes :
             /\ q \in C => need[q][k] \in {"pending", "immediate"}
             /\ \A x \in Cmds(chan[Up(q)]) : x[k] = "collective" =>
                  q \notin C /\ need[q][k] \in {"pending", "immediate"}
  BY Zenon DEF OnceInv
<1>8. IsFiniteSet(C) /\ Cardinality(C) \in Nat
  BY DistAssumption, FS_Subset, FS_CardinalityType, Zenon
<1>9. CASE m[k] = "collective"
  <2>1. n \notin C /\ need[n][k] \in {"pending", "immediate"}
    BY <1>3, <1>4, <1>7, <1>9, Zenon
  <2>2. Cardinality(C \cup {n}) = Cardinality(C) + 1
    BY <1>8, <2>1, FS_AddElement, Zenon
  <2>3. num'[k] = Cardinality(C \cup {n})
    BY <1>6, <1>7, <1>9, <2>2, Zenon DEF Collective
  <2>4. C \cup {n} \in SUBSET Nodes
    BY Zenon
  <2>5. \A q \in Nodes :
             /\ q \in C \cup {n} => need'[q][k] \in {"pending", "immediate"}
             /\ \A x \in Cmds(chan'[Up(q)]) : x[k] = "collective" =>
                  q \notin C \cup {n} /\ need'[q][k] \in {"pending", "immediate"}
    BY <1>2, <1>5, <1>7, <2>1, Zenon
  <2> QED
    BY <2>3, <2>4, <2>5, Zenon DEF OnceInv
<1>10. CASE m[k] # "collective"
  <2>1. num'[k] = Cardinality(C)
    BY <1>6, <1>7, <1>8, <1>10 DEF Collective
  <2>2. \A q \in Nodes :
             /\ q \in C => need'[q][k] \in {"pending", "immediate"}
             /\ \A x \in Cmds(chan'[Up(q)]) : x[k] = "collective" =>
                  q \notin C /\ need'[q][k] \in {"pending", "immediate"}
    BY <1>2, <1>5, <1>7, Zenon
  <2> QED
    BY <2>1, <2>2, Zenon DEF OnceInv
<1> QED
  BY <1>9, <1>10, Zenon

\* The switch answers: a granted checkpoint resets its count.
LEMMA OnceAnswered ==
  ASSUME TypeInv, NEW k \in {"ckpt", "exit"}, OnceInv(k), SwitchDone
  PROVE  OnceInv(k)'
<1>1. need' = need
  BY Zenon DEF SwitchDone
<1>2. \A n \in Nodes : chan'[Up(n)] = chan[Up(n)]
  BY LinksOf DEF SwitchDone, Send
<1>3. num'[k] = num[k] \/ num'[k] = 0
  BY Zenon DEF SwitchDone, TypeInv
<1>4. CASE num'[k] = num[k]
  BY <1>1, <1>2, <1>4, Zenon DEF OnceInv
<1>5. CASE num'[k] = 0
  <2>1. Cardinality({}) = 0
    BY FS_EmptySet, Zenon
  <2>2. \A n \in Nodes : \A m \in Cmds(chan'[Up(n)]) : m[k] = "collective" =>
          need'[n][k] \in {"pending", "immediate"}
    BY <1>1, <1>2, Zenon DEF OnceInv
  <2>3. {} \in SUBSET Nodes /\ num'[k] = Cardinality({})
    BY <1>5, <2>1, Zenon
  <2> QED
    BY <2>2, <2>3, Zenon DEF OnceInv
<1> QED
  BY <1>3, <1>4, <1>5, Zenon

\* Every step keeps the counts.
LEMMA NextOnce ==
  ASSUME NEW k \in {"ckpt", "exit"}, IInv, OnceInv(k), [Next]_vars
  PROVE  OnceInv(k)'
<1>1. TypeInv
  BY Zenon DEF IInv
<1>2. PICK h \in Round : Explains(h)
  BY Zenon DEF IInv
<1>3. CASE UNCHANGED vars
  BY <1>3, OnceFrame, Zenon DEF vars
<1>4. ASSUME NEW p \in Peers, Step(p) \/ Crash(p) \/ BrokenPipe(p) PROVE OnceInv(k)'
  <2>1. CASE Start(p) \/ Process(p) \/ Drained(p)
    <3>1. num' = num
      BY <2>1, Zenon DEF Start, Process, Drained
    <3>2. (\E loc \in Waiting : Run(p, loc)) \/ (need' = need /\ chan' = chan)
      BY <2>1, Zenon DEF Start, Process, Drained, Waiting
    <3> QED
      BY <1>1, <1>4, <3>1, <3>2, OnceRun, OnceFrame, Zenon
  <2>2. CASE \/ Quit(p) \/ Advance(p) \/ BrokenPipe(p) \/ NodeDone(p) \/ SwitchGoesOn
             \/ \E l \in In(p) : PopPacket(l)
    <3>1. need' = need /\ num' = num /\ chan' = chan
      BY <2>2, Zenon DEF Quit, Advance, BrokenPipe, NodeDone, SwitchGoesOn, PopPacket, requests
    <3> QED
      BY <3>1, OnceFrame, Zenon
  <2>3. CASE Close(p) \/ Crash(p)
    <3>1. /\ need' = need /\ num' = num
          /\ \A l \in Links : chan'[l] = <<>> \/ chan'[l] = chan[l]
      BY <2>3, Zenon DEF Close, Crash, Gone, requests
    <3> QED
      BY <3>1, OnceFrame, EmptyChannel, LinksOf, Zenon
  <2>4. CASE SwitchDone
    BY <1>1, <2>4, OnceAnswered, Zenon
  <2> QED
    BY <1>4, <2>1, <2>2, <2>3, <2>4, Zenon DEF Step
<1>5. ASSUME NEW n \in Nodes, RequestCkpt(n) \/ RequestExit(n) PROVE OnceInv(k)'
  <2>1. num' = num /\ chan' = chan
    BY <1>5, Zenon DEF RequestCkpt, RequestExit
  <2>2. PICK r \in [ckpt : Requests, exit : Requests] : r = need[n]
    BY <1>1, Zenon DEF TypeInv
  <2>3. PICK req \in {"immediate", "collective"} :
          \/ need' = [need EXCEPT ![n] = [r EXCEPT !.ckpt = Ask(r.ckpt, req)]]
          \/ need' = [need EXCEPT ![n] = [r EXCEPT !.exit = Ask(r.exit, req)]]
    BY <1>5, <2>2, Zenon DEF RequestCkpt, RequestExit
  <2>4. \A q \in Nodes \ {n} : need'[q] = need[q]
    BY <1>1, <2>3, Zenon DEF TypeInv
  <2>5. need'[n][k] = r[k] \/ need'[n][k] = Ask(r[k], req)
    BY <1>1, <2>3 DEF TypeInv
  <2>6. r[k] \in {"pending", "immediate"} => need'[n][k] \in {"pending", "immediate"}
    BY <2>5, Zenon DEF Ask
  <2> QED
    BY <2>1, <2>2, <2>4, <2>6, OnceAsked, Zenon
<1>6. ASSUME NEW l \in Traffic, PacketOut(l) PROVE OnceInv(k)'
  <2>1. need' = need /\ num' = num
    BY <1>6, Zenon DEF PacketOut, requests
  <2>2. PICK d \in SendDelays :
          Send({l}, [type |-> "dataDescriptor", sendTick |-> curTick[l[1]], sendDelay |-> d])
    BY <1>6, Zenon DEF PacketOut
  <2>3. ASSUME NEW n \in Nodes PROVE Cmds(chan'[Up(n)]) = Cmds(chan[Up(n)])
    <3>1. chan[Up(n)] \in Seq(Message) /\ Up(n) \in Links /\ Up(n)[1] = n /\ n \in Peers
      BY <1>1, LinksOf, Zenon DEF TypeInv, Peers
    <3>2. CASE Up(n) # l
      BY <2>2, <3>1, <3>2, Zenon DEF Send
    <3>3. CASE Up(n) = l
      <4>1. PICK m \in Message : /\ m = [type |-> "dataDescriptor", sendTick |-> curTick[l[1]],
                                         sendDelay |-> d]
                                 /\ ~IsCmd(m)
        <5>1. [type |-> "dataDescriptor", sendTick |-> curTick[l[1]], sendDelay |-> d] \in Message
          BY <1>1, <3>1, <3>3, DistAssumption, Zenon DEF TypeInv, Message
        <5> QED
          BY <5>1, Zenon DEF IsCmd
      <4>2. chan'[Up(n)] = chan[Up(n)] \/ chan'[Up(n)] = Append(chan[Up(n)], m)
        BY <2>2, <3>1, <3>3, <4>1, Zenon DEF Send
      <4> QED
        BY <3>1, <4>1, <4>2, AppendPacket, Zenon
    <3> QED
      BY <3>2, <3>3, Zenon
  <2> QED
    BY <2>1, <2>3, OnceFrame, Zenon
<1>7. ASSUME NEW l \in Links, Receive(l) PROVE OnceInv(k)'
  <2>1. CASE SwitchProgress(l)
    BY <1>1, <1>2, <1>7, <2>1, OnceCounted, Zenon
  <2>2. CASE PushPacket(l) \/ NodeProgress(l) \/ ProgressAborted(l)
    <3>1. need' = need /\ num' = num
      BY <1>7, <2>2, Zenon DEF Receive, PushPacket, NodeProgress, ProgressAborted
    <3>2. \A n \in Links : Cmds(chan'[n]) \subseteq Cmds(chan[n])
      BY <1>1, <1>2, <1>7, ReceivedFrom, Zenon
    <3> QED
      BY <3>1, <3>2, OnceFrame, LinksOf, Zenon
  <2> QED
    BY <1>7, <2>1, <2>2, Zenon DEF Receive
<1>8. ASSUME NEW l \in Links, ConnectionLost(l) PROVE OnceInv(k)'
  BY <1>8, OnceFrame, Zenon DEF ConnectionLost, requests
<1> QED
  BY <1>3, <1>4, <1>5, <1>6, <1>7, <1>8, Zenon DEF Next, Thread

----------------------------------------------------------------------------
(* The theorems *)

\* The assertions on waitNum hold at every sync.
THEOREM OneSync == Spec => []OneSyncAtATime
<1>1. IInv => OneSyncAtATime
  <2> SUFFICES ASSUME IInv PROVE OneSyncAtATime
    BY Zenon
  <2>1. PICK h \in Round : Explains(h)
    BY Zenon DEF IInv
  <2>2. \A n \in Nodes : pc[n] \in {"run", "drain"} => sync[n].waitNum = 0
    BY <2>1, Zenon DEF Explains, NodeInv, Idle
  <2>3. ASSUME NEW l \in Links, chan[l] # <<>>, ~sync[l[2]].isAbort, IsCmd(Head(chan[l]))
        PROVE  sync[l[2]].waitNum > 0
    <3>1. chan[l] \in Seq(Message)
      BY Zenon DEF IInv, TypeInv
    <3>2. Head(chan[l]) \in Cmds(chan[l])
      BY <2>3, <3>1, HeadCmd, Zenon
    <3>3. PICK n \in Nodes : l = Up(n) \/ l = Down(n)
      BY LinksOf, Zenon
    <3>4. NodeInv(n, h)
      BY <2>1, Zenon DEF Explains
    <3>5. CASE l = Up(n)
      <4>1. n \notin h.counted /\ l[2] = Switch
        BY <3>2, <3>4, <3>5, LinksOf, Zenon DEF NodeInv, RequestInv
      <4>2. /\ IsFiniteSet(Nodes) /\ h.counted \subseteq Nodes /\ h.counted # Nodes
        BY <4>1, DistAssumption, Zenon DEF Round
      <4>3. /\ Cardinality(h.counted) < Cardinality(Nodes)
            /\ Cardinality(h.counted) \in Nat /\ Cardinality(Nodes) \in Nat
        BY <4>2, FS_Subset, FS_CardinalityType
      <4>4. sync[Switch].waitNum = Cardinality(Nodes) - Cardinality(h.counted)
        BY <2>1, <2>3, <4>1, Zenon DEF Explains, SwitchInv
      <4> QED
        BY <4>1, <4>3, <4>4
    <3>6. CASE l = Down(n)
      BY <3>2, <3>4, <3>6, LinksOf DEF NodeInv, AnswerInv, Unread
    <3> QED
      BY <3>3, <3>5, <3>6, Zenon
  <2> QED
    BY <2>2, <2>3, Zenon DEF OneSyncAtATime
<1> QED
  BY <1>1, Invariance, PTL

\* A periodic sync completes at the tick at which the node entered it: the
\* last assertion of SyncNode::run never fails.
THEOREM SyncsAtOneTick == Spec => []SameTick
<1>1. IInv => SameTick
  <2> SUFFICES ASSUME IInv, NEW n \in Nodes, pc[n] = "syncing", sync[n].waitNum = 0, ~sync[n].isAbort
               PROVE  sync[n].nextAt = curTick[n]
    BY Zenon DEF SameTick
  <2>1. PICK h \in Round : Explains(h)
    BY Zenon DEF IInv
  <2>2. Live(n) /\ NodeInv(n, h)
    BY <2>1, Zenon DEF Live, Explains
  <2>3. ~Simulates(n, h)
    BY Zenon DEF Simulates, Round, Idle
  <2>4. Read(n, h)
    BY <2>2, <2>3 DEF NodeInv, LiveInv, Asked, Unread
  <2>5. h.last = "run"
    BY <2>4, Zenon DEF Read, Lags, Round, Idle, Wait
  <2> QED
    BY <2>4, <2>5, Zenon DEF Read, Lags
<1> QED
  BY <1>1, Invariance, PTL

\* The nodes take a checkpoint at the same sync.
THEOREM OneCheckpoint == Spec => []CheckpointTogether
<1>1. IInv => CheckpointTogether
  <2> SUFFICES ASSUME IInv, NEW m \in Nodes, NEW n \in Nodes,
                      pc[m] = "drain", pc[n] = "run", ~sync[n].isAbort
               PROVE  FALSE
    BY Zenon DEF CheckpointTogether
  <2>1. PICK h \in Round : Explains(h)
    BY Zenon DEF IInv
  <2>2. h.next = "drain"
    BY <2>1, Zenon DEF Explains, NodeInv
  <2>3. Live(n) /\ LiveInv(n, h)
    BY <2>1, Zenon DEF Live, Explains, NodeInv
  <2> QED
    BY <2>2, <2>3, Zenon DEF LiveInv, Simulates, Asked, Unread, Read, Lags, Wait, Round, Idle
<1> QED
  BY <1>1, Invariance, PTL

\* Two peers that write their checkpoints have no packet between them: a
\* request comes after everything its node has sent, an answer after
\* everything the switch has.
THEOREM DrainedNetwork == Spec => []NothingInFlight
<1>1. IInv => NothingInFlight
  <2> DEFINE Writes(p) == IF p = Switch THEN pc[p] = "drained"
                          ELSE pc[p] = "draining" /\ sync[p].waitNum = 0 /\ ~sync[p].isAbort
  <2> SUFFICES ASSUME IInv, NEW l \in Links, Writes(l[1]), Writes(l[2]), NEW i \in 1 .. Len(chan[l])
               PROVE  IsCmd(chan[l][i])
    BY Zenon DEF NothingInFlight
  <2>1. PICK h \in Round : Explains(h)
    BY Zenon DEF IInv
  <2>2. PICK n \in Nodes : l = Up(n) \/ l = Down(n)
    BY LinksOf, Zenon
  <2>3. /\ pc[Switch] = "drained" /\ pc[n] = "draining"
        /\ sync[n].waitNum = 0 /\ ~sync[n].isAbort
    BY <2>2, LinksOf, DistAssumption
  <2>4. NodeInv(n, h)
    BY <2>1, Zenon DEF Explains
  <2>5. Cmds(chan[Up(n)]) = {} /\ Cmds(chan[Down(n)]) = {}
    BY <2>3, <2>4, Outside, Zenon
  <2>6. Sealed(chan[Up(n)]) /\ Sealed(chan[Down(n)])
    BY <2>3, <2>4, Zenon DEF NodeInv, RequestInv, AnswerInv, Waiting
  <2>7. chan[l] \in Seq(Message) /\ i \in DOMAIN chan[l]
    BY DEF IInv, TypeInv
  <2> QED
    BY <2>2, <2>5, <2>6, <2>7, SealedEmpty, Zenon
<1> QED
  BY <1>1, Invariance, PTL

\* A collective request counts once.
THEOREM CountsOnce == Spec => []CountedOnce
<1>1. Init => OnceInv("ckpt") /\ OnceInv("exit")
  <2> SUFFICES ASSUME Init, NEW k \in {"ckpt", "exit"} PROVE OnceInv(k)
    BY Zenon
  <2>1. num[k] = 0 /\ \A n \in Nodes : chan[Up(n)] = <<>>
    BY LinksOf DEF Init
  <2>2. {} \in SUBSET Nodes /\ num[k] = Cardinality({})
    BY <2>1, FS_EmptySet, Zenon
  <2> QED
    BY <2>1, <2>2, EmptyChannel, Zenon DEF OnceInv
<1>2. IInv /\ OnceInv("ckpt") /\ OnceInv("exit") /\ [Next]_vars
        => OnceInv("ckpt")' /\ OnceInv("exit")'
  BY NextOnce, Zenon
<1>3. OnceInv("ckpt") /\ OnceInv("exit") => CountedOnce
  <2>1. ASSUME NEW k \in {"ckpt", "exit"}, OnceInv(k)
        PROVE  num[k] <= Cardinality({n \in Nodes : need[n][k] # "none"})
    <3>1. PICK C \in SUBSET Nodes : /\ num[k] = Cardinality(C)
                                    /\ \A n \in C : need[n][k] # "none"
      BY <2>1, Zenon DEF OnceInv
    <3>2. /\ C \subseteq {n \in Nodes : need[n][k] # "none"}
          /\ IsFiniteSet({n \in Nodes : need[n][k] # "none"})
      BY <3>1, DistAssumption, FS_Subset, Zenon
    <3> QED
      BY <3>1, <3>2, FS_Subset, Zenon
  <2> QED
    BY <2>1, Zenon DEF CountedOnce
<1> QED
  BY <1>1, <1>2, <1>3, Invariance, PTL DEF Spec
=============================================================================
