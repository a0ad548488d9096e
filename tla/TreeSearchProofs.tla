-------------------------- MODULE TreeSearchProofs --------------------------
(***************************************************************************)
(* The tree-search benchmark on every graph and with any number of         *)
(* workers: the flag that ends the process means what it says, no array    *)
(* is overrun, and no vertex is lost between the threads.                  *)
(***************************************************************************)
EXTENDS TreeSearch, FiniteSetTheorems, WellFoundedInduction, TLAPS

Early == {"new", "barrier", "check", "broadcast", "process"}
Scanning == {"scan", "put", "count"}
InPass == {"wake", "search", "mark"}

\* Types.
TypeInv ==
  /\ queue \in Seq(Vertices) /\ length \in Nat /\ counter \in Nat
  /\ visited \subseteq Vertices \cup {Heard} /\ reported \subseteq Vertices
  /\ subThread \in BOOLEAN /\ mainThread \in BOOLEAN
  /\ pc \in [Workers -> {"new", "bind", "barrier", "idle", "look", "asleep", "woken",
                         "take", "wake", "search", "mark"}]
  /\ slept \in [Workers -> BOOLEAN]
  /\ at \in [Workers -> Nat] /\ height \in [Workers -> Nat]
  /\ bfs \in [pc : Early \cup Scanning \cup {"get", "over"}, previous : Vertices, at : Nat]

\* A worker that has not given up is counted.
SleepInv ==
  /\ thread_counter = Cardinality({w \in Workers : ~slept[w]})
  /\ subThread <=> \A w \in Workers : slept[w]
  /\ \A w \in Workers :
       /\ pc[w] \in {"new", "bind", "barrier", "idle", "search", "mark"} => ~slept[w]
       /\ pc[w] = "wake" => slept[w]
  /\ proc = "poll" => bfs.pc = "new" /\ \A w \in Workers : pc[w] = "new"

\* What the breadth-first thread has put, counted and is about to put.
QueueInv ==
  /\ counter <= length
  /\ Len(queue) = IF bfs.pc = "count" THEN length + 1 ELSE length
  /\ IsInjective(queue) /\ initValue \notin Range(queue)
  /\ bfs.pc = "put" => bfs.at \in Vertices /\ bfs.at \notin Range(queue) /\ bfs.at # initValue
  /\ bfs.pc = "count" => bfs.at \in Range(queue)
  /\ bfs.pc \notin Scanning => bfs.at = 0
  /\ bfs.previous \in Range(queue) \cup {initValue}
  /\ initValue \in visited \/ (bfs.previous = initValue /\ bfs.pc \in Early)
  /\ mainThread => bfs.pc = "over" /\ counter = length

\* A search skips at least queue[1], so its stack does not outgrow the vertices.
StackOK(w) ==
  IF pc[w] \in InPass
  THEN /\ Len(queue) >= 1
       /\ at[w] <= totalVertex
       /\ height[w] <= IF at[w] > queue[1] THEN at[w] ELSE at[w] + 1
       /\ pc[w] = "mark" => at[w] \in Vertices /\ at[w] # queue[1]
  ELSE height[w] = 0
StackInv == \A w \in Workers : StackOK(w)

\* The vertices that a search skips; they only grow.
Claimed == visited \cup Range(queue)

ScannedTo(v, k) == \A j \in Vertices : connected(v, j) /\ j < k => j \in Claimed

\* The breadth-first thread will see to the neighbours of v.
InHand(v) ==
  /\ bfs.previous = v
  /\ \/ bfs.pc \in Early /\ v \notin visited
     \/ bfs.pc \in Scanning /\ ScannedTo(v, bfs.at)

Searching == \E w \in Workers : pc[w] \in InPass

Met == visited \cup {initValue} \cup {queue[k] : k \in 1 .. counter}

\* The neighbours of what was met are claimed, or will be by the breadth-first
\* thread, or by a search, whose pass claims every vertex.
CoverInv == Searching \/ \A v \in Met : ScannedTo(v, totalVertex) \/ InHand(v)

PassInv ==
  \A w \in Workers : pc[w] \in InPass => \A j \in Vertices : j < at[w] => j \in Claimed

ReportInv ==
  /\ reported \subseteq Claimed
  /\ Claimed \subseteq reported \cup {initValue, Heard} \cup (IF bfs.pc = "count" THEN {bfs.at} ELSE {})

IInv == TypeInv /\ SleepInv /\ QueueInv /\ StackInv /\ CoverInv /\ PassInv /\ ReportInv

----------------------------------------------------------------------------
(* Lemmas on sets and sequences *)

\* A set of naturals that is not empty has its minimum as an element.
LEMMA MinOfNaturals ==
  ASSUME NEW S \in SUBSET Nat, S # {}
  PROVE  Min(S) \in S /\ \A y \in S : Min(S) <= y
<1> DEFINE R == OpToRel(<, Nat)
<1>0. \A x, y \in Nat : x < y => <<x, y>> \in R
  <2> TAKE x, y \in Nat
  <2> HAVE x < y
  <2>1. <<x, y>> \in Nat \X Nat /\ <<x, y>>[1] < <<x, y>>[2]
    OBVIOUS
  <2> QED
    BY <2>1, Zenon DEF OpToRel
<1>1. PICK x \in S : \A y \in S : ~(<<y, x>> \in R)
  <2>1. IsWellFoundedOn(R, Nat)
    BY NatLessThanWellFounded, Zenon
  <2> HIDE DEF R
  <2> QED
    BY <2>1, WFMin, Zenon
<1> HIDE DEF R
<1>2. ASSUME NEW y \in S PROVE x <= y
  <2>1. ~(y < x)
    BY <1>0, <1>1, Zenon
  <2> QED
    BY <2>1
<1> QED
  BY <1>2, Zenon DEF Min

\* Appending a new element.
LEMMA AppendRange ==
  ASSUME NEW T, NEW s \in Seq(T), NEW x \in T
  PROVE  /\ Append(s, x) \in Seq(T) /\ Len(Append(s, x)) = Len(s) + 1
         /\ Range(Append(s, x)) = Range(s) \cup {x}
         /\ \A k \in 1 .. Len(s) : Append(s, x)[k] = s[k]
         /\ IsInjective(s) /\ x \notin Range(s) => IsInjective(Append(s, x))
<1>1. /\ Append(s, x) \in Seq(T) /\ Len(Append(s, x)) = Len(s) + 1
      /\ \A k \in 1 .. Len(s) : Append(s, x)[k] = s[k]
      /\ Append(s, x)[Len(s) + 1] = x
      /\ DOMAIN s = 1 .. Len(s) /\ Len(s) \in Nat
      /\ DOMAIN Append(s, x) = 1 .. (Len(s) + 1)
  OBVIOUS
<1>2. Range(Append(s, x)) = Range(s) \cup {x}
  BY <1>1 DEF Range
<1>3. IsInjective(s) /\ x \notin Range(s) => IsInjective(Append(s, x))
  BY <1>1 DEF Range, IsInjective
<1> QED
  BY <1>1, <1>2, <1>3

\* There are finitely many workers, and at least one.
LEMMA WorkersFinite == IsFiniteSet(Workers) /\ Workers # {}
<1>1. thread_Num \in Nat /\ thread_Num >= 1
  BY TreeAssumption
<1>2. IsFiniteSet(1 .. thread_Num)
  BY <1>1, FS_Interval
<1>3. 1 \in Workers
  BY <1>1 DEF Workers
<1> QED
  BY <1>2, <1>3 DEF Workers

\* The vertices still to look at are naturals.
LEMMA ChildrenMin ==
  ASSUME TypeInv, Children # {}
  PROVE  /\ Min(Children) \in Children
         /\ \A y \in Children : Min(Children) <= y
         /\ Min(Children) \in Nat
<1>1. Children \in SUBSET Nat
  BY TreeAssumption DEF Children, Vertices
<1> QED
  BY <1>1, MinOfNaturals, Zenon

LEMMA UnclaimedMin ==
  ASSUME TypeInv, NEW w \in Workers, Unclaimed(w) # {}
  PROVE  /\ Min(Unclaimed(w)) \in Unclaimed(w)
         /\ \A y \in Unclaimed(w) : Min(Unclaimed(w)) <= y
         /\ Min(Unclaimed(w)) \in Nat
<1>1. Unclaimed(w) \in SUBSET Nat
  BY TreeAssumption DEF Unclaimed, Vertices
<1> QED
  BY <1>1, MinOfNaturals

\* The entries of the queue are vertices, and the queue has a slot for each.
LEMMA QueueEntries ==
  ASSUME TypeInv
  PROVE  /\ Len(queue) \in Nat /\ DOMAIN queue = 1 .. Len(queue)
         /\ Range(queue) \subseteq Vertices
         /\ \A k \in 1 .. Len(queue) : queue[k] \in Range(queue)
  BY DEF TypeInv, Range

----------------------------------------------------------------------------
(* The initial states *)

LEMMA InitIInv == Init => IInv
<1> SUFFICES ASSUME Init PROVE IInv
  OBVIOUS
<1> USE TreeAssumption
<1>1. TypeInv
  <2>1. /\ queue \in Seq(Vertices)
        /\ bfs \in [pc : Early \cup Scanning \cup {"get", "over"}, previous : Vertices, at : Nat]
    BY DEF Init, Early
  <2> QED
    BY <2>1, Zenon DEF Init, TypeInv
<1>2. SleepInv
  <2>1. {w \in Workers : ~slept[w]} = 1 .. thread_Num
    BY DEF Init, Workers
  <2>2. Cardinality(1 .. thread_Num) = thread_Num
    BY FS_Interval
  <2> QED
    BY <2>1, <2>2, WorkersFinite, Zenon DEF Init, SleepInv
<1>3. QueueInv
  BY DEF Init, QueueInv, IsInjective, Range, Early, Scanning
<1>4. StackInv
  BY DEF Init, StackInv, StackOK, InPass
<1>5. CoverInv
  BY DEF Init, CoverInv, Met, InHand, Early
<1>6. PassInv /\ ReportInv
  BY DEF Init, PassInv, ReportInv, Claimed, Range, InPass
<1> QED
  BY <1>1, <1>2, <1>3, <1>4, <1>5, <1>6 DEF IInv

----------------------------------------------------------------------------
(* Types *)

LEMMA TypeStep ==
  ASSUME TypeInv, QueueInv, StackInv, Next
  PROVE  TypeInv'
<1>a. /\ length \in Nat /\ counter \in Nat
      /\ visited \subseteq Vertices \cup {Heard} /\ reported \subseteq Vertices
  BY DEF TypeInv
<1>b. at \in [Workers -> Nat] /\ height \in [Workers -> Nat]
  BY DEF TypeInv
<1>c. bfs \in [pc : Early \cup Scanning \cup {"get", "over"}, previous : Vertices, at : Nat]
  BY DEF TypeInv
<1>1. CASE Start
  BY <1>1, Zenon DEF TypeInv, Start, checkThread, flags, search, Early, Scanning
<1>2. CASE ReadSub
  BY <1>2 DEF TypeInv, ReadSub, shared, flags, search, host, Early, Scanning
<1>3. CASE ReadMain
  BY <1>3 DEF TypeInv, ReadMain, shared, flags, search, host, Early, Scanning
<1>4. CASE Barrier
  BY <1>4, Zenon DEF TypeInv, Barrier, shared, flags, search, host, Early, Scanning
<1>5. CASE Process
  BY <1>5, Zenon DEF TypeInv, Process, shared, flags, search, host, Early, Scanning
<1>6. CASE Scan
  <2>1. Children # {} => Min(Children) \in Nat
    BY ChildrenMin
  <2> QED
    BY <1>6, <2>1, Zenon DEF TypeInv, Scan, shared, flags, search, host, Early, Scanning
<1>7. CASE Put
  BY <1>7, AppendRange, Zenon DEF TypeInv, Put, QueueInv, flags, search, host, Early, Scanning
<1>8. CASE Count
  <2>1. bfs.at \in Vertices
    BY <1>8, QueueEntries DEF Count, QueueInv
  <2> QED
    <3>1. bfs' \in [pc : Early \cup Scanning \cup {"get", "over"}, previous : Vertices, at : Nat]
      <4>1. bfs.at + 1 \in Nat /\ bfs.previous \in Vertices
        BY <1>c
      <4>2. bfs' = [pc |-> "scan", previous |-> bfs.previous, at |-> bfs.at + 1]
        BY <1>c, <1>8, Zenon DEF Count
      <4> QED
        BY <4>1, <4>2 DEF Scanning
    <3>2. length' \in Nat /\ reported' \subseteq Vertices
      BY <1>a, <1>8, <2>1 DEF Count
    <3> QED
      BY <1>8, <3>1, <3>2 DEF TypeInv, Count, flags, search, host
<1>9. CASE Get
  <2>1. counter # length => counter + 1 \in 1 .. Len(queue)
    BY <1>a, <1>9, QueueEntries DEF Get, QueueInv
  <2>2. counter # length => queue[counter + 1] \in Vertices
    BY <2>1, QueueEntries
  <2> QED
    <3>1. bfs' \in [pc : Early \cup Scanning \cup {"get", "over"}, previous : Vertices, at : Nat]
      BY <1>c, <1>9, <2>2, Zenon DEF Get, Early
    <3>2. counter' \in Nat
      BY <1>a, <1>9 DEF Get
    <3>3. mainThread' \in BOOLEAN
      BY <1>9, Zenon DEF TypeInv, Get
    <3> QED
      BY <1>9, <3>1, <3>2, <3>3 DEF TypeInv, Get, search, host
<1>10. CASE Check
  BY <1>10, Zenon DEF TypeInv, Check, shared, flags, search, host, Early, Scanning
<1>11. CASE Broadcast
  BY <1>11, Zenon DEF TypeInv, Broadcast, shared, flags, search, host, Early, Scanning
<1>12. ASSUME NEW w \in Workers, Bind(w) PROVE TypeInv'
  BY <1>12 DEF TypeInv, Bind, shared, flags, search, host
<1>13. ASSUME NEW w \in Workers, Lock(w) PROVE TypeInv'
  BY <1>13 DEF TypeInv, Lock, shared, flags, search, host
<1>14. ASSUME NEW w \in Workers, Look(w) PROVE TypeInv'
  BY <1>14, Zenon DEF TypeInv, Look, Sleep, shared, flags, search, host
<1>15. ASSUME NEW w \in Workers, Take(w) PROVE TypeInv'
  <2>1. CASE counter = length
    BY <1>15, <2>1, Zenon DEF TypeInv, Take, Sleep, host
  <2>2. CASE counter # length
    <3>1. at' \in [Workers -> Nat] /\ height' \in [Workers -> Nat]
      BY <1>b, <1>15, <2>2 DEF Take
    <3>2. counter' \in Nat
      BY <1>a, <1>15, <2>2 DEF Take
    <3> QED
      BY <1>15, <2>2, <3>1, <3>2, Zenon DEF TypeInv, Take, host
  <2> QED
    BY <2>1, <2>2
<1>16. ASSUME NEW w \in Workers, Wake(w) PROVE TypeInv'
  BY <1>16, Zenon DEF TypeInv, Wake, shared, flags, search, host
<1>17. ASSUME NEW w \in Workers, Search(w) PROVE TypeInv'
  <2>1. Unclaimed(w) # {} => Min(Unclaimed(w)) \in Nat
    BY <1>17, UnclaimedMin
  <2>2. at' \in [Workers -> Nat] /\ height' \in [Workers -> Nat]
    BY <1>b, <1>17, <2>1 DEF Search
  <2> QED
    BY <1>17, <2>2, Zenon DEF TypeInv, Search, shared, flags, host
<1>18. ASSUME NEW w \in Workers, Mark(w) PROVE TypeInv'
  <2>1. at[w] \in Vertices
    BY <1>18 DEF Mark, StackInv, StackOK, InPass
  <2> QED
    BY <1>18, <2>1 DEF TypeInv, Mark, flags, host
<1>19. ASSUME NEW w \in Workers, SpuriousWakeup(w) PROVE TypeInv'
  BY <1>19 DEF TypeInv, SpuriousWakeup, shared, flags, search, host
<1> QED
  BY <1>1, <1>2, <1>3, <1>4, <1>5, <1>6, <1>7, <1>8, <1>9, <1>10,
     <1>11, <1>12, <1>13, <1>14, <1>15, <1>16, <1>17, <1>18, <1>19
     DEF Next, Main, BFS, Worker

----------------------------------------------------------------------------
(* The flag subThread *)

\* A worker gives up for the first time, or comes back.
LEMMA SleepCount ==
  ASSUME NEW w \in Workers, SleepInv, slept \in [Workers -> BOOLEAN]
  PROVE  LET up == {v \in Workers : ~slept[v]}
             down == {v \in Workers : ~[slept EXCEPT ![w] = TRUE][v]}
             back == {v \in Workers : ~[slept EXCEPT ![w] = FALSE][v]}
         IN  /\ thread_counter \in Nat
             /\ ~slept[w] => /\ thread_counter - 1 = Cardinality(down)
                             /\ thread_counter - 1 = 0 <=> down = {}
             /\ slept[w] => down = up /\ thread_counter + 1 = Cardinality(back)
<1> DEFINE up == {v \in Workers : ~slept[v]}
           down == {v \in Workers : ~[slept EXCEPT ![w] = TRUE][v]}
           back == {v \in Workers : ~[slept EXCEPT ![w] = FALSE][v]}
<1>1. IsFiniteSet(up)
  BY WorkersFinite, FS_Subset
<1>2. thread_counter = Cardinality(up) /\ thread_counter \in Nat
  BY <1>1, FS_CardinalityType DEF SleepInv
<1>3. down = up \ {w} /\ back = up \cup {w}
  OBVIOUS
<1>4. ~slept[w] => w \in up
  OBVIOUS
<1>5. slept[w] => w \notin up
  OBVIOUS
<1> HIDE DEF up, down, back
<1>6. IsFiniteSet(down) /\ Cardinality(down) \in Nat /\ (Cardinality(down) = 0 <=> down = {})
  BY <1>1, <1>3, FS_Subset, FS_CardinalityType, FS_EmptySet
<1>7. ~slept[w] => Cardinality(down) = Cardinality(up) - 1
  BY <1>1, <1>3, <1>4, FS_RemoveElement
<1>8. slept[w] => down = up /\ Cardinality(back) = Cardinality(up) + 1
  BY <1>1, <1>3, <1>5, FS_AddElement, Zenon
<1> QED
  BY <1>2, <1>6, <1>7, <1>8 DEF up, down, back

LEMMA SleepSleeps ==
  ASSUME NEW w \in Workers, TypeInv, SleepInv, Sleep(w), proc # "poll", UNCHANGED proc
  PROVE  SleepInv'
<1>1. slept \in [Workers -> BOOLEAN] /\ subThread \in BOOLEAN
  BY DEF TypeInv
<1> DEFINE up == {v \in Workers : ~slept[v]}
           down == {v \in Workers : ~slept'[v]}
<1>2. /\ thread_counter \in Nat
      /\ ~slept[w] => thread_counter - 1 = Cardinality(down) /\ (thread_counter - 1 = 0 <=> down = {})
      /\ slept[w] => down = up
  BY <1>1, SleepCount, Zenon DEF Sleep
<1>3. thread_counter = Cardinality(up) /\ (subThread <=> up = {})
  BY <1>1 DEF SleepInv
<1>4. down = {} <=> \A v \in Workers : slept'[v]
  OBVIOUS
<1> HIDE DEF up, down
<1>5. thread_counter' = Cardinality(down) /\ (subThread' <=> down = {})
  <2>1. CASE slept[w]
    <3>1. thread_counter' = thread_counter /\ (subThread' <=> subThread)
      BY <1>1, <2>1 DEF Sleep
    <3> QED
      BY <1>2, <1>3, <2>1, <3>1
  <2>2. CASE ~slept[w]
    <3>1. thread_counter' = thread_counter - 1
      BY <2>2 DEF Sleep
    <3>2. ~subThread
      BY <1>1, <2>2 DEF SleepInv
    <3>3. subThread' <=> thread_counter' = 0
      BY <1>1, <2>2, <3>2, Zenon DEF Sleep
    <3> QED
      BY <1>2, <2>2, <3>1, <3>3
  <2> QED
    BY <2>1, <2>2
<1>6. \A v \in Workers :
        /\ pc'[v] \in {"new", "bind", "barrier", "idle", "search", "mark"} => ~slept'[v]
        /\ pc'[v] = "wake" => slept'[v]
  BY DEF SleepInv, Sleep, TypeInv
<1> QED
  BY <1>4, <1>5, <1>6 DEF SleepInv, down

LEMMA SleepStep ==
  ASSUME TypeInv, SleepInv, Next
  PROVE  SleepInv'
<1>a. slept \in [Workers -> BOOLEAN] /\ subThread \in BOOLEAN
  BY DEF TypeInv
<1>1. CASE Start
  BY <1>1 DEF SleepInv, TypeInv, Start, shared, flags, search, host
<1>2. CASE ReadSub
  BY <1>2 DEF SleepInv, TypeInv, ReadSub, shared, flags, search, host
<1>3. CASE ReadMain
  BY <1>3 DEF SleepInv, TypeInv, ReadMain, shared, flags, search, host
<1>4. CASE Barrier
  BY <1>4 DEF SleepInv, TypeInv, Barrier, shared, flags, search, host
<1>5. CASE Process
  BY <1>5 DEF SleepInv, TypeInv, Process, flags, search, host
<1>6. CASE Scan
  BY <1>6 DEF SleepInv, TypeInv, Scan, shared, flags, search, host
<1>7. CASE Put
  BY <1>7 DEF SleepInv, TypeInv, Put, flags, search, host
<1>8. CASE Count
  BY <1>8 DEF SleepInv, TypeInv, Count, flags, search, host
<1>9. CASE Get
  BY <1>9 DEF SleepInv, TypeInv, Get, search, host
<1>10. CASE Check
  BY <1>10 DEF SleepInv, TypeInv, Check, shared, flags, search, host
<1>11. CASE Broadcast
  BY <1>11 DEF SleepInv, TypeInv, Broadcast, shared, flags, search, host
<1>12. ASSUME NEW w \in Workers, Bind(w) PROVE SleepInv'
  BY <1>12 DEF SleepInv, TypeInv, Bind, shared, flags, search, host
<1>13. ASSUME NEW w \in Workers, Lock(w) PROVE SleepInv'
  BY <1>13 DEF SleepInv, TypeInv, Lock, shared, flags, host
<1>14. ASSUME NEW w \in Workers, Look(w) PROVE SleepInv'
  <2>1. proc # "poll" /\ UNCHANGED proc
    BY <1>14 DEF Look, SleepInv, host
  <2>2. CASE Sleep(w)
    BY <2>1, <2>2, SleepSleeps
  <2>3. CASE UNCHANGED <<slept, thread_counter, subThread>> /\ pc' = [pc EXCEPT ![w] = "take"]
    BY <2>1, <2>3 DEF SleepInv, TypeInv
  <2> QED
    BY <1>14, <2>2, <2>3 DEF Look
<1>15. ASSUME NEW w \in Workers, Take(w) PROVE SleepInv'
  <2>1. proc # "poll" /\ UNCHANGED proc
    BY <1>15 DEF Take, SleepInv, host
  <2>2. CASE Sleep(w)
    BY <2>1, <2>2, SleepSleeps
  <2>3. CASE /\ UNCHANGED <<slept, thread_counter, subThread>>
             /\ pc' = [pc EXCEPT ![w] = IF slept[w] THEN "wake" ELSE "search"]
    BY <2>1, <2>3 DEF SleepInv, TypeInv
  <2> QED
    BY <1>15, <2>2, <2>3 DEF Take
<1>16. ASSUME NEW w \in Workers, Wake(w) PROVE SleepInv'
  <2>1. slept[w]
    BY <1>16 DEF Wake, SleepInv
  <2>2. thread_counter' = Cardinality({v \in Workers : ~slept'[v]})
    BY <1>a, <1>16, <2>1, SleepCount, Zenon DEF Wake
  <2>3. subThread' <=> \A v \in Workers : slept'[v]
    BY <1>a, <1>16 DEF Wake
  <2> QED
    BY <1>16, <2>2, <2>3 DEF SleepInv, TypeInv, Wake, host
<1>17. ASSUME NEW w \in Workers, Search(w) PROVE SleepInv'
  BY <1>17 DEF SleepInv, TypeInv, Search, shared, flags, host
<1>18. ASSUME NEW w \in Workers, Mark(w) PROVE SleepInv'
  BY <1>18 DEF SleepInv, TypeInv, Mark, flags, host
<1>19. ASSUME NEW w \in Workers, SpuriousWakeup(w) PROVE SleepInv'
  BY <1>19 DEF SleepInv, TypeInv, SpuriousWakeup, shared, flags, search, host
<1> QED
  BY <1>1, <1>2, <1>3, <1>4, <1>5, <1>6, <1>7, <1>8, <1>9, <1>10,
     <1>11, <1>12, <1>13, <1>14, <1>15, <1>16, <1>17, <1>18, <1>19
     DEF Next, Main, BFS, Worker

----------------------------------------------------------------------------
(* The queue *)

LEMMA QueueStep ==
  ASSUME TypeInv, SleepInv, QueueInv, Next
  PROVE  QueueInv'
<1>a. /\ length \in Nat /\ counter \in Nat /\ Len(queue) \in Nat
      /\ queue \in Seq(Vertices)
  BY QueueEntries DEF TypeInv
<1>b. /\ bfs.at \in Nat /\ bfs.previous \in Vertices /\ mainThread \in BOOLEAN
      /\ bfs = [pc |-> bfs.pc, previous |-> bfs.previous, at |-> bfs.at]
  BY DEF TypeInv
<1>1. CASE Start
  BY <1>b, <1>1 DEF QueueInv, SleepInv, Start, checkThread, flags, Early, Scanning
<1>2. CASE ReadSub
  BY <1>a, <1>b, <1>2 DEF QueueInv, Early, Scanning, ReadSub, shared, flags, search, host
<1>3. CASE ReadMain
  BY <1>a, <1>b, <1>3 DEF QueueInv, Early, Scanning, ReadMain, shared, flags, search, host
<1>4. CASE Barrier
  BY <1>a, <1>b, <1>4 DEF QueueInv, Early, Scanning, Barrier, shared, flags, search, host
<1>5. CASE Process
  BY <1>a, <1>b, <1>5 DEF QueueInv, Early, Scanning, Process, flags, search, host
<1>6. CASE Scan
  <2>1. CASE Children = {}
    BY <1>b, <1>6, <2>1 DEF QueueInv, Scan, shared, flags, Scanning, Early
  <2>2. CASE Children # {}
    <3>1. Min(Children) \in Children /\ bfs' = [bfs EXCEPT !.pc = "put", !.at = Min(Children)]
      BY <1>6, <2>2, ChildrenMin DEF Scan
    <3>2. /\ Min(Children) \in Vertices /\ Min(Children) \notin Range(queue)
          /\ Min(Children) # initValue
      BY <1>6, <3>1 DEF Children, whertherInLine, QueueInv, Scan, Early
    <3> QED
      BY <1>b, <1>6, <3>1, <3>2 DEF QueueInv, Scan, shared, flags, Scanning, Early
  <2> QED
    BY <2>1, <2>2
<1>7. CASE Put
  <2>1. bfs.at \in Vertices /\ bfs.at \notin Range(queue) /\ bfs.at # initValue
    BY <1>7 DEF Put, QueueInv
  <2>2. /\ Len(queue') = Len(queue) + 1 /\ Range(queue') = Range(queue) \cup {bfs.at}
        /\ IsInjective(queue')
    BY <1>a, <1>7, <2>1, AppendRange DEF Put, QueueInv
  <2>3. bfs'.pc = "count" /\ bfs'.at = bfs.at /\ bfs'.previous = bfs.previous
    BY <1>b, <1>7 DEF Put
  <2> QED
    BY <1>a, <1>b, <1>7, <2>1, <2>2, <2>3 DEF QueueInv, Put, flags, Scanning, Early
<1>8. CASE Count
  <2>1. bfs'.pc = "scan" /\ bfs'.previous = bfs.previous
    BY <1>b, <1>8 DEF Count
  <2> QED
    BY <1>a, <1>b, <1>8, <2>1 DEF QueueInv, Count, flags, Scanning, Early
<1>9. CASE Get
  <2>1. CASE counter = length
    BY <1>a, <1>b, <1>9, <2>1 DEF QueueInv, Get, Scanning, Early
  <2>2. CASE counter # length
    <3>1. counter + 1 \in 1 .. Len(queue) /\ counter + 1 <= length
      BY <1>a, <1>9, <2>2 DEF QueueInv, Get
    <3>2. queue[counter + 1] \in Range(queue)
      BY <3>1, QueueEntries
    <3>3. bfs'.pc = "check" /\ bfs'.at = bfs.at /\ bfs'.previous = queue[counter + 1]
      BY <1>b, <1>9, <2>2, Zenon DEF Get
    <3> QED
      BY <1>a, <1>b, <1>9, <2>2, <3>1, <3>2, <3>3 DEF QueueInv, Get, Scanning, Early
  <2> QED
    BY <2>1, <2>2
<1>10. CASE Check
  BY <1>a, <1>b, <1>10 DEF QueueInv, Early, Scanning, Check, shared, flags, search, host
<1>11. CASE Broadcast
  BY <1>a, <1>b, <1>11 DEF QueueInv, Early, Scanning, Broadcast, shared, flags, search, host
<1>12. ASSUME NEW w \in Workers, Bind(w) PROVE QueueInv'
  BY <1>a, <1>b, <1>12 DEF QueueInv, Early, Scanning, Bind, shared, flags, search, host
<1>13. ASSUME NEW w \in Workers, Lock(w) PROVE QueueInv'
  BY <1>a, <1>b, <1>13 DEF QueueInv, Early, Scanning, Lock, shared, flags, host
<1>14. ASSUME NEW w \in Workers, Look(w) PROVE QueueInv'
  BY <1>a, <1>b, <1>14 DEF QueueInv, Early, Scanning, Look, Sleep, shared, host
<1>15. ASSUME NEW w \in Workers, Take(w) PROVE QueueInv'
  BY <1>a, <1>b, <1>15 DEF QueueInv, Early, Scanning, Take, Sleep, host
<1>16. ASSUME NEW w \in Workers, Wake(w) PROVE QueueInv'
  BY <1>a, <1>b, <1>16 DEF QueueInv, Early, Scanning, Wake, shared, search, host
<1>17. ASSUME NEW w \in Workers, Search(w) PROVE QueueInv'
  BY <1>a, <1>b, <1>17 DEF QueueInv, Early, Scanning, Search, shared, flags, host
<1>18. ASSUME NEW w \in Workers, Mark(w) PROVE QueueInv'
  BY <1>a, <1>b, <1>18 DEF QueueInv, Early, Scanning, Mark, flags, host
<1>19. ASSUME NEW w \in Workers, SpuriousWakeup(w) PROVE QueueInv'
  BY <1>a, <1>b, <1>19 DEF QueueInv, Early, Scanning, SpuriousWakeup, shared, flags, search, host
<1> QED
  BY <1>1, <1>2, <1>3, <1>4, <1>5, <1>6, <1>7, <1>8, <1>9, <1>10,
     <1>11, <1>12, <1>13, <1>14, <1>15, <1>16, <1>17, <1>18, <1>19
     DEF Next, Main, BFS, Worker

----------------------------------------------------------------------------
(* The stacks *)

LEMMA StackStep ==
  ASSUME TypeInv, SleepInv, QueueInv, StackInv, Next
  PROVE  StackInv'
<1>a. \A v \in Workers : at[v] \in Nat /\ height[v] \in Nat
  BY DEF TypeInv
<1>b. Len(queue) \in Nat /\ (Len(queue) >= 1 => queue[1] \in Nat /\ queue[1] \in Range(queue))
  BY QueueEntries, TreeAssumption DEF Vertices
<1>c. ASSUME NEW v \in Workers, UNCHANGED <<pc[v], at[v], height[v]>>, UNCHANGED queue
      PROVE  StackOK(v)'
  BY <1>c DEF StackInv, StackOK
<1>d. ASSUME UNCHANGED <<pc, at, height, queue>>
      PROVE  StackInv'
  BY <1>d DEF StackInv, StackOK
<1>e. ASSUME UNCHANGED <<at, height, queue>>,
             \A v \in Workers : (pc[v] \notin InPass /\ pc'[v] \notin InPass) \/ pc'[v] = pc[v]
      PROVE  StackInv'
  BY <1>e DEF StackInv, StackOK
<1>1. CASE Start
  BY <1>e, <1>1 DEF Start, SleepInv, TypeInv, InPass, search
<1>2. CASE ReadSub
  BY <1>d, <1>2 DEF ReadSub, shared, flags, search, host
<1>3. CASE ReadMain
  BY <1>d, <1>3 DEF ReadMain, shared, flags, search, host
<1>4. CASE Barrier
  BY <1>e, <1>4 DEF Barrier, TypeInv, InPass, shared, flags, search, host
<1>5. CASE Process
  BY <1>d, <1>5 DEF Process, flags, search, host
<1>6. CASE Scan
  BY <1>d, <1>6 DEF Scan, shared, flags, search, host
<1>7. CASE Put
  <2>1. Len(queue') = Len(queue) + 1 /\ \A k \in 1 .. Len(queue) : queue'[k] = queue[k]
    BY <1>7, AppendRange DEF Put, QueueInv, TypeInv
  <2>2. Len(queue) >= 1 => Len(queue') >= 1 /\ queue'[1] = queue[1]
    BY <1>b, <2>1
  <2>3. UNCHANGED <<pc, at, height>>
    BY <1>7 DEF Put, search
  <2> QED
    BY <2>2, <2>3 DEF StackInv, StackOK
<1>8. CASE Count
  BY <1>d, <1>8 DEF Count, flags, search, host
<1>9. CASE Get
  BY <1>d, <1>9 DEF Get, search, host
<1>10. CASE Check
  BY <1>d, <1>10 DEF Check, shared, flags, search, host
<1>11. CASE Broadcast
  BY <1>e, <1>11 DEF Broadcast, TypeInv, InPass, shared, flags, search, host
<1>12. ASSUME NEW w \in Workers, Bind(w) PROVE StackInv'
  BY <1>e, <1>12 DEF Bind, TypeInv, InPass, shared, flags, search, host
<1>13. ASSUME NEW w \in Workers, Lock(w) PROVE StackInv'
  BY <1>e, <1>13 DEF Lock, TypeInv, InPass, shared, flags, host
<1>14. ASSUME NEW w \in Workers, Look(w) PROVE StackInv'
  BY <1>e, <1>14 DEF Look, Sleep, TypeInv, InPass, shared, host
<1>15. ASSUME NEW w \in Workers, Take(w) PROVE StackInv'
  <2>1. CASE Sleep(w) /\ UNCHANGED <<at, height>>
    BY <1>e, <1>15, <2>1 DEF Take, Sleep, TypeInv, InPass
  <2>2. CASE counter # length
    <3>1. Len(queue) >= 1
      BY <1>b, <2>2 DEF QueueInv, TypeInv
    <3>2. at'[w] = 0 /\ height'[w] = 1 /\ pc'[w] \in {"wake", "search"} /\ UNCHANGED queue
      BY <1>15, <2>2 DEF Take, TypeInv
    <3>3. StackOK(w)'
      BY <1>b, <3>1, <3>2, TreeAssumption DEF StackOK, InPass
    <3>4. \A v \in Workers \ {w} : UNCHANGED <<pc[v], at[v], height[v]>>
      BY <1>15, <2>2, SMTT(30) DEF Take, TypeInv
    <3> QED
      BY <1>c, <3>2, <3>3, <3>4 DEF StackInv
  <2> QED
    BY <1>15, <2>1, <2>2 DEF Take
<1>16. ASSUME NEW w \in Workers, Wake(w) PROVE StackInv'
  <2>1. StackOK(w)'
    BY <1>16 DEF Wake, StackInv, StackOK, TypeInv, InPass, search, shared
  <2>2. \A v \in Workers \ {w} : UNCHANGED <<pc[v], at[v], height[v]>>
    BY <1>16 DEF Wake, TypeInv, search
  <2> QED
    BY <1>c, <1>16, <2>1, <2>2 DEF Wake, StackInv, shared
<1>17. ASSUME NEW w \in Workers, Search(w) PROVE StackInv'
  <2>1. CASE Unclaimed(w) # {}
    <3> DEFINE i == Min(Unclaimed(w))
    <3>1. i \in Unclaimed(w)
      BY <2>1, UnclaimedMin
    <3>2. i \in Vertices /\ i >= at[w] /\ i \notin Range(queue)
      BY <3>1 DEF Unclaimed, whertherInLine
    <3>3. at'[w] = i /\ height'[w] = height[w] /\ pc'[w] = "mark" /\ UNCHANGED queue
      BY <1>17, <2>1 DEF Search, TypeInv, shared
    <3>4. /\ Len(queue) >= 1
          /\ height[w] <= IF at[w] > queue[1] THEN at[w] ELSE at[w] + 1
      BY <1>17 DEF Search, StackInv, StackOK, InPass
    <3> HIDE DEF i
    <3>5. StackOK(w)'
      <4>1. i \in Nat /\ i <= totalVertex
        BY <3>2, TreeAssumption DEF Vertices
      <4>2. height[w] <= IF i > queue[1] THEN i ELSE i + 1
        BY <1>a, <1>b, <3>2, <3>4, <4>1
      <4>3. i # queue[1]
        BY <1>b, <3>2, <3>4
      <4> QED
        BY <3>2, <3>3, <3>4, <4>1, <4>2, <4>3 DEF StackOK, InPass
    <3>6. \A v \in Workers \ {w} : UNCHANGED <<pc[v], at[v], height[v]>>
      BY <1>17, <2>1 DEF Search, TypeInv
    <3> QED
      BY <1>c, <3>3, <3>5, <3>6 DEF StackInv
  <2>2. CASE Unclaimed(w) = {}
    <3>1. StackOK(w)'
      BY <1>17, <2>2 DEF Search, StackOK, TypeInv, InPass
    <3>2. \A v \in Workers \ {w} : UNCHANGED <<pc[v], at[v], height[v]>>
      BY <1>17, <2>2, SMTT(30) DEF Search, TypeInv
    <3> QED
      BY <1>c, <1>17, <3>1, <3>2 DEF Search, StackInv, shared
  <2> QED
    BY <2>1, <2>2
<1>18. ASSUME NEW w \in Workers, Mark(w) PROVE StackInv'
  <2>1. /\ at'[w] = at[w] + 1 /\ height'[w] = height[w] + 1 /\ pc'[w] = "search"
        /\ UNCHANGED queue
    BY <1>18 DEF Mark, TypeInv
  <2>2. /\ Len(queue) >= 1 /\ at[w] \in Vertices /\ at[w] # queue[1]
        /\ height[w] <= IF at[w] > queue[1] THEN at[w] ELSE at[w] + 1
    BY <1>18 DEF Mark, StackInv, StackOK, InPass
  <2>3. StackOK(w)'
    <3>1. at[w] + 1 <= totalVertex
      BY <2>2, TreeAssumption DEF Vertices
    <3>2. height[w] + 1 <= IF at[w] + 1 > queue[1] THEN at[w] + 1 ELSE at[w] + 1 + 1
      BY <1>a, <1>b, <2>2
    <3> QED
      BY <2>1, <2>2, <3>1, <3>2 DEF StackOK, InPass
  <2>4. \A v \in Workers \ {w} : UNCHANGED <<pc[v], at[v], height[v]>>
    BY <1>18 DEF Mark, TypeInv
  <2> QED
    BY <1>c, <2>1, <2>3, <2>4 DEF StackInv
<1>19. ASSUME NEW w \in Workers, SpuriousWakeup(w) PROVE StackInv'
  BY <1>e, <1>19 DEF SpuriousWakeup, TypeInv, InPass, shared, flags, search, host
<1> QED
  BY <1>1, <1>2, <1>3, <1>4, <1>5, <1>6, <1>7, <1>8, <1>9, <1>10,
     <1>11, <1>12, <1>13, <1>14, <1>15, <1>16, <1>17, <1>18, <1>19
     DEF Next, Main, BFS, Worker

----------------------------------------------------------------------------
(* The vertices *)

LEMMA ClaimedGrows ==
  ASSUME TypeInv, QueueInv, Next
  PROVE  Claimed \subseteq Claimed'
<1>a. ASSUME visited \subseteq visited', UNCHANGED queue
      PROVE  Claimed \subseteq Claimed'
  BY <1>a DEF Claimed
<1>1. CASE Start
  BY <1>a, <1>1 DEF Start, checkThread
<1>2. CASE ReadSub
  BY <1>a, <1>2 DEF ReadSub, shared
<1>3. CASE ReadMain
  BY <1>a, <1>3 DEF ReadMain, shared
<1>4. CASE Barrier
  BY <1>a, <1>4 DEF Barrier, shared
<1>5. CASE Process
  BY <1>a, <1>5 DEF Process
<1>6. CASE Scan
  BY <1>a, <1>6 DEF Scan, shared
<1>7. CASE Put
  BY <1>7, AppendRange DEF Put, QueueInv, TypeInv, Claimed
<1>8. CASE Count
  BY <1>a, <1>8 DEF Count
<1>9. CASE Get
  BY <1>a, <1>9 DEF Get
<1>10. CASE Check
  BY <1>a, <1>10 DEF Check, shared
<1>11. CASE Broadcast
  BY <1>a, <1>11 DEF Broadcast, shared
<1>12. ASSUME NEW w \in Workers, Bind(w) PROVE Claimed \subseteq Claimed'
  BY <1>a, <1>12 DEF Bind, shared
<1>13. ASSUME NEW w \in Workers, Lock(w) PROVE Claimed \subseteq Claimed'
  BY <1>a, <1>13 DEF Lock, shared
<1>14. ASSUME NEW w \in Workers, Look(w) PROVE Claimed \subseteq Claimed'
  BY <1>a, <1>14 DEF Look, shared
<1>15. ASSUME NEW w \in Workers, Take(w) PROVE Claimed \subseteq Claimed'
  BY <1>a, <1>15 DEF Take
<1>16. ASSUME NEW w \in Workers, Wake(w) PROVE Claimed \subseteq Claimed'
  BY <1>a, <1>16 DEF Wake, shared
<1>17. ASSUME NEW w \in Workers, Search(w) PROVE Claimed \subseteq Claimed'
  BY <1>a, <1>17 DEF Search, shared
<1>18. ASSUME NEW w \in Workers, Mark(w) PROVE Claimed \subseteq Claimed'
  BY <1>a, <1>18 DEF Mark
<1>19. ASSUME NEW w \in Workers, SpuriousWakeup(w) PROVE Claimed \subseteq Claimed'
  BY <1>a, <1>19 DEF SpuriousWakeup, shared
<1> QED
  BY <1>1, <1>2, <1>3, <1>4, <1>5, <1>6, <1>7, <1>8, <1>9, <1>10,
     <1>11, <1>12, <1>13, <1>14, <1>15, <1>16, <1>17, <1>18, <1>19
     DEF Next, Main, BFS, Worker

LEMMA PassStep ==
  ASSUME TypeInv, QueueInv, PassInv, Next
  PROVE  PassInv'
<1>a. Claimed \subseteq Claimed'
  BY ClaimedGrows
<1>b. \A v \in Workers : at[v] \in Nat
  BY DEF TypeInv
<1>c. ASSUME \A v \in Workers : pc'[v] \in InPass => pc[v] \in InPass /\ at'[v] = at[v]
      PROVE  PassInv'
  BY <1>a, <1>c DEF PassInv
<1>1. CASE Start
  BY <1>c, <1>1 DEF Start, InPass, TypeInv, search
<1>2. CASE ReadSub
  BY <1>c, <1>2 DEF ReadSub, search
<1>3. CASE ReadMain
  BY <1>c, <1>3 DEF ReadMain, search
<1>4. CASE Barrier
  BY <1>c, <1>4 DEF Barrier, InPass, TypeInv, search
<1>5. CASE Process
  BY <1>c, <1>5 DEF Process, search
<1>6. CASE Scan
  BY <1>c, <1>6 DEF Scan, search
<1>7. CASE Put
  BY <1>c, <1>7 DEF Put, search
<1>8. CASE Count
  BY <1>c, <1>8 DEF Count, search
<1>9. CASE Get
  BY <1>c, <1>9 DEF Get, search
<1>10. CASE Check
  BY <1>c, <1>10 DEF Check, search
<1>11. CASE Broadcast
  BY <1>c, <1>11 DEF Broadcast, InPass, TypeInv, search
<1>12. ASSUME NEW w \in Workers, Bind(w) PROVE PassInv'
  BY <1>c, <1>12 DEF Bind, InPass, TypeInv, search
<1>13. ASSUME NEW w \in Workers, Lock(w) PROVE PassInv'
  BY <1>c, <1>13 DEF Lock, InPass, TypeInv
<1>14. ASSUME NEW w \in Workers, Look(w) PROVE PassInv'
  BY <1>c, <1>14 DEF Look, Sleep, InPass, TypeInv
<1>15. ASSUME NEW w \in Workers, Take(w) PROVE PassInv'
  <2>1. CASE Sleep(w) /\ UNCHANGED at
    BY <1>c, <1>15, <2>1 DEF Sleep, InPass, TypeInv
  <2>2. CASE counter # length
    <3>1. at'[w] = 0 /\ \A v \in Workers \ {w} : UNCHANGED <<pc[v], at[v]>>
      BY <1>15, <2>2 DEF Take, TypeInv
    <3> QED
      BY <1>a, <3>1 DEF PassInv, Vertices
  <2> QED
    BY <1>15, <2>1, <2>2 DEF Take
<1>16. ASSUME NEW w \in Workers, Wake(w) PROVE PassInv'
  BY <1>c, <1>16 DEF Wake, InPass, TypeInv, search
<1>17. ASSUME NEW w \in Workers, Search(w) PROVE PassInv'
  <2>1. CASE Unclaimed(w) # {}
    <3> DEFINE i == Min(Unclaimed(w))
    <3>1. i \in Nat /\ \A y \in Unclaimed(w) : i <= y
      BY <2>1, UnclaimedMin
    <3>2. at'[w] = i /\ \A v \in Workers \ {w} : UNCHANGED <<pc[v], at[v]>>
      BY <1>17, <2>1 DEF Search, TypeInv
    <3>3. \A j \in Vertices : j < at[w] => j \in Claimed
      BY <1>17 DEF Search, PassInv, InPass
    <3> HIDE DEF i
    <3>4. ASSUME NEW j \in Vertices, j < i PROVE j \in Claimed
      <4>1. j \notin Unclaimed(w)
        BY <3>1, <3>4, TreeAssumption DEF Vertices
      <4> QED
        BY <1>b, <3>3, <4>1, TreeAssumption DEF Unclaimed, whertherInLine, Claimed, Vertices
    <3> QED
      BY <1>a, <3>2, <3>4 DEF PassInv
  <2>2. CASE Unclaimed(w) = {}
    BY <1>c, <1>17, <2>2 DEF Search, TypeInv, InPass
  <2> QED
    BY <2>1, <2>2
<1>18. ASSUME NEW w \in Workers, Mark(w) PROVE PassInv'
  <2>1. at'[w] = at[w] + 1 /\ \A v \in Workers \ {w} : UNCHANGED <<pc[v], at[v]>>
    BY <1>18 DEF Mark, TypeInv
  <2>2. at[w] \in Claimed' /\ \A j \in Vertices : j < at[w] => j \in Claimed
    BY <1>18 DEF Mark, PassInv, InPass, Claimed
  <2>3. \A j \in Vertices : j < at[w] + 1 => j < at[w] \/ j = at[w]
    BY <1>b, TreeAssumption DEF Vertices
  <2> QED
    BY <1>a, <2>1, <2>2, <2>3 DEF PassInv
<1>19. ASSUME NEW w \in Workers, SpuriousWakeup(w) PROVE PassInv'
  BY <1>c, <1>19 DEF SpuriousWakeup, InPass, TypeInv, search
<1> QED
  BY <1>1, <1>2, <1>3, <1>4, <1>5, <1>6, <1>7, <1>8, <1>9, <1>10,
     <1>11, <1>12, <1>13, <1>14, <1>15, <1>16, <1>17, <1>18, <1>19
     DEF Next, Main, BFS, Worker

LEMMA ReportStep ==
  ASSUME TypeInv, SleepInv, QueueInv, ReportInv, Next
  PROVE  ReportInv'
<1>a. ASSUME UNCHANGED <<queue, visited, reported, bfs>> PROVE ReportInv'
  BY <1>a DEF ReportInv, Claimed
<1>b. ASSUME UNCHANGED <<queue, visited, reported>>, bfs.pc # "count", bfs'.pc # "count"
      PROVE  ReportInv'
  BY <1>b DEF ReportInv, Claimed
<1>c. bfs = [pc |-> bfs.pc, previous |-> bfs.previous, at |-> bfs.at]
  BY DEF TypeInv
<1>1. CASE Start
  BY <1>c, <1>1 DEF Start, checkThread, SleepInv, ReportInv, Claimed
<1>2. CASE ReadSub
  BY <1>a, <1>2 DEF ReadSub, shared
<1>3. CASE ReadMain
  BY <1>a, <1>3 DEF ReadMain, shared
<1>4. CASE Barrier
  BY <1>b, <1>c, <1>4 DEF Barrier, shared
<1>5. CASE Process
  <2>1. Claimed' = Claimed \cup {bfs.previous} /\ UNCHANGED reported
    BY <1>5 DEF Process, Claimed
  <2>2. bfs.previous \in Claimed \cup {initValue}
    BY DEF QueueInv, Claimed
  <2>3. bfs.pc # "count" /\ bfs'.pc # "count"
    BY <1>c, <1>5 DEF Process
  <2> QED
    BY <2>1, <2>2, <2>3 DEF ReportInv
<1>6. CASE Scan
  BY <1>b, <1>c, <1>6 DEF Scan, shared
<1>7. CASE Put
  <2>1. Claimed' = Claimed \cup {bfs.at} /\ UNCHANGED reported
    BY <1>7, AppendRange DEF Put, Claimed, QueueInv, TypeInv
  <2>2. bfs.pc # "count" /\ bfs'.pc = "count" /\ bfs'.at = bfs.at
    BY <1>c, <1>7 DEF Put
  <2> QED
    BY <2>1, <2>2 DEF ReportInv
<1>8. CASE Count
  <2>1. bfs.pc = "count" /\ bfs'.pc # "count" /\ bfs.at \in Claimed
    BY <1>c, <1>8 DEF Count, QueueInv, Claimed
  <2>2. reported' = reported \cup {bfs.at} /\ Claimed' = Claimed
    BY <1>8 DEF Count, Claimed
  <2> QED
    BY <2>1, <2>2 DEF ReportInv
<1>9. CASE Get
  BY <1>b, <1>c, <1>9, Zenon DEF Get
<1>10. CASE Check
  BY <1>b, <1>c, <1>10 DEF Check, shared
<1>11. CASE Broadcast
  BY <1>b, <1>c, <1>11 DEF Broadcast, shared
<1>12. ASSUME NEW w \in Workers, Bind(w) PROVE ReportInv'
  BY <1>a, <1>12 DEF Bind, shared
<1>13. ASSUME NEW w \in Workers, Lock(w) PROVE ReportInv'
  BY <1>a, <1>13 DEF Lock, shared
<1>14. ASSUME NEW w \in Workers, Look(w) PROVE ReportInv'
  BY <1>a, <1>14 DEF Look, shared
<1>15. ASSUME NEW w \in Workers, Take(w) PROVE ReportInv'
  BY <1>a, <1>15 DEF Take
<1>16. ASSUME NEW w \in Workers, Wake(w) PROVE ReportInv'
  BY <1>a, <1>16 DEF Wake, shared
<1>17. ASSUME NEW w \in Workers, Search(w) PROVE ReportInv'
  BY <1>a, <1>17 DEF Search, shared
<1>18. ASSUME NEW w \in Workers, Mark(w) PROVE ReportInv'
  <2>1. reported' = reported \cup {at[w]} /\ Claimed' = Claimed \cup {at[w]} /\ UNCHANGED bfs
    BY <1>18 DEF Mark, Claimed
  <2> QED
    BY <2>1 DEF ReportInv
<1>19. ASSUME NEW w \in Workers, SpuriousWakeup(w) PROVE ReportInv'
  BY <1>a, <1>19 DEF SpuriousWakeup, shared
<1> QED
  BY <1>1, <1>2, <1>3, <1>4, <1>5, <1>6, <1>7, <1>8, <1>9, <1>10,
     <1>11, <1>12, <1>13, <1>14, <1>15, <1>16, <1>17, <1>18, <1>19
     DEF Next, Main, BFS, Worker

LEMMA CoverStep ==
  ASSUME TypeInv, SleepInv, QueueInv, PassInv, CoverInv, Next
  PROVE  CoverInv'
<1>a. Claimed \subseteq Claimed'
  BY ClaimedGrows
<1>b. ASSUME Searching' PROVE CoverInv'
  BY <1>b DEF CoverInv
<1>c. ASSUME Searching, UNCHANGED pc PROVE CoverInv'
  BY <1>c DEF CoverInv, Searching
<1>d. ASSUME \A v \in Workers : pc[v] \in InPass => pc'[v] = pc[v],
             UNCHANGED <<queue, counter, visited, bfs>>
      PROVE  CoverInv'
  BY <1>d DEF CoverInv, Searching, Met, InHand, ScannedTo, Claimed
<1>e. /\ bfs = [pc |-> bfs.pc, previous |-> bfs.previous, at |-> bfs.at]
      /\ bfs.at \in Nat
  BY DEF TypeInv
<1>f. ASSUME NEW v, ScannedTo(v, totalVertex) PROVE ScannedTo(v, totalVertex)'
  BY <1>a, <1>f DEF ScannedTo
<1>g. ASSUME UNCHANGED <<queue, counter, visited>>,
             \A w \in Workers : pc[w] \in InPass => pc'[w] = pc[w],
             bfs.pc \in Early, bfs'.pc \in Early, bfs'.previous = bfs.previous
      PROVE  CoverInv'
  BY <1>f, <1>g DEF CoverInv, Searching, Met, InHand, Early, Scanning
<1>1. CASE Start
  <2>1. /\ UNCHANGED <<queue, counter>> /\ visited' = visited \cup {Heard}
        /\ bfs.pc = "new" /\ bfs'.pc = "barrier" /\ bfs'.previous = bfs.previous
        /\ \A w \in Workers : pc[w] = "new"
    BY <1>e, <1>1 DEF Start, checkThread, SleepInv
  <2>2. Heard \notin Vertices
    BY TreeAssumption DEF Heard, Vertices
  <2>3. ScannedTo(Heard, totalVertex)
    BY <2>2, TreeAssumption DEF ScannedTo, connected
  <2>4. bfs.previous # Heard
    BY <2>2 DEF TypeInv
  <2>5. ASSUME NEW v \in Met' PROVE ScannedTo(v, totalVertex)' \/ InHand(v)'
    <3>1. v \in Met \/ v = Heard
      BY <2>1 DEF Met
    <3>2. ASSUME InHand(v) PROVE InHand(v)'
      BY <2>1, <2>4, <3>2 DEF InHand, Early, Scanning
    <3> QED
      BY <1>f, <2>1, <2>3, <3>1, <3>2 DEF CoverInv, Searching, InPass
  <2> QED
    BY <2>5 DEF CoverInv
<1>2. CASE ReadSub
  BY <1>d, <1>2 DEF ReadSub, shared
<1>3. CASE ReadMain
  BY <1>d, <1>3 DEF ReadMain, shared
<1>4. CASE Barrier
  BY <1>e, <1>g, <1>4 DEF Barrier, shared, InPass, Early
<1>5. CASE Process
  <2>1. CASE Searching
    BY <1>c, <1>5, <2>1 DEF Process
  <2>2. CASE ~Searching
    <3>1. Met' = Met \cup {bfs.previous}
      BY <1>5 DEF Process, Met
    <3>2. bfs'.previous = bfs.previous /\ bfs'.at = 0
      BY <1>e, <1>5 DEF Process, QueueInv, Scanning
    <3>3. bfs.previous \notin visited => bfs'.pc = "scan"
      BY <1>e, <1>5 DEF Process
    <3>4. ASSUME NEW v, v = bfs.previous, v \notin visited PROVE InHand(v)'
      BY <3>2, <3>3, <3>4, TreeAssumption DEF InHand, ScannedTo, Scanning, Vertices
    <3>5. \A v \in Met : ScannedTo(v, totalVertex) \/ (v = bfs.previous /\ v \notin visited)
      BY <1>5, <2>2 DEF CoverInv, InHand, Process, Scanning
    <3>6. bfs.previous \in visited => bfs.previous \in Met
      BY DEF Met
    <3>7. ASSUME NEW v \in Met' PROVE ScannedTo(v, totalVertex)' \/ InHand(v)'
      BY <1>f, <3>1, <3>4, <3>5, <3>6
    <3> QED
      BY <3>7 DEF CoverInv
  <2> QED
    BY <2>1, <2>2
<1>6. CASE Scan
  <2>1. CASE Searching
    BY <1>c, <1>6, <2>1 DEF Scan
  <2>2. CASE ~Searching
    <3>1. Met' = Met /\ Claimed' = Claimed
      BY <1>6 DEF Scan, Met, Claimed, shared
    <3>2. \A v \in Met : \/ ScannedTo(v, totalVertex)
                         \/ v = bfs.previous /\ ScannedTo(v, bfs.at)
      BY <1>6, <2>2 DEF CoverInv, InHand, Scan, Early
    <3>3. \A j \in Vertices : \/ ~connected(bfs.previous, j) \/ j < bfs.at
                             \/ j \in Claimed \/ j \in Children
      BY <1>e, TreeAssumption DEF Children, Claimed, whertherInLine, Vertices
    <3>4. CASE Children = {}
      <4>1. ScannedTo(bfs.previous, bfs.at) => ScannedTo(bfs.previous, totalVertex)
        BY <3>3, <3>4 DEF ScannedTo
      <4> QED
        BY <1>f, <3>1, <3>2, <4>1 DEF CoverInv
    <3>5. CASE Children # {}
      <4> DEFINE i == Min(Children)
      <4>1. bfs'.pc = "put" /\ bfs'.previous = bfs.previous /\ bfs'.at = i
        BY <1>e, <1>6, <3>5 DEF Scan
      <4>2. i \in Nat /\ \A y \in Children : i <= y
        BY <3>5, ChildrenMin
      <4> HIDE DEF i
      <4>3. \A y \in Vertices : y < i => y \notin Children
        BY <4>2, TreeAssumption DEF Vertices
      <4>4. ASSUME NEW v, v = bfs.previous, ScannedTo(v, bfs.at) PROVE InHand(v)'
        BY <4>4, <3>1, <3>3, <4>1, <4>3 DEF InHand, ScannedTo, Scanning
      <4> QED
        BY <1>f, <3>1, <3>2, <4>4 DEF CoverInv
    <3> QED
      BY <3>4, <3>5
  <2> QED
    BY <2>1, <2>2
<1>7. CASE Put
  <2>1. CASE Searching
    BY <1>c, <1>7, <2>1 DEF Put
  <2>2. CASE ~Searching
    <3>1. \A k \in 1 .. Len(queue) : queue'[k] = queue[k]
      BY <1>7, AppendRange DEF Put, QueueInv, TypeInv
    <3>2. Met' = Met
      <4>1. \A k \in 1 .. counter : k \in 1 .. Len(queue)
        BY <1>7, QueueEntries DEF Put, QueueInv, TypeInv
      <4>2. \A k \in 1 .. counter : queue'[k] = queue[k]
        BY <3>1, <4>1
      <4> QED
        BY <1>7, <4>2, Zenon DEF Put, Met
    <3>3. bfs'.pc = "count" /\ bfs'.previous = bfs.previous /\ bfs'.at = bfs.at
      BY <1>e, <1>7 DEF Put
    <3>4. \A v \in Met : \/ ScannedTo(v, totalVertex)
                         \/ v = bfs.previous /\ ScannedTo(v, bfs.at)
      BY <1>7, <2>2 DEF CoverInv, InHand, Put, Early
    <3>5. ASSUME NEW v, v = bfs.previous, ScannedTo(v, bfs.at) PROVE InHand(v)'
      BY <3>5, <1>a, <3>3 DEF InHand, ScannedTo, Scanning
    <3> QED
      BY <1>f, <3>2, <3>4, <3>5 DEF CoverInv
  <2> QED
    BY <2>1, <2>2
<1>8. CASE Count
  <2>1. CASE Searching
    BY <1>c, <1>8, <2>1 DEF Count
  <2>2. CASE ~Searching
    <3>1. Met' = Met
      BY <1>8 DEF Count, Met
    <3>2. bfs'.pc = "scan" /\ bfs'.previous = bfs.previous /\ bfs'.at = bfs.at + 1
      BY <1>e, <1>8 DEF Count
    <3>3. \A v \in Met : \/ ScannedTo(v, totalVertex)
                         \/ v = bfs.previous /\ ScannedTo(v, bfs.at)
      BY <1>8, <2>2 DEF CoverInv, InHand, Count, Early
    <3>4. bfs.at \in Claimed
      BY <1>8 DEF Count, QueueInv, Claimed
    <3>5. \A j \in Vertices : j < bfs.at + 1 => j < bfs.at \/ j = bfs.at
      BY <1>e, TreeAssumption DEF Vertices
    <3>6. ASSUME NEW v, v = bfs.previous, ScannedTo(v, bfs.at) PROVE InHand(v)'
      BY <3>6, <1>a, <3>2, <3>4, <3>5 DEF InHand, ScannedTo, Scanning
    <3> QED
      BY <1>f, <3>1, <3>3, <3>6 DEF CoverInv
  <2> QED
    BY <2>1, <2>2
<1>9. CASE Get
  <2>1. CASE Searching
    BY <1>c, <1>9, <2>1 DEF Get
  <2>2. CASE ~Searching
    <3>1. \A v \in Met : ScannedTo(v, totalVertex)
      BY <1>9, <2>2 DEF CoverInv, InHand, Get, Early, Scanning
    <3>2. CASE counter = length
      <4>1. Met' = Met
        BY <1>9, <3>2 DEF Get, Met
      <4> QED
        BY <1>f, <3>1, <4>1 DEF CoverInv
    <3>3. CASE counter # length
      <4> DEFINE u == queue[counter + 1]
      <4>1. Met' = Met \cup {u}
        <5>1. counter \in Nat /\ counter' = counter + 1 /\ UNCHANGED <<queue, visited>>
          BY <1>9, <3>3 DEF Get, TypeInv
        <5>2. 1 .. counter' = 1 .. counter \cup {counter + 1}
          BY <5>1
        <5> QED
          BY <5>1, <5>2 DEF Met
      <4>2. bfs'.pc = "check" /\ bfs'.previous = u /\ UNCHANGED visited
        BY <1>e, <1>9, <3>3, Zenon DEF Get
      <4> HIDE DEF u
      <4>3. ASSUME NEW v, v = u PROVE v \in Met \/ InHand(v)'
        BY <4>2, <4>3 DEF Met, InHand, Early
      <4>4. ASSUME NEW v \in Met' PROVE ScannedTo(v, totalVertex)' \/ InHand(v)'
        BY <1>f, <3>1, <4>1, <4>3
      <4> QED
        BY <4>4 DEF CoverInv
    <3> QED
      BY <3>2, <3>3
  <2> QED
    BY <2>1, <2>2
<1>10. CASE Check
  BY <1>e, <1>g, <1>10 DEF Check, shared, InPass, Early
<1>11. CASE Broadcast
  BY <1>e, <1>g, <1>11, SMTT(30) DEF Broadcast, shared, InPass, Early
<1>12. ASSUME NEW w \in Workers, Bind(w) PROVE CoverInv'
  BY <1>d, <1>12 DEF Bind, shared, InPass, TypeInv
<1>13. ASSUME NEW w \in Workers, Lock(w) PROVE CoverInv'
  BY <1>d, <1>13 DEF Lock, shared, InPass, TypeInv
<1>14. ASSUME NEW w \in Workers, Look(w) PROVE CoverInv'
  BY <1>d, <1>14 DEF Look, Sleep, shared, InPass, TypeInv
<1>15. ASSUME NEW w \in Workers, Take(w) PROVE CoverInv'
  <2>1. CASE Sleep(w) /\ UNCHANGED counter
    BY <1>d, <1>15, <2>1 DEF Take, Sleep, InPass, TypeInv
  <2>2. CASE pc' = [pc EXCEPT ![w] = IF slept[w] THEN "wake" ELSE "search"]
    BY <1>b, <2>2 DEF Searching, InPass, TypeInv
  <2> QED
    BY <1>15, <2>1, <2>2, SMTT(30) DEF Take
<1>16. ASSUME NEW w \in Workers, Wake(w) PROVE CoverInv'
  BY <1>b, <1>16 DEF Wake, Searching, InPass, TypeInv
<1>17. ASSUME NEW w \in Workers, Search(w) PROVE CoverInv'
  <2>1. CASE Unclaimed(w) # {}
    BY <1>b, <1>17, <2>1 DEF Search, Searching, InPass, TypeInv
  <2>2. CASE Unclaimed(w) = {}
    <3>1. \A j \in Vertices : j < at[w] => j \in Claimed
      BY <1>17 DEF Search, PassInv, InPass
    <3>2. \A j \in Vertices : j \in Claimed
      <4>1. at[w] \in Nat
        BY DEF TypeInv
      <4>2. \A j \in Vertices : j < at[w] \/ j >= at[w]
        BY <4>1, TreeAssumption DEF Vertices
      <4> QED
        BY <2>2, <3>1, <4>2 DEF Unclaimed, whertherInLine, Claimed
    <3> QED
      BY <1>a, <3>2 DEF CoverInv, ScannedTo
  <2> QED
    BY <2>1, <2>2
<1>18. ASSUME NEW w \in Workers, Mark(w) PROVE CoverInv'
  BY <1>b, <1>18 DEF Mark, Searching, InPass, TypeInv
<1>19. ASSUME NEW w \in Workers, SpuriousWakeup(w) PROVE CoverInv'
  BY <1>d, <1>19 DEF SpuriousWakeup, shared, InPass, TypeInv
<1> QED
  BY <1>1, <1>2, <1>3, <1>4, <1>5, <1>6, <1>7, <1>8, <1>9, <1>10,
     <1>11, <1>12, <1>13, <1>14, <1>15, <1>16, <1>17, <1>18, <1>19
     DEF Next, Main, BFS, Worker

----------------------------------------------------------------------------
(* The theorems *)

LEMMA IInvStep == IInv /\ [Next]_vars => IInv'
<1> SUFFICES ASSUME IInv, [Next]_vars PROVE IInv'
  OBVIOUS
<1>1. TypeInv /\ SleepInv /\ QueueInv /\ StackInv /\ CoverInv /\ PassInv /\ ReportInv
  BY DEF IInv
<1>2. CASE Next
  BY <1>1, <1>2, TypeStep, SleepStep, QueueStep, StackStep, CoverStep, PassStep, ReportStep
     DEF IInv
<1>3. CASE UNCHANGED vars
  <2>1. TypeInv' /\ SleepInv' /\ QueueInv'
    BY <1>1, <1>3, SMTT(30) DEF TypeInv, SleepInv, QueueInv, vars
  <2>2. StackInv' /\ PassInv'
    BY <1>1, <1>3, Zenon DEF StackInv, StackOK, PassInv, Claimed, vars
  <2>3. CoverInv' /\ ReportInv'
    BY <1>1, <1>3, Zenon
       DEF CoverInv, Searching, Met, InHand, ScannedTo, ReportInv, Claimed, vars
  <2> QED
    BY <2>1, <2>2, <2>3, SMTT(30) DEF IInv
<1> QED
  BY <1>2, <1>3

LEMMA Invariance == Spec => []IInv
  BY InitIInv, IInvStep, PTL DEF Spec

\* The flag subThread, which process main polls to end the process, is set
\* exactly while every worker has given up, and thread_counter counts the
\* others: for any number of workers and any wakeups.
THEOREM FlagMeansIdle == Spec => []SubThreadMeansIdle
<1>1. IInv => SubThreadMeansIdle
  BY DEF IInv, SleepInv, SubThreadMeansIdle
<1> QED
  BY <1>1, Invariance, PTL

\* Neither bfsQueue nor a stack is overrun: bfsQueue holds each vertex but
\* the root at most once, and a stack holds at most the entry its search began
\* with and the vertices but queue[1]; on every graph.
THEOREM ArraysHold == Spec => []InBounds
<1>1. ASSUME IInv PROVE InBounds
  <2>1. TypeInv /\ QueueInv /\ StackInv
    BY <1>1 DEF IInv
  <2>2. counter <= length /\ length <= Len(queue) /\ IsInjective(queue)
    BY <2>1, QueueEntries DEF QueueInv, TypeInv
  <2>3. Len(queue) < totalVertex
    <3>1. queue \in Injection(1 .. Len(queue), Vertices \ {initValue})
      BY <2>1, QueueEntries DEF QueueInv, TypeInv, Injection, Range
    <3>2. /\ IsFiniteSet(Vertices) /\ Cardinality(Vertices) = totalVertex
      BY FS_Interval, TreeAssumption DEF Vertices
    <3>3. /\ IsFiniteSet(Vertices \ {initValue})
          /\ Cardinality(Vertices \ {initValue}) = totalVertex - 1
      BY <3>2, FS_RemoveElement, TreeAssumption
    <3>4. Cardinality(1 .. Len(queue)) <= totalVertex - 1
      BY <3>1, <3>3, FS_Injection
    <3>5. Len(queue) \in Nat
      BY <2>1, QueueEntries
    <3>6. Cardinality(1 .. Len(queue)) = Len(queue)
      BY <3>5, FS_Interval, SMTT(30)
    <3> QED
      BY <3>4, <3>5, <3>6, TreeAssumption, SMTT(30)
  <2>4. ASSUME NEW w \in Workers PROVE height[w] <= totalVertex
    <3>1. at[w] \in Nat /\ height[w] \in Nat /\ totalVertex \in Nat
      BY <2>1, TreeAssumption DEF TypeInv
    <3>2. CASE pc[w] \in InPass
      <4>1. queue[1] \in Vertices
        BY <2>1, <3>2, QueueEntries DEF StackInv, StackOK
      <4>2. queue[1] \in Nat /\ queue[1] < totalVertex
        BY <4>1, TreeAssumption DEF Vertices
      <4>3. /\ at[w] <= totalVertex
            /\ height[w] <= IF at[w] > queue[1] THEN at[w] ELSE at[w] + 1
        BY <2>1, <3>2 DEF StackInv, StackOK
      <4> QED
        BY <3>1, <4>2, <4>3
    <3>3. CASE pc[w] \notin InPass
      BY <2>1, <3>1, <3>3 DEF StackInv, StackOK
    <3> QED
      BY <3>2, <3>3
  <2>5. \A k \in DOMAIN queue : \A j \in 1 .. k - 1 : queue[j] # queue[k]
    <3>1. \A k \in DOMAIN queue : \A j \in 1 .. k - 1 : j \in DOMAIN queue /\ j # k
      BY <2>1, QueueEntries DEF TypeInv
    <3> QED
      BY <2>2, <3>1 DEF IsInjective
  <2> QED
    BY <2>2, <2>3, <2>4, <2>5 DEF InBounds
<1> QED
  BY <1>1, Invariance, PTL

\* When the breadth-first thread is over and no worker has a vertex in hand,
\* the root and the reported vertices are closed under the edges: however the
\* threads raced, every vertex reachable from the root was reported.
THEOREM NoVertexLost == Spec => []NothingLost
<1>1. ASSUME IInv, mainThread, \A w \in Workers : Asleep(w),
             NEW i \in reported \cup {initValue}, NEW j \in Vertices, connected(i, j)
      PROVE  j \in reported \cup {initValue}
  <2>1. TypeInv /\ SleepInv /\ QueueInv /\ CoverInv /\ ReportInv
    BY <1>1 DEF IInv
  <2>2. bfs.pc = "over" /\ counter = length /\ Len(queue) = counter
    BY <1>1, <2>1 DEF QueueInv
  <2>3. ~Searching
    BY <1>1, <2>1 DEF Asleep, Searching, InPass, SleepInv
  <2>4. Range(queue) \subseteq {queue[k] : k \in 1 .. counter}
    BY <2>1, <2>2, QueueEntries DEF Range
  <2>5. i \in Met
    BY <2>1, <2>4 DEF ReportInv, Claimed, Met
  <2>6. ScannedTo(i, totalVertex)
    BY <2>1, <2>2, <2>3, <2>5 DEF CoverInv, InHand, Early, Scanning
  <2>7. j \in Claimed
    <3>1. j < totalVertex
      BY TreeAssumption DEF Vertices
    <3> QED
      BY <1>1, <2>6, <3>1 DEF ScannedTo
  <2> QED
    BY <2>1, <2>2, <2>7, TreeAssumption DEF ReportInv, Heard, Vertices
<1>2. IInv => NothingLost
  BY <1>1 DEF NothingLost
<1> QED
  BY <1>2, Invariance, PTL
=============================================================================
