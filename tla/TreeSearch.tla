----------------------------- MODULE TreeSearch -----------------------------
(***************************************************************************)
(* The tree-search benchmark (benchmark/treeSearching/test01.cpp) of one   *)
(* chiplet.  One thread runs a breadth-first search over bfsQueue; the     *)
(* workers take vertices out of the same queue when it is long enough,     *)
(* search from them, and sleep when it is not.  Process main polls two     *)
(* flags and ends the process when both are set.                           *)
(*                                                                         *)
(* Steps are cut where another thread can see or change what is used:      *)
(* lines 100-125 read bfsQueue_length and bfsQueue_counter without         *)
(* data_mtx, line 236 stores an entry before line 237 counts it, and the   *)
(* tests of lines 230, 323 and 327 come before the stores they guard.      *)
(* Entries that a scan skips are left out of the steps: visited and the    *)
(* queue only grow, so a vertex skipped once would be skipped again.       *)
(***************************************************************************)
EXTENDS Integers, Sequences, FiniteSets, FiniteSetsExt

CONSTANTS
  totalVertex,   \* vertices are 0 .. totalVertex - 1
  Edges,         \* the set of pairs read from data.csv
  initValue,     \* the root
  thread_Num,    \* workers (3 in the code)
  coreNum,       \* cores of the chiplet
  MaxSpurious    \* bound: wakeups that no broadcast caused

Vertices == 0 .. totalVertex - 1
Workers == 1 .. thread_Num
Free == 0
Nothing == <<"none", 0>>

ASSUME TreeAssumption ==
  /\ {totalVertex, thread_Num, coreNum} \subseteq Nat \ {0}
  /\ Edges \subseteq Vertices \X Vertices
  /\ initValue \in Vertices
  /\ MaxSpurious \in Nat

VARIABLES
  queue,           \* the entries of bfsQueue that are not -1
  length,          \* bfsQueue_length
  counter,         \* bfsQueue_counter
  visited,         \* the indices i at which visited[i] was set
  reported,        \* the vertices sent with m5_gadia_call
  thread_counter,  \* *thread_counter
  subThread,
  mainThread,
  core_counter,
  mtx,             \* the worker that holds mtx, or Free
  pc,              \* pc[w]: where worker w stands
  slept,           \* slept[w]: w is past line 386 and has not reached 403
  seen,            \* seen[w]: what line 100 has read so far
  at,              \* at[w]: i of my_DFS, the next vertex to look at
  height,          \* height[w]: entries on singleStack
  bfs,             \* the breadth-first thread: where it stands, previous, i
  proc,            \* where process main stands
  spurious         \* unsignalled wakeups so far

vars == <<queue, length, counter, visited, reported, thread_counter, subThread,
          mainThread, core_counter, mtx, pc, slept, seen, at, height, bfs,
          proc, spurious>>

shared == <<queue, length, counter, visited, reported>>
flags == <<thread_counter, subThread, mainThread>>
search == <<seen, at, height>>
host == <<core_counter, proc, spurious>>

Init ==
  /\ queue = << >> /\ length = 0 /\ counter = 0
  /\ visited = {} /\ reported = {}
  /\ thread_counter = thread_Num
  /\ subThread = FALSE /\ mainThread = FALSE
  /\ core_counter = 0
  /\ mtx = Free
  /\ pc = [w \in Workers |-> "new"]
  /\ slept = [w \in Workers |-> FALSE]
  /\ seen = [w \in Workers |-> Nothing]
  /\ at = [w \in Workers |-> 0]
  /\ height = [w \in Workers |-> 0]
  /\ bfs = [pc |-> "new", previous |-> initValue, at |-> 0]
  /\ proc = "poll"
  /\ spurious = 0

\* connectNode: an edge of data.csv counts in both directions.
connected(i, j) == <<i, j>> \in Edges \/ <<j, i>> \in Edges

\* whertherInLine(i, bfsQueue, 0).  Mutant: the search starts at the counter.
MutInLine(i) == i \in Range(SubSeq(queue, counter + 1, Len(queue)))
whertherInLine(i) == i \in Range(queue)

\* visited after the turns of checkThread: gadia_receive(-1) answers -3 every
\* time, the number -1 having no file, and line 359 does not skip that answer.
Heard == -3
checkThread(v) == v \cup {Heard}

----------------------------------------------------------------------------
(* Process main *)

\* m5_gadia_receive(theChipletScale) has returned -4: the threads start.  The
\* turns of checkThread are taken here: they repeat one store, of an entry that
\* no thread reads, and so commute with every other step.
Start ==
  /\ proc = "poll"
  /\ proc' = "sub"
  /\ visited' = checkThread(visited)
  /\ pc' = [w \in Workers |-> "bind"]
  /\ bfs' = [bfs EXCEPT !.pc = "barrier"]
  /\ UNCHANGED <<queue, length, counter, reported, flags, core_counter, mtx, slept,
                 search, spurious>>

\* while (!subThread || !mainThread): two reads, then the end of the process.
ReadSub ==
  /\ proc = "sub" /\ subThread
  /\ proc' = "main"
  /\ UNCHANGED <<shared, flags, core_counter, mtx, pc, slept, search, bfs, spurious>>

ReadMain ==
  /\ proc = "main"
  /\ proc' = IF mainThread THEN "exit" ELSE "sub"
  /\ UNCHANGED <<shared, flags, core_counter, mtx, pc, slept, search, bfs, spurious>>

\* No thread takes a step once main has returned.
Running == proc # "exit"

----------------------------------------------------------------------------
(* The breadth-first thread *)

\* processCurrentNode(previous): a vertex already visited has no children to add.
Process ==
  /\ Running /\ bfs.pc = "process"
  /\ visited' = visited \cup {bfs.previous}
  /\ bfs' = IF bfs.previous \in visited THEN [bfs EXCEPT !.pc = "get"]
            ELSE [bfs EXCEPT !.pc = "scan"]
  /\ UNCHANGED <<queue, length, counter, reported, flags, host, mtx, pc, slept, search>>

Children == {i \in Vertices : /\ i >= bfs.at /\ connected(bfs.previous, i)
                              /\ i \notin visited /\ ~whertherInLine(i)}

\* The loop of processCurrentNode goes on to the next vertex to put, or ends.
Scan ==
  /\ Running /\ bfs.pc = "scan"
  /\ bfs' = IF Children = {} THEN [bfs EXCEPT !.pc = "get", !.at = 0]
            ELSE [bfs EXCEPT !.pc = "put", !.at = Min(Children)]
  /\ UNCHANGED <<shared, flags, host, mtx, pc, slept, search>>

\* myStack[*length] = i
Put ==
  /\ Running /\ bfs.pc = "put"
  /\ queue' = Append(queue, bfs.at)
  /\ bfs' = [bfs EXCEPT !.pc = "count"]
  /\ UNCHANGED <<length, counter, visited, reported, flags, host, mtx, pc, slept, search>>

\* *length += 1, and the vertex is reported.
Count ==
  /\ Running /\ bfs.pc = "count"
  /\ length' = length + 1
  /\ reported' = reported \cup {bfs.at}
  /\ bfs' = [bfs EXCEPT !.pc = "scan", !.at = @ + 1]
  /\ UNCHANGED <<queue, counter, visited, flags, host, mtx, pc, slept, search>>

\* The section under data_mtx of unsafeGetData(true).  The tests before it ask
\* for the same thing earlier: this thread alone makes the queue longer.
Get ==
  /\ Running /\ bfs.pc = "get"
  /\ \/ /\ counter = length
        /\ bfs' = [bfs EXCEPT !.pc = "over"]
        /\ mainThread' = TRUE
        /\ UNCHANGED counter
     \/ /\ counter # length
        /\ bfs' = [bfs EXCEPT !.pc = "check", !.previous = queue[counter + 1]]
        /\ counter' = counter + 1
        /\ UNCHANGED mainThread
  /\ UNCHANGED <<queue, length, visited, reported, thread_counter, subThread, host, mtx,
                 pc, slept, search>>

\* if (isMain && bfsQueue_length - bfsQueue_counter >= 5)
Check ==
  /\ Running /\ bfs.pc = "check"
  /\ bfs' = [bfs EXCEPT !.pc = IF length - counter >= 5 THEN "broadcast" ELSE "process"]
  /\ UNCHANGED <<shared, flags, host, mtx, pc, slept, search>>

\* pthread_cond_broadcast, without mtx.
Broadcast ==
  /\ Running /\ bfs.pc = "broadcast"
  /\ pc' = [w \in Workers |-> IF thread_counter # thread_Num /\ pc[w] = "asleep"
                              THEN "woken" ELSE pc[w]]
  /\ bfs' = [bfs EXCEPT !.pc = "process"]
  /\ UNCHANGED <<shared, flags, host, mtx, slept, search>>

----------------------------------------------------------------------------
(* The workers *)

\* pthread2DFS binds itself to a core.
NextCore == IF core_counter >= coreNum THEN 0 ELSE core_counter

Bind(w) ==
  /\ pc[w] = "bind" /\ mtx = Free
  /\ core_counter' = NextCore + 1
  /\ pc' = [pc EXCEPT ![w] = "barrier"]
  /\ UNCHANGED <<shared, flags, mtx, slept, search, bfs, proc, spurious>>

\* pthread_barrier_wait of the workers and the breadth-first thread.
Barrier ==
  /\ bfs.pc = "barrier"
  /\ \A w \in Workers : pc[w] = "barrier"
  /\ pc' = [w \in Workers |-> "idle"]
  /\ bfs' = [bfs EXCEPT !.pc = "process"]
  /\ UNCHANGED <<shared, flags, host, mtx, slept, search>>

\* mtx is taken, by pthread_mutex_lock or by the return of pthread_cond_wait,
\* and unsafeGetData(false) reads one of bfsQueue_length and bfsQueue_counter:
\* C++ leaves open which operand of the subtraction comes first.
Lock(w) ==
  /\ Running /\ pc[w] \in {"idle", "woken"} /\ mtx = Free
  /\ mtx' = w
  /\ \E r \in {<<"length", length>>, <<"counter", counter>>} : seen' = [seen EXCEPT ![w] = r]
  /\ pc' = [pc EXCEPT ![w] = "look"]
  /\ UNCHANGED <<shared, flags, host, slept, at, height, bfs>>

\* unsafeGetData(false) returned -1.  The first time thread_counter goes down,
\* and the last worker sets subThread; pthread_cond_wait releases mtx.
Sleep(w) ==
  /\ thread_counter' = IF slept[w] THEN thread_counter ELSE thread_counter - 1
  /\ subThread' = (subThread \/ (~slept[w] /\ thread_counter' = 0))
  /\ slept' = [slept EXCEPT ![w] = TRUE]
  /\ pc' = [pc EXCEPT ![w] = "asleep"]
  /\ mtx' = Free

\* if (!isMain && bfsQueue_length - bfsQueue_counter <= 2), with the other operand.
Difference(w) == IF seen[w][1] = "length" THEN seen[w][2] - counter
                 ELSE length - seen[w][2]

Look(w) ==
  /\ Running /\ pc[w] = "look"
  /\ \/ Difference(w) <= 2 /\ Sleep(w)
     \/ /\ Difference(w) > 2
        /\ pc' = [pc EXCEPT ![w] = "take"]
        /\ UNCHANGED <<mtx, slept, thread_counter, subThread>>
  /\ seen' = [seen EXCEPT ![w] = Nothing]
  /\ UNCHANGED <<shared, mainThread, host, at, height, bfs>>

\* The section under data_mtx.  The test of line 103 is the same as its first,
\* earlier.  A worker that had slept goes on to line 402 with mtx.
Take(w) ==
  /\ Running /\ pc[w] = "take"
  /\ \/ counter = length /\ Sleep(w) /\ UNCHANGED <<counter, at, height>>
     \/ /\ counter # length
        /\ counter' = counter + 1
        /\ at' = [at EXCEPT ![w] = 0]
        /\ height' = [height EXCEPT ![w] = 1]
        /\ pc' = [pc EXCEPT ![w] = IF slept[w] THEN "wake" ELSE "search"]
        /\ mtx' = IF slept[w] THEN w ELSE Free
        /\ UNCHANGED <<slept, thread_counter, subThread>>
  /\ UNCHANGED <<queue, length, visited, reported, mainThread, host, seen, bfs>>

\* Lines 402-405.  Mutants: the flag stays; mtx stays locked.
MutWakeFlag(w) ==
  /\ Running /\ pc[w] = "wake"
  /\ thread_counter' = thread_counter + 1
  /\ slept' = [slept EXCEPT ![w] = FALSE]
  /\ mtx' = Free
  /\ pc' = [pc EXCEPT ![w] = "search"]
  /\ UNCHANGED <<shared, subThread, mainThread, host, search, bfs>>
MutWakeLocked(w) ==
  /\ Running /\ pc[w] = "wake"
  /\ subThread' = FALSE
  /\ thread_counter' = thread_counter + 1
  /\ slept' = [slept EXCEPT ![w] = FALSE]
  /\ pc' = [pc EXCEPT ![w] = "search"]
  /\ UNCHANGED <<shared, mainThread, host, mtx, search, bfs>>
Wake(w) ==
  /\ Running /\ pc[w] = "wake"
  /\ subThread' = FALSE
  /\ thread_counter' = thread_counter + 1
  /\ slept' = [slept EXCEPT ![w] = FALSE]
  /\ mtx' = Free
  /\ pc' = [pc EXCEPT ![w] = "search"]
  /\ UNCHANGED <<shared, mainThread, host, search, bfs>>

\* The vertices lines 323 and 327 do not skip.  Mutant: the loop starts at 1.
MutUnclaimed(w) == {i \in 1 .. totalVertex - 1 :
                      i >= at[w] /\ i \notin visited /\ ~whertherInLine(i)}
Unclaimed(w) == {i \in Vertices : i >= at[w] /\ i \notin visited /\ ~whertherInLine(i)}

\* The loops of my_DFS: on to the next vertex nobody has claimed.  At the end of
\* the first pass every vertex is visited or queued, and stays so: the later
\* passes, one for each entry of the stack, only pop.
Search(w) ==
  /\ Running /\ pc[w] = "search"
  /\ \/ /\ Unclaimed(w) # {}
        /\ at' = [at EXCEPT ![w] = Min(Unclaimed(w))]
        /\ pc' = [pc EXCEPT ![w] = "mark"]
        /\ UNCHANGED height
     \/ /\ Unclaimed(w) = {}
        /\ at' = [at EXCEPT ![w] = 0]
        /\ height' = [height EXCEPT ![w] = 0]
        /\ pc' = [pc EXCEPT ![w] = "idle"]
  /\ UNCHANGED <<shared, flags, host, mtx, slept, seen, bfs>>

Mark(w) ==
  /\ Running /\ pc[w] = "mark"
  /\ visited' = visited \cup {at[w]}
  /\ reported' = reported \cup {at[w]}
  /\ height' = [height EXCEPT ![w] = @ + 1]
  /\ at' = [at EXCEPT ![w] = @ + 1]
  /\ pc' = [pc EXCEPT ![w] = "search"]
  /\ UNCHANGED <<queue, length, counter, flags, host, mtx, slept, seen, bfs>>

\* pthread_cond_wait may return though nobody signalled.
SpuriousWakeup(w) ==
  /\ Running /\ pc[w] = "asleep" /\ spurious < MaxSpurious
  /\ spurious' = spurious + 1
  /\ pc' = [pc EXCEPT ![w] = "woken"]
  /\ UNCHANGED <<shared, flags, core_counter, mtx, slept, search, bfs, proc>>

Worker(w) == Bind(w) \/ Lock(w) \/ Look(w) \/ Take(w) \/ Wake(w) \/ Search(w) \/ Mark(w)
BFS == Process \/ Scan \/ Put \/ Count \/ Get \/ Check \/ Broadcast
Main == Start \/ ReadSub \/ ReadMain

Next == Main \/ Barrier \/ BFS \/ \E w \in Workers : Worker(w) \/ SpuriousWakeup(w)

Spec == Init /\ [][Next]_vars

\* Every thread that can run is scheduled, and the start signal comes.
FairSpec ==
  Spec /\ WF_vars(Main) /\ WF_vars(Barrier) /\ WF_vars(BFS)
       /\ \A w \in Workers : WF_vars(Worker(w))

----------------------------------------------------------------------------
(* Properties *)

Asleep(w) == slept[w] /\ pc[w] # "wake"

\* bfsQueue and the stacks are never overrun: no vertex is put into bfsQueue
\* twice though its slot is checked and filled in two steps, nobody takes an
\* entry that is not counted yet, and a stack, whose searcher races the other
\* searchers for vertices, never outgrows its malloc.  (visited is written at
\* Heard, outside its malloc.)
InBounds ==
  /\ counter <= length /\ length <= Len(queue) /\ Len(queue) < totalVertex
  /\ \A k \in DOMAIN queue : \A j \in 1 .. k - 1 : queue[j] # queue[k]
  /\ \A w \in Workers : height[w] <= totalVertex

\* subThread, which ends the process, is set exactly while every worker has
\* given up: no worker is in its search, and thread_counter counts the others,
\* whatever wakeups were lost, spurious or late.
SubThreadMeansIdle ==
  /\ thread_counter = Cardinality({w \in Workers : ~slept[w]})
  /\ subThread <=> \A w \in Workers : slept[w]
  /\ \A w \in Workers : pc[w] \in {"search", "mark"} => ~slept[w]

\* Nothing of the graph is lost between the threads: once the breadth-first
\* thread is over and no worker has a vertex in hand, the root and the reported
\* vertices are closed under edges, so every vertex reachable from the root was
\* reported, although a search skips what the queue holds and the breadth-first
\* thread skips what a search has visited.
NothingLost ==
  (mainThread /\ \A w \in Workers : Asleep(w))
     => \A i, j \in Vertices :
          i \in reported \cup {initValue} /\ connected(i, j)
             => j \in reported \cup {initValue}

\* The process ends.
Ends == <>(proc = "exit")
=============================================================================
