----------------------------- MODULE GlobalSync -----------------------------
(***************************************************************************)
(* Parallel simulation: one thread per event queue, global events and the  *)
(* simulation quantum (sim/simulate.cc, sim/global_event.cc,               *)
(* base/barrier.hh).  A queue is the sorted list that EventQueue is shown  *)
(* to implement, next to the asynchronous list where other threads, and    *)
(* every thread for a global event, leave what they schedule.              *)
(*                                                                         *)
(* The thread of queue 0 is Python's: it calls simulate().  The others     *)
(* meet it at threadBarrier.  Each queue has a CPU, an event that comes    *)
(* back every tick and may send the message event to another queue or      *)
(* leave the simulation loop; a signal may ask for that, or for the        *)
(* statistics.                                                             *)
(***************************************************************************)
EXTENDS Integers, Sequences, FiniteSets, SequencesExt

CONSTANTS
  Threads,     \* the queues, 0 .. numMainEventQueues - 1, and their threads
  simQuantum,
  Delays,      \* how far ahead a message to another queue may be due
  num_cycles,  \* the argument of simulate()
  MaxCalls,    \* bound: calls of simulate()
  Exits,       \* bound: the exit events that CPUs create
  Interrupts,  \* bound: the exit events that signals cause, one each
  Stats,       \* bound: the statistics events that signals cause
  MaxDumps     \* bound: the signals that ask for statistics

ASSUME SyncAssumption ==
  /\ 0 \in Threads /\ Threads \subseteq Nat /\ Cardinality(Threads) > 1
  /\ {simQuantum, num_cycles} \subseteq Nat \ {0}
  /\ Delays \subseteq Nat /\ \A d \in Delays : d >= simQuantum
  /\ MaxCalls \in Nat
  /\ IsFiniteSet(Interrupts) /\ IsFiniteSet(Stats) /\ MaxDumps \in Nat
  /\ MaxDumps > 0 => MaxDumps + Cardinality(Interrupts) <= Cardinality(Stats)

VARIABLES
  queue,      \* queue[t]: the pending events with their times, in order
  async,      \* async[t]: async_queue
  flags,      \* flags[t]: the events of queue t with the flag Scheduled
  curTick,    \* curTick[t]
  pc,         \* pc[t]: where the thread stands
  event,      \* event[t]: the global event t is in, or "none"
  job,        \* job[t]: what t is scheduling
  arrived,    \* arrived[e]: the threads that wait at the barrier of e
  globalQ,    \* the thread that holds globalQMutex, or Free
  fresh,      \* the exit and statistics events not created yet
  async_event,
  requests,   \* "stat" for async_statdump or async_statreset, "exit" for async_exit
  calls,      \* calls of simulate() so far
  stores      \* stores[k]: stores of the handler of kind k so far, two a signal

vars == <<queue, async, flags, curTick, pc, event, job, arrived, globalQ, fresh,
          async_event, requests, calls, stores>>

lists == <<queue, async, flags, curTick>>
signals == <<async_event, requests, stores>>
control == <<event, arrived, globalQ, calls>>

Free == -1
Idle == [event |-> "none", when |-> 0, targets |-> << >>, then |-> "none"]
Globals == {"sync", "limit"} \cup Exits \cup Interrupts \cup Stats
Events == Globals \cup {"cpu", "msg"}

\* CPU_Tick_Pri, Default_Pri, Stat_Event_Pri, Progress_Event_Pri, Sim_Exit_Pri.
Priority(e) ==
  CASE e = "cpu" -> 50 [] e = "msg" -> 0 [] e \in Stats -> 90 [] e = "sync" -> 95
    [] OTHER -> 100

Local == INSTANCE SortedQueue WITH
           Prio <- [e \in Events |-> Priority(e)], MaxTick <- 0,
           pending <- queue[0], now <- curTick[0]

Entry(e, w) == [event |-> e, when |-> w]

Init ==
  /\ queue = [t \in Threads |-> <<Entry("cpu", 0)>>]
  /\ async = [t \in Threads |-> << >>]
  /\ flags = [t \in Threads |-> {"cpu"}]
  /\ curTick = [t \in Threads |-> 0]
  /\ pc = [t \in Threads |-> IF t = 0 THEN "python" ELSE "enter"]
  /\ event = [t \in Threads |-> "none"]
  /\ job = [t \in Threads |-> Idle]
  /\ arrived = [e \in Globals \cup {"threads"} |-> {}]
  /\ globalQ = Free
  /\ fresh = Exits \cup Interrupts \cup Stats
  /\ async_event = FALSE /\ requests = {}
  /\ calls = 0 /\ stores = [k \in {"exit", "stat"} |-> 0]

----------------------------------------------------------------------------
(* Barriers and the asynchronous list *)

\* Barrier::wait of t at the barrier of e: the last to arrive goes on to last,
\* the waiting threads to others.
Wait(t, e, last, waiting, others) ==
  IF arrived[e] \cup {t} = Threads
  THEN /\ pc' = [u \in Threads |-> IF u = t THEN last
                                   ELSE IF u \in arrived[e] THEN others ELSE pc[u]]
       /\ arrived' = [arrived EXCEPT ![e] = {}]
  ELSE /\ pc' = [pc EXCEPT ![t] = waiting]
       /\ arrived' = [arrived EXCEPT ![e] = @ \cup {t}]

\* Mutant: what is in the list stays there.
MutHandleAsyncInsertions(t) == UNCHANGED <<queue, async>>
handleAsyncInsertions(t) ==
  /\ queue' = [queue EXCEPT ![t] = FoldLeft(Local!Place, @, async[t])]
  /\ async' = [async EXCEPT ![t] = << >>]

\* BaseGlobalEvent::schedule in parallel mode begins: every queue, under the
\* mutex.  A message goes to one other queue and needs no mutex.
AllQueues == SetToSortSeq(Threads, <)
Scheduling(t, e, w, targets, then) ==
  job' = [job EXCEPT ![t] = [event |-> e, when |-> w, targets |-> targets, then |-> then]]

\* exitSimLoop and schedStatEvent: a new event, due a quantum from now.
\* Mutant: it is due at once.
MutNewTick(t) == curTick[t]
NewTick(t) == curTick[t] + simQuantum

NewGlobal(t, x, then) ==
  /\ x \in fresh
  /\ fresh' = fresh \ {x}
  /\ Scheduling(t, x, NewTick(t), AllQueues, then)
  /\ pc' = [pc EXCEPT ![t] = "lock"]

\* globalQMutex.lock().  Mutant: nobody waits for it.
MutLock(t) ==
  /\ pc[t] = "lock"
  /\ globalQ' = t
  /\ pc' = [pc EXCEPT ![t] = "insert"]
  /\ UNCHANGED <<lists, event, job, arrived, fresh, signals, calls>>
Lock(t) ==
  /\ pc[t] = "lock" /\ globalQ = Free
  /\ globalQ' = t
  /\ pc' = [pc EXCEPT ![t] = "insert"]
  /\ UNCHANGED <<lists, event, job, arrived, fresh, signals, calls>>

\* EventQueue::schedule on the next queue: asyncInsert ...
Insert(t) ==
  /\ pc[t] = "insert"
  /\ LET i == Head(job[t].targets)
     IN  async' = [async EXCEPT ![i] = Append(@, Entry(job[t].event, job[t].when))]
  /\ pc' = [pc EXCEPT ![t] = "flag"]
  /\ UNCHANGED <<queue, flags, curTick, control, job, fresh, signals>>

\* ... and then the flag; after the last queue the mutex is released, and
\* doSimLoop clears the request for statistics it has served.  Mutant: the mutex
\* is not released.
MutUnlocked(t) == globalQ
Unlocked(t) == IF globalQ = t THEN Free ELSE globalQ

SetFlag(t) ==
  /\ pc[t] = "flag"
  /\ flags' = [flags EXCEPT ![Head(job[t].targets)] = @ \cup {job[t].event}]
  /\ IF Len(job[t].targets) > 1
     THEN /\ job' = [job EXCEPT ![t].targets = Tail(@)]
          /\ pc' = [pc EXCEPT ![t] = "insert"]
          /\ UNCHANGED <<globalQ, requests>>
     ELSE /\ job' = [job EXCEPT ![t] = Idle]
          /\ pc' = [pc EXCEPT ![t] = job[t].then]
          /\ globalQ' = Unlocked(t)
          /\ requests' = IF job[t].event \in Stats THEN requests \ {"stat"} ELSE requests
  /\ UNCHANGED <<queue, async, curTick, event, arrived, fresh, async_event, stores, calls>>

----------------------------------------------------------------------------
(* simulate() *)

\* Up to threadBarrier: not in parallel mode, so the limit and a new quantum
\* event go straight into the queues.
Simulate ==
  /\ pc[0] = "python" /\ calls < MaxCalls
  /\ calls' = calls + 1
  /\ queue' = [t \in Threads |->
       Local!Place(Local!Place(Local!Drop(queue[t], "limit"),
                               Entry("limit", curTick[0] + num_cycles)),
                   Entry("sync", curTick[0] + simQuantum))]
  /\ flags' = [t \in Threads |-> flags[t] \cup {"limit", "sync"}]
  /\ pc' = [pc EXCEPT ![0] = "enter"]
  /\ UNCHANGED <<async, curTick, event, job, arrived, globalQ, fresh, signals>>

Enter(t) ==
  /\ pc[t] = "enter"
  /\ Wait(t, "threads", "start", "parked", "start")
  /\ UNCHANGED <<lists, event, job, globalQ, fresh, signals, calls>>

\* doSimLoop before its loop.
Start(t) ==
  /\ pc[t] = "start"
  /\ handleAsyncInsertions(t)
  /\ pc' = [pc EXCEPT ![t] = "loop"]
  /\ UNCHANGED <<flags, curTick, control, job, fresh, signals>>

\* After doSimLoop: the quantum event is descheduled and deleted.
Return ==
  /\ pc[0] = "return"
  /\ queue' = [t \in Threads |-> IF "sync" \in flags[t] THEN Local!Drop(queue[t], "sync")
                                 ELSE queue[t]]
  /\ flags' = [t \in Threads |-> flags[t] \ {"sync"}]
  /\ pc' = [pc EXCEPT ![0] = "python"]
  /\ UNCHANGED <<async, curTick, control, job, fresh, signals>>

----------------------------------------------------------------------------
(* doSimLoop *)

\* exitNowHandler, dumpStatsHandler or dumprstStatsHandler, in some thread: it
\* stores async_event and then its request.
MaxSignals(k) == IF k = "exit" THEN Cardinality(Interrupts) ELSE MaxDumps

Signal(k) ==
  /\ stores[k] % 2 = 0 /\ stores[k] < 2 * MaxSignals(k)
  /\ stores' = [stores EXCEPT ![k] = @ + 1]
  /\ async_event' = TRUE
  /\ UNCHANGED <<lists, pc, control, job, fresh, requests>>

SignalRequest(k) ==
  /\ stores[k] % 2 = 1
  /\ stores' = [stores EXCEPT ![k] = @ + 1]
  /\ requests' = requests \cup {k}
  /\ UNCHANGED <<lists, pc, control, job, fresh, async_event>>

\* testAndClearAsyncEvent() is true for this thread.
TestAndClear(t) ==
  /\ pc[t] = "loop" /\ async_event
  /\ async_event' = FALSE
  /\ pc' = [pc EXCEPT ![t] = "async"]
  /\ UNCHANGED <<lists, control, job, fresh, requests, stores>>

\* The requests of the signal handlers, statistics first: async_statdump is
\* cleared once its event is scheduled, async_exit before; then the loop
\* services an event.
Wanted(t) ==
  IF pc[t] = "async" /\ "stat" \in requests THEN Stats
  ELSE IF "exit" \in requests THEN Interrupts ELSE {}

HandleAsync(t) ==
  /\ pc[t] \in {"async", "exits"}
  /\ \/ \E x \in Wanted(t) :
          /\ NewGlobal(t, x, IF x \in Stats THEN "exits" ELSE "loop")
          /\ requests' = IF x \in Stats THEN requests ELSE requests \ {"exit"}
     \/ /\ Wanted(t) = {}
        /\ pc' = [pc EXCEPT ![t] = "loop"]
        /\ UNCHANGED <<requests, fresh, job>>
  /\ UNCHANGED <<lists, control, async_event, stores>>

\* serviceOne takes the first event off the queue.  Mutant: its flag stays.
MutTaken(t) == flags[t]
Taken(t) == flags[t] \ {Head(queue[t]).event}

ServiceOne(t) ==
  LET e == Head(queue[t])
  IN  /\ pc[t] = "loop" /\ ~async_event
      /\ curTick' = [curTick EXCEPT ![t] = e.when]
      /\ \/ /\ e.event = "cpu"
            /\ queue' = [queue EXCEPT ![t] = Local!Place(Tail(@), Entry("cpu", e.when + 1))]
            /\ flags' = flags
            /\ pc' = [pc EXCEPT ![t] = "body"]
            /\ event' = event
         \/ /\ e.event = "msg"
            /\ queue' = [queue EXCEPT ![t] = Tail(@)]
            /\ flags' = [flags EXCEPT ![t] = Taken(t)]
            /\ UNCHANGED <<pc, event>>
         \/ /\ e.event \in Globals
            /\ queue' = [queue EXCEPT ![t] = Tail(@)]
            /\ flags' = [flags EXCEPT ![t] = Taken(t)]
            /\ event' = [event EXCEPT ![t] = e.event]
            /\ pc' = [pc EXCEPT ![t] = "barrier1"]
      /\ UNCHANGED <<async, job, arrived, globalQ, fresh, signals, calls>>

\* What the CPU does in its tick: nothing that other queues see, a message to
\* another queue, or an exit.
Tick(t) ==
  /\ pc[t] = "body"
  /\ \/ /\ pc' = [pc EXCEPT ![t] = "loop"]
        /\ UNCHANGED <<job, fresh>>
     \/ /\ \A u \in Threads : job[u].event # "msg" /\ "msg" \notin flags[u]
        /\ \E u \in Threads \ {t}, d \in Delays :
             Scheduling(t, "msg", curTick[t] + d, <<u>>, "loop")
        /\ pc' = [pc EXCEPT ![t] = "insert"]
        /\ UNCHANGED fresh
     \/ \E x \in Exits : NewGlobal(t, x, "loop")
  /\ UNCHANGED <<lists, control, signals>>

\* BarrierEvent::process: the first barrier ...  Mutant: wait() is true for all.
MutBarrier1(t) ==
  /\ pc[t] = "barrier1"
  /\ Wait(t, event[t], "process", "wait1", "process")
  /\ UNCHANGED <<lists, event, job, globalQ, fresh, signals, calls>>
Barrier1(t) ==
  /\ pc[t] = "barrier1"
  /\ Wait(t, event[t], "process", "wait1", "barrier2")
  /\ UNCHANGED <<lists, event, job, globalQ, fresh, signals, calls>>

\* ... one thread processes the event; the quantum event schedules itself (no
\* exit or statistics event here has repeat set) ...
Process(t) ==
  /\ pc[t] = "process"
  /\ \/ /\ event[t] = "sync"
        /\ Scheduling(t, "sync", curTick[t] + simQuantum, AllQueues, "barrier2")
        /\ pc' = [pc EXCEPT ![t] = "lock"]
     \/ /\ event[t] # "sync"
        /\ pc' = [pc EXCEPT ![t] = "barrier2"]
        /\ UNCHANGED job
  /\ UNCHANGED <<lists, control, fresh, signals>>

\* ... the second barrier ...
Barrier2(t) ==
  /\ pc[t] = "barrier2"
  /\ Wait(t, event[t], "after", "wait2", "after")
  /\ UNCHANGED <<lists, event, job, globalQ, fresh, signals, calls>>

\* ... and a quantum event takes in what the other threads have scheduled,
\* while an exit event leaves doSimLoop and a statistics event goes on.
After(t) ==
  /\ pc[t] = "after"
  /\ event' = [event EXCEPT ![t] = "none"]
  /\ \/ /\ event[t] = "sync"
        /\ handleAsyncInsertions(t)
        /\ pc' = [pc EXCEPT ![t] = "loop"]
     \/ /\ event[t] # "sync"
        /\ pc' = [pc EXCEPT ![t] = IF event[t] \in Stats THEN "loop"
                                  ELSE IF t = 0 THEN "return" ELSE "enter"]
        /\ UNCHANGED <<queue, async>>
  /\ UNCHANGED <<flags, curTick, job, arrived, globalQ, fresh, signals, calls>>

Step(t) ==
  \/ Lock(t) \/ Insert(t) \/ SetFlag(t) \/ Enter(t) \/ Start(t) \/ TestAndClear(t)
  \/ HandleAsync(t) \/ ServiceOne(t) \/ Tick(t) \/ Barrier1(t) \/ Process(t)
  \/ Barrier2(t) \/ After(t)

Next ==
  \/ Simulate \/ Return
  \/ \E k \in {"exit", "stat"} : Signal(k) \/ SignalRequest(k)
  \/ \E t \in Threads : Step(t)

Spec == Init /\ [][Next]_vars

\* Every thread that can run is scheduled by the host.
FairSpec == Spec /\ WF_vars(Return) /\ \A t \in Threads : WF_vars(Step(t))

----------------------------------------------------------------------------
(* Properties *)

InQueue(t, e) == \E i \in DOMAIN queue[t] : queue[t][i].event = e
InAsync(t, e) == \E i \in DOMAIN async[t] : async[t][i].event = e

\* The assertions of doSimLoop and EventQueue::schedule on time: what goes
\* through an asynchronous list at least a quantum ahead is never taken in late,
\* though the threads drain their lists at different moments.
NotInThePast ==
  \A t \in Threads :
    /\ pc[t] = "loop" => queue[t] # << >> /\ curTick[t] <= Head(queue[t]).when
    /\ pc[t] = "insert" => job[t].when >= curTick[Head(job[t].targets)]

\* "exactly one of the threads will execute the process() method" of a global
\* event, while every other thread is between its two barriers.
ProcessedAlone ==
  \A t \in Threads :
    event[t] # "none" /\ pc[t] \in {"process", "lock", "insert", "flag"}
      => \A u \in Threads \ {t} : event[u] = event[t] /\ pc[u] \in {"barrier2", "wait2"}

\* "Global events need to have a total order": no two threads wait for each
\* other at the barriers of different events.  It takes that nobody asks for
\* statistics, whose event goes before the quantum event of its tick, and that
\* simulate() is called for more than a quantum.
OneOrder ==
  \A t, u \in Threads :
    pc[t] \in {"wait1", "wait2"} /\ pc[u] \in {"wait1", "wait2"} => event[t] = event[u]

\* While the thread of Python owns all queues, before and after the loop, every
\* other thread has left the loop through the same event and only goes to
\* threadBarrier; the quantum event it deschedules and deletes is in every
\* queue that holds its flag, and nobody is at its barrier.
PythonAlone ==
  pc[0] \in {"return", "python"} =>
    /\ \A t \in Threads \ {0} : pc[t] \in {"after", "enter", "parked"} /\ event[t] # "sync"
    /\ \A t \in Threads : "sync" \in flags[t] => InQueue(t, "sync")

Holds(t, e) == InQueue(t, e) \/ InAsync(t, e)

\* What the flag Scheduled is worth to schedule(), deschedule() and
\* reschedule(), though it is set after the event is put into a list and cleared
\* by another thread: no queue holds an event twice; once nobody is scheduling an
\* event, it has the flag wherever it is held; and the flag of a global event,
\* which schedule() and deschedule() go by, tells exactly where it is held.
FlagsHold ==
  \A t \in Threads, e \in Events :
    /\ Cardinality({i \in DOMAIN queue[t] : queue[t][i].event = e})
         + Cardinality({i \in DOMAIN async[t] : async[t][i].event = e}) <= 1
    /\ (\A u \in Threads : job[u].event # e) =>
         /\ Holds(t, e) => e \in flags[t]
         /\ e \in Globals => (e \in flags[t] => Holds(t, e))

\* A call of simulate() returns, at its limit if nothing else stops it.
Returns == pc[0] = "enter" ~> pc[0] = "python"
=============================================================================
