---------------------------- MODULE MatrixBench ----------------------------
(***************************************************************************)
(* The matrix benchmark (benchmark/matrix/test01.cpp) on several chiplets. *)
(* Each chiplet is a process: a main thread that waits for a start signal  *)
(* in the shared memory, and thread_num workers that meet in perf_cycle,   *)
(* multiply their slice, report it through the shared memory and meet in   *)
(* perf_cycle again.  The start signals (-4) come from outside the         *)
(* repository: the action Signal is the environment's.                     *)
(*                                                                         *)
(* A critical section whose effect only its own process sees is one step,  *)
(* taken when mtx is free; one that reads or writes the shared memory      *)
(* holds mtx over several steps.                                           *)
(***************************************************************************)
EXTENDS GadiaFiles, FiniteSets

CONSTANTS
  Ids,              \* the ids typed into the processes
  theChipletScale,  \* the number whose file carries the start signals
  N,                \* matrices are N x N
  thread_num,       \* workers of a chiplet (4 in the code)
  coreNum,          \* cores of a chiplet
  MaxSignals        \* bound: start signals the environment sends

ASSUME BenchAssumption ==
  /\ Ids \subseteq {0, 1}   \* another id has its half outside matrix3
  /\ {0, 1, theChipletScale} \subseteq Numbers
  /\ Name(theChipletScale) # Slash
  /\ {N, thread_num, coreNum} \subseteq Nat \ {0}
  /\ 8 <= IntSize /\ 4 * N < IntSize   \* -4 and an entry 2 * N are ints
  /\ MaxSignals \in Nat

VARIABLES
  files,         \* the shared memory
  pos,           \* pos[p]: gadia_last_position of process p
  main,          \* main[p]: where the main thread of p stands
  created,       \* created[p]: workers created so far
  pc,            \* pc[p][t]: where worker t of p stands
  round,         \* round[p][t]: 1 or 2, which call of perf_cycle is next
  mtx,           \* mtx[p]: the worker that holds the mutex over steps, or Free
  counter,       \* counter[p]: *counter of perf_cycle
  core_counter,  \* core_counter[p]
  core,          \* core[p][t]: the core t is bound to, or -1
  matrix3,       \* matrix3[p]: the result matrix of p
  sent,          \* sent[p]: values sent in the current toWrite
  stamp,         \* stamp[p]: the times ftime has taken, 1 the start, 2 the end
  spurious       \* history: the chiplets where a wait returned unsignalled

vars == <<files, pos, main, created, pc, round, mtx, counter, core_counter,
          core, matrix3, sent, stamp, spurious>>

memory == <<files, pos>>
mains == <<main, created>>
cores == <<core_counter, core>>
results == <<matrix3, sent>>
barrier == <<round, mtx, counter, stamp>>

Workers == 0 .. thread_num - 1
Free == -1
Cells == 0 .. N * N - 1

\* thread_args[i].length and .offset: C's / on non-negative ints.
Length == ((N * N) \div thread_num) \div 2
MutOffset(p, i) == ((i * N * N) \div thread_num) \div 2
Offset(p, i) == ((i * N * N) \div thread_num) \div 2 + (p * N * N) \div 2

Slice(p, i) == {Offset(p, i) + k : k \in 0 .. Length - 1}

Init ==
  /\ files = [x \in FileNames |-> << >>]
  /\ pos = [p \in Ids |-> 0]
  /\ main = [p \in Ids |-> "init"]
  /\ created = [p \in Ids |-> 0]
  /\ pc = [p \in Ids |-> [t \in Workers |-> "new"]]
  /\ round = [p \in Ids |-> [t \in Workers |-> 1]]
  /\ mtx = [p \in Ids |-> Free]
  /\ counter = [p \in Ids |-> thread_num]
  /\ core_counter = [p \in Ids |-> 0]
  /\ core = [p \in Ids |-> [t \in Workers |-> -1]]
  /\ matrix3 = [p \in Ids |-> [c \in Cells |-> 0]]
  /\ sent = [p \in Ids |-> 0]
  /\ stamp = [p \in Ids |-> {}]
  /\ spurious = {}

----------------------------------------------------------------------------
(* The environment *)

\* Whoever starts the phases writes data -4 for number theChipletScale.
SignalLines == {i \in DOMAIN files[Name(theChipletScale)] :
                  files[Name(theChipletScale)][i].data = -4}

Signal ==
  /\ Cardinality(SignalLines) < MaxSignals
  /\ files' = AfterCall(files, 1, ToWord(0), ToWord(theChipletScale), ToWord(-4), 0)
  /\ UNCHANGED <<pos, mains, pc, barrier, cores, results, spurious>>

----------------------------------------------------------------------------
(* The main thread *)

\* init(id): the matrices are set up, then a line goes to number 1.  The
\* m5_gadia_call(0, 1, 0, -1) that follows has init # 0 and writes nothing.
MainInit(p) ==
  /\ main[p] = "init"
  /\ files' = AfterCall(files, 1, ToWord(p), ToWord(1), ToWord(0), 0)
  /\ main' = [main EXCEPT ![p] = "poll"]
  /\ UNCHANGED <<pos, created, pc, barrier, cores, results, spurious>>

\* One iteration of the loop on m5_gadia_receive(theChipletScale).
MainPoll(p) ==
  /\ main[p] = "poll"
  /\ \E r \in Results(files, pos[p], ToWord(theChipletScale)) :
       /\ pos' = [pos EXCEPT ![p] = r.pos]
       /\ main' = IF r.ret = ToWord(-4) THEN [main EXCEPT ![p] = "launch"] ELSE main
  /\ UNCHANGED <<files, created, pc, barrier, cores, results, spurious>>

\* One iteration of the pthread_create loop.
MainLaunch(p) ==
  /\ main[p] = "launch"
  /\ pc' = [pc EXCEPT ![p][created[p]] = "affinity"]
  /\ created' = [created EXCEPT ![p] = @ + 1]
  /\ main' = IF created'[p] = thread_num THEN [main EXCEPT ![p] = "join"] ELSE main
  /\ UNCHANGED <<memory, barrier, cores, results, spurious>>

\* pthread_join of every worker; then the time is printed.
MainJoin(p) ==
  /\ main[p] = "join"
  /\ \A t \in Workers : pc[p][t] = "exit"
  /\ main' = [main EXCEPT ![p] = "done"]
  /\ UNCHANGED <<memory, created, pc, barrier, cores, results, spurious>>

----------------------------------------------------------------------------
(* perf_cycle *)

\* Where a worker continues after its r-th perf_cycle.
After(r) == IF r = 1 THEN "caculate" ELSE "exit"

\* Threads in pthread_cond_wait when t broadcasts, and t itself, move on.
MutReleased(p, t) == [pc[p] EXCEPT ![t] = After(round[p][t])]
Released(p, t) ==
  [u \in Workers |-> IF u = t THEN After(round[p][t])
                     ELSE IF pc[p][u] = "wait" THEN "woken"
                     ELSE pc[p][u]]

\* ftime, the reset of the counter, the broadcast and the unlock.  Mutant: the
\* time goes to the other variable.
MutRelease(p, t) ==
  /\ pc' = [pc EXCEPT ![p] = Released(p, t)]
  /\ stamp' = [stamp EXCEPT ![p] = @ \cup {3 - round[p][t]}]
  /\ counter' = [counter EXCEPT ![p] = thread_num]
  /\ mtx' = [mtx EXCEPT ![p] = Free]
Release(p, t) ==
  /\ pc' = [pc EXCEPT ![p] = Released(p, t)]
  /\ stamp' = [stamp EXCEPT ![p] = @ \cup {round[p][t]}]
  /\ counter' = [counter EXCEPT ![p] = thread_num]
  /\ mtx' = [mtx EXCEPT ![p] = Free]

\* The test on the decremented counter.
MutIsLast(p) == counter[p] - 1 <= 1
IsLast(p) == counter[p] - 1 = 0

\* The last worker of chiplet 0 releases the others at once.  On another
\* chiplet it keeps mtx and polls; its m5_gadia_call(id, 0, 0, 2) has
\* init # 0 and writes nothing.
EnterLast(p, t) ==
  /\ pc[p][t] = "enter"
  /\ mtx[p] = Free
  /\ IsLast(p)
  /\ \/ p = 0 /\ Release(p, t)
     \/ /\ p # 0
        /\ counter' = [counter EXCEPT ![p] = @ - 1]
        /\ mtx' = [mtx EXCEPT ![p] = t]
        /\ pc' = [pc EXCEPT ![p][t] = "poll"]
        /\ UNCHANGED stamp
  /\ UNCHANGED <<memory, mains, round, cores, results, spurious>>

EnterWait(p, t) ==
  /\ pc[p][t] = "enter"
  /\ mtx[p] = Free
  /\ ~IsLast(p)
  /\ counter' = [counter EXCEPT ![p] = @ - 1]
  /\ pc' = [pc EXCEPT ![p][t] = "wait"]
  /\ UNCHANGED <<memory, mains, round, mtx, cores, results, stamp, spurious>>

\* One m5_gadia_receive(theChipletScale) of the last worker.
Poll(p, t) ==
  /\ pc[p][t] = "poll"
  /\ \E r \in Results(files, pos[p], ToWord(theChipletScale)) :
       /\ pos' = [pos EXCEPT ![p] = r.pos]
       /\ IF r.ret = ToWord(-4) THEN Release(p, t)
          ELSE UNCHANGED <<pc, stamp, counter, mtx>>
  /\ UNCHANGED <<files, mains, round, cores, results, spurious>>

\* pthread_cond_wait may return though nobody signalled.
SpuriousWakeup(p, t) ==
  /\ pc[p][t] = "wait"
  /\ pc' = [pc EXCEPT ![p][t] = "woken"]
  /\ spurious' = spurious \cup {p}
  /\ UNCHANGED <<memory, mains, barrier, cores, results>>

\* pthread_cond_wait takes mtx again; the caller unlocks and returns.
Resume(p, t) ==
  /\ pc[p][t] = "woken"
  /\ mtx[p] = Free
  /\ pc' = [pc EXCEPT ![p][t] = After(round[p][t])]
  /\ UNCHANGED <<memory, mains, barrier, cores, results, spurious>>

----------------------------------------------------------------------------
(* The rest of matrix_parallel *)

NextCore(k) == IF k >= coreNum THEN 0 ELSE k

SetAffinity(p, t) ==
  /\ pc[p][t] = "affinity"
  /\ mtx[p] = Free
  /\ core' = [core EXCEPT ![p][t] = NextCore(core_counter[p])]
  /\ core_counter' = [core_counter EXCEPT ![p] = NextCore(@) + 1]
  /\ pc' = [pc EXCEPT ![p][t] = "enter"]
  /\ UNCHANGED <<memory, mains, barrier, results, spurious>>

\* Every entry of matrix1 is 1 and of matrix2 is 2: a cell grows by 2 * N.
caculate(p, t) ==
  /\ pc[p][t] = "caculate"
  /\ matrix3' = [matrix3 EXCEPT ![p] =
                   [c \in Cells |-> IF c \in Slice(p, t) THEN @[c] + 2 * N ELSE @[c]]]
  /\ pc' = [pc EXCEPT ![p][t] = "toWrite"]
  /\ UNCHANGED <<memory, mains, barrier, cores, sent, spurious>>

WriteLock(p, t) ==
  /\ pc[p][t] = "toWrite"
  /\ mtx[p] = Free
  /\ mtx' = [mtx EXCEPT ![p] = t]
  /\ sent' = [sent EXCEPT ![p] = 0]
  /\ pc' = [pc EXCEPT ![p][t] = "writing"]
  /\ UNCHANGED <<memory, mains, round, counter, cores, matrix3, stamp, spurious>>

\* i + offset of toWrite's loop.
MutCellToSend(p, t) == sent[p]
CellToSend(p, t) == Offset(p, t) + sent[p]

\* m5_gadia_call(0, 0, matrix3[i + offset], 0): the source is always 0.
WriteOne(p, t) ==
  /\ pc[p][t] = "writing"
  /\ sent[p] < Length
  /\ files' = AfterCall(files, 1, ToWord(0), ToWord(0),
                        ToWord(matrix3[p][CellToSend(p, t)]), 0)
  /\ sent' = [sent EXCEPT ![p] = @ + 1]
  /\ UNCHANGED <<pos, mains, pc, barrier, cores, matrix3, spurious>>

WriteUnlock(p, t) ==
  /\ pc[p][t] = "writing"
  /\ sent[p] = Length
  /\ mtx' = [mtx EXCEPT ![p] = Free]
  /\ round' = [round EXCEPT ![p][t] = 2]
  /\ pc' = [pc EXCEPT ![p][t] = "enter"]
  /\ UNCHANGED <<memory, mains, counter, cores, results, stamp, spurious>>

----------------------------------------------------------------------------
(* The specification *)

Main(p) == MainInit(p) \/ MainPoll(p) \/ MainLaunch(p) \/ MainJoin(p)

Worker(p, t) ==
  \/ SetAffinity(p, t) \/ EnterLast(p, t) \/ EnterWait(p, t) \/ Poll(p, t)
  \/ Resume(p, t) \/ caculate(p, t) \/ WriteLock(p, t) \/ WriteOne(p, t)
  \/ WriteUnlock(p, t)

Next ==
  \/ Signal
  \/ \E p \in Ids : Main(p)
  \/ \E p \in Ids, t \in Workers : Worker(p, t) \/ SpuriousWakeup(p, t)

Spec == Init /\ [][Next]_vars

\* Each simulated core keeps executing and the environment keeps signalling;
\* a worker that waits for mtx gets it (each worker takes it a bounded number
\* of times, so a fair scheduler needs no fair mutex).
FairSpec ==
  /\ Spec
  /\ WF_vars(Signal)
  /\ \A p \in Ids : WF_vars(Main(p))
  /\ \A p \in Ids, t \in Workers : WF_vars(Worker(p, t))

----------------------------------------------------------------------------
(* Properties *)

Working == {"caculate", "toWrite", "writing"}

\* Worker t of p has returned from its k-th perf_cycle.
Past(p, t, k) ==
  IF k = 1 THEN pc[p][t] \in Working \/ round[p][t] = 2 ELSE pc[p][t] = "exit"

\* Worker t of p has entered its k-th perf_cycle.
Arrived(p, t, k) ==
  \/ Past(p, t, k)
  \/ round[p][t] = k /\ pc[p][t] \in {"wait", "poll", "woken"}

\* Worker t of p has passed a perf_cycle only with every worker there.
Met(p) ==
  \A k \in {1, 2} : \A t, u \in Workers : Past(p, t, k) => Arrived(p, u, k)

\* perf_cycle is a barrier, both times: on a chiplet whose waits return only
\* when signalled no worker continues before every worker has arrived,
\* although the counter is reset while workers still leave.
Barrier == \A p \in Ids \ spurious : Met(p)

\* What perf_cycle's comment claims of any execution: "Wait for the last
\* thread before continuing".
BarrierAlways == \A p \in Ids : Met(p)

\* What is timed is the work: while a worker computes or reports, the start
\* time of its chiplet has been taken and the end time has not.
WorkIsTimed ==
  \A p \in Ids \ spurious : \A t \in Workers :
    pc[p][t] \in Working => stamp[p] = {1}

\* A chiplet other than 0 runs its k-th phase only after k + 1 start signals,
\* and no chiplet launches workers before the first: no signal is read twice.
PhasesAreSignalled ==
  \A p \in Ids \ spurious :
    /\ created[p] > 0 => Cardinality(SignalLines) >= 1
    /\ \A t \in Workers, k \in {1, 2} :
         p # 0 /\ Past(p, t, k) => Cardinality(SignalLines) >= k + 1

Half(p) == {c \in Cells : (p * N * N) \div 2 <= c /\ c < ((p + 1) * N * N) \div 2}

\* A finished chiplet has computed every cell of its half of the product, once,
\* and no other cell: the slices of its workers tile the half.
HalfComputed ==
  \A p \in Ids : main[p] = "done" =>
    \A c \in Cells : matrix3[p][c] = IF c \in Half(p) THEN 2 * N ELSE 0

\* Values chiplet p has reported so far.
Reported(p) ==
  Cardinality({t \in Workers : round[p][t] = 2}) * Length
  + (IF \E t \in Workers : pc[p][t] = "writing" THEN sent[p] ELSE 0)

\* communication0 holds the reports of all chiplets: as many lines as values
\* reported, each a finished cell, none lost or written before it is computed.
AllReported ==
  /\ Len(files[Name(0)]) = (IF 0 \in Ids THEN Reported(0) ELSE 0)
                           + (IF 1 \in Ids THEN Reported(1) ELSE 0)
  /\ \A i \in DOMAIN files[Name(0)] : files[Name(0)][i].data = 2 * N

\* Every chiplet finishes: nobody waits for mtx, for a broadcast or for a
\* start signal for ever, given enough signals and no spurious wakeup.
AllFinish == <>(\A p \in Ids : main[p] = "done" \/ p \in spurious)
=============================================================================
