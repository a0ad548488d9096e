------------------------- MODULE MatrixBenchProofs -------------------------
(***************************************************************************)
(* The multi-chiplet benchmark for every matrix size and number of         *)
(* workers: perf_cycle is a barrier and its two times enclose the work as  *)
(* long as no wait returns unsignalled, no start signal is used twice, the *)
(* slices tile the half of the chiplet, and no report is lost.             *)
(***************************************************************************)
EXTENDS MatrixBench, GadiaFilesProofs, FiniteSetTheorems

Locations == {"new", "affinity", "enter", "wait", "poll", "woken", "caculate",
              "toWrite", "writing", "exit"}

TypeInv ==
  /\ main \in [Ids -> {"init", "poll", "launch", "join", "done"}]
  /\ created \in [Ids -> 0 .. thread_num]
  /\ pc \in [Ids -> [Workers -> Locations]]
  /\ round \in [Ids -> [Workers -> {1, 2}]]
  /\ mtx \in [Ids -> Workers \cup {Free}]
  /\ counter \in [Ids -> Int]
  /\ stamp \in [Ids -> SUBSET {1, 2}]
  /\ spurious \subseteq Ids

\* The workers that exist are those the main thread has created.
CreateInv(p) ==
  /\ main[p] \in {"init", "poll"} => created[p] = 0
  /\ main[p] = "launch" => created[p] < thread_num
  /\ \A t \in Workers : pc[p][t] = "new" <=> t >= created[p]

\* mtx is held over steps exactly by the worker that polls or writes.
MutexInv(p) ==
  \A t \in Workers : pc[p][t] \in {"poll", "writing"} <=> mtx[p] = t

\* Where a worker stands tells which perf_cycle it is about.
RoundInv(p) ==
  \A t \in Workers :
    /\ pc[p][t] \in {"new", "affinity"} \cup Working => round[p][t] = 1
    /\ pc[p][t] = "exit" => round[p][t] = 2

\* The workers counted in *counter.
Inside(p) == {t \in Workers : pc[p][t] \in {"wait", "poll"}}

\* Worker t may leave, or has left, its k-th perf_cycle.
Gone(p, t, k) == Past(p, t, k) \/ (round[p][t] = k /\ pc[p][t] = "woken")

\* Where every wait is signalled the counter counts who has not arrived, the
\* polling worker is the last, the workers leave a perf_cycle all at once, and
\* that is when its time is taken.
CountInv(p) == counter[p] = thread_num - Cardinality(Inside(p))

LastInv(p) ==
  \A t, u \in Workers : pc[p][t] = "poll" /\ u # t => pc[p][u] = "wait"

GoneInv(p) ==
  \A k \in {1, 2} : \A t, u \in Workers : Gone(p, t, k) => Gone(p, u, k)

StampInv(p) ==
  \A k \in {1, 2} : k \in stamp[p] <=> \E t \in Workers : Gone(p, t, k)

MeetInv(p) == CountInv(p) /\ LastInv(p) /\ GoneInv(p) /\ StampInv(p)

ThreadInv(p) == CreateInv(p) /\ MutexInv(p) /\ RoundInv(p)

IInv ==
  /\ TypeInv
  /\ \A p \in Ids : ThreadInv(p)
  /\ \A p \in Ids \ spurious : MeetInv(p)

----------------------------------------------------------------------------
(* The barrier, one chiplet at a time *)

\* Workers is finite and has thread_num members.
LEMMA WorkersFinite ==
  /\ IsFiniteSet(Workers)
  /\ Cardinality(Workers) = thread_num
  /\ Workers \subseteq Nat
  /\ Free \notin Workers
  <1>1. thread_num \in Nat \ {0}
    BY BenchAssumption, Zenon
  <1>2. /\ IsFiniteSet(0 .. thread_num - 1)
        /\ Cardinality(0 .. thread_num - 1) = thread_num
    BY <1>1, FS_Interval
  <1> QED
    BY <1>1, <1>2 DEF Workers, Free

\* The same for the workers inside perf_cycle.
LEMMA InsideFinite ==
  ASSUME NEW p
  PROVE  /\ IsFiniteSet(Inside(p))
         /\ Cardinality(Inside(p)) \in Nat
         /\ Inside(p) \subseteq Workers
  BY WorkersFinite, FS_Subset, FS_CardinalityType, Zenon DEF Inside

\* What a step does not change of a chiplet keeps what holds of it.
LEMMA OtherChiplets ==
  ASSUME NEW q \in Ids,
         main'[q] = main[q], created'[q] = created[q], pc'[q] = pc[q],
         round'[q] = round[q], mtx'[q] = mtx[q], counter'[q] = counter[q],
         stamp'[q] = stamp[q]
  PROVE  /\ ThreadInv(q) => ThreadInv(q)'
         /\ MeetInv(q) => MeetInv(q)'
  <1>1. ThreadInv(q) => ThreadInv(q)'
    BY DEF ThreadInv, CreateInv, MutexInv, RoundInv
  <1>2. \A t \in Workers, k \in {1, 2} : Gone(q, t, k)' <=> Gone(q, t, k)
    BY Zenon DEF Gone, Past
  <1>3. Inside(q)' = Inside(q)
    BY Zenon DEF Inside
  <1>4. CountInv(q) => CountInv(q)'
    BY <1>3, Zenon DEF CountInv
  <1>5. LastInv(q) => LastInv(q)'
    BY Zenon DEF LastInv
  <1>6. GoneInv(q) => GoneInv(q)'
    BY <1>2, Zenon DEF GoneInv
  <1>7. StampInv(q) => StampInv(q)'
    BY <1>2, Zenon DEF StampInv
  <1> QED
    BY <1>1, <1>4, <1>5, <1>6, <1>7, Zenon DEF MeetInv

\* A worker that moves outside the critical part of perf_cycle: nobody enters
\* or leaves the count, and who may have left a perf_cycle stays the same.
LEMMA QuietMove ==
  ASSUME NEW p \in Ids,
         counter'[p] = counter[p], stamp'[p] = stamp[p],
         \A u \in Workers : pc'[p][u] = "wait" <=> pc[p][u] = "wait",
         \A u \in Workers : pc'[p][u] = "poll" <=> pc[p][u] = "poll",
         \A u \in Workers, k \in {1, 2} : Gone(p, u, k)' <=> Gone(p, u, k)
  PROVE  MeetInv(p) => MeetInv(p)'
  <1>1. Inside(p)' = Inside(p)
    BY Zenon DEF Inside
  <1>2. CountInv(p) => CountInv(p)'
    BY <1>1, Zenon DEF CountInv
  <1>3. LastInv(p) => LastInv(p)'
    BY Zenon DEF LastInv
  <1>4. GoneInv(p) => GoneInv(p)'
    BY Zenon DEF GoneInv
  <1>5. StampInv(p) => StampInv(p)'
    BY Zenon DEF StampInv
  <1> QED
    BY <1>2, <1>3, <1>4, <1>5, Zenon DEF MeetInv

\* A worker that finds the counter at 1 finds every other worker waiting.
LEMMA LastToArrive ==
  ASSUME TypeInv, NEW p \in Ids, NEW t \in Workers, ThreadInv(p), MeetInv(p),
         pc[p][t] = "enter", mtx[p] = Free, IsLast(p)
  PROVE  \A u \in Workers \ {t} : pc[p][u] = "wait"
  <1>1. Cardinality(Inside(p)) = thread_num - 1
    BY InsideFinite, BenchAssumption DEF MeetInv, CountInv, IsLast, TypeInv
  <1>2. Inside(p) \in SUBSET (Workers \ {t})
    BY Zenon DEF Inside
  <1>3. IsFiniteSet(Workers \ {t}) /\ Cardinality(Workers \ {t}) = thread_num - 1
    BY WorkersFinite, FS_RemoveElement, Zenon
  <1>4. Inside(p) = Workers \ {t}
    BY <1>1, <1>2, <1>3, FS_Subset, Zenon
  <1>5. \A u \in Workers : pc[p][u] # "poll"
    BY WorkersFinite, Zenon DEF ThreadInv, MutexInv
  <1> QED
    BY <1>4, <1>5, Zenon DEF Inside

\* All workers of the perf_cycle that ends are in the same one.
LEMMA SameRound ==
  ASSUME TypeInv, NEW p \in Ids, NEW t \in Workers, RoundInv(p), GoneInv(p),
         pc[p][t] \in {"enter", "poll"},
         \A u \in Workers \ {t} : pc[p][u] = "wait"
  PROVE  /\ \A u \in Workers : round[p][u] = round[p][t]
         /\ \A u \in Workers : ~Gone(p, u, round[p][t])
  <1>1. \A u \in Workers : Gone(p, u, 1) <=> round[p][u] = 2
    BY Zenon DEF Gone, Past, TypeInv, Working
  <1>2. \A u \in Workers : ~Gone(p, u, 2)
    BY DEF Gone, Past
  <1>3. \A u \in Workers : round[p][u] \in {1, 2}
    BY DEF TypeInv
  <1>4. \A u \in Workers : round[p][u] = round[p][t]
    BY <1>1, <1>3, Zenon DEF GoneInv
  <1> QED
    BY <1>1, <1>2, <1>3, <1>4, Zenon

\* The broadcast: everybody leaves the perf_cycle, whose time is taken.
LEMMA ReleaseStep ==
  ASSUME TypeInv, NEW p \in Ids, NEW t \in Workers, ThreadInv(p), MeetInv(p),
         pc[p][t] \in {"enter", "poll"},
         \A u \in Workers \ {t} : pc[p][u] = "wait",
         Release(p, t), round' = round
  PROVE  MeetInv(p)'
  <1> PICK k \in {1, 2} : k = round[p][t]
    BY DEF TypeInv
  <1>1. /\ \A u \in Workers : round[p][u] = k
        /\ \A u \in Workers : ~Gone(p, u, k)
    BY SameRound, Zenon DEF ThreadInv, MeetInv
  <1>2. /\ pc'[p] = Released(p, t)
        /\ counter'[p] = thread_num
        /\ stamp'[p] = stamp[p] \cup {k}
    BY Zenon DEF Release, TypeInv
  <1>3. \A u \in Workers : pc'[p][u] = IF u = t THEN After(k) ELSE "woken"
    BY <1>2 DEF Released
  <1>4. Inside(p)' = {}
    BY <1>3, Zenon DEF Inside, After
  <1>5. CountInv(p)'
    BY <1>2, <1>4, FS_EmptySet, BenchAssumption DEF CountInv
  <1>6. LastInv(p)'
    BY <1>3, Zenon DEF LastInv, After
  <1>7. \A u \in Workers : round'[p][u] = k
    BY <1>1, Zenon
  <1>8. \A u \in Workers : Gone(p, u, k)'
    BY <1>3, <1>7, Zenon DEF Gone, Past, After, Working
  <1>9. \A u \in Workers, j \in {1, 2} : j # k => (Gone(p, u, j)' <=> j = 1)
    BY <1>3, <1>7, Zenon DEF Gone, Past, After, Working
  <1>10. \A u \in Workers, j \in {1, 2} : j # k => (Gone(p, u, j) <=> j = 1)
    BY <1>1, Zenon DEF Gone, Past, After, Working
  <1>11. GoneInv(p)'
    BY <1>8, <1>9, Zenon DEF GoneInv
  <1>12. StampInv(p)'
    BY <1>2, <1>8, <1>9, <1>10, Zenon DEF StampInv, MeetInv
  <1> QED
    BY <1>5, <1>6, <1>11, <1>12, Zenon DEF MeetInv

----------------------------------------------------------------------------
(* The steps *)

\* The step of a worker keeps its invariants and touches no other chiplet.
Kept(p) ==
  /\ TypeInv'
  /\ ThreadInv(p)'
  /\ p \notin spurious' => MeetInv(p)'
  /\ spurious \subseteq spurious'
  /\ \A q \in Ids \ {p} :
       /\ main'[q] = main[q] /\ created'[q] = created[q] /\ pc'[q] = pc[q]
       /\ round'[q] = round[q] /\ mtx'[q] = mtx[q] /\ counter'[q] = counter[q]
       /\ stamp'[q] = stamp[q]

\* The main thread creates the next worker.
LEMMA LaunchStep ==
  ASSUME IInv, NEW p \in Ids, MainLaunch(p)
  PROVE  Kept(p)
  <1> DEFINE t == created[p]
  <1>1. t \in Workers /\ pc[p][t] = "new" /\ round[p][t] = 1
    BY BenchAssumption DEF IInv, TypeInv, ThreadInv, CreateInv, RoundInv, MainLaunch, Workers
  <1>2. /\ \A u \in Workers : pc'[p][u] = IF u = t THEN "affinity" ELSE pc[p][u]
        /\ created'[p] = t + 1
        /\ main[p] = "launch"
        /\ main'[p] = IF t + 1 = thread_num THEN "join" ELSE "launch"
        /\ round' = round /\ mtx' = mtx /\ counter' = counter /\ stamp' = stamp
        /\ spurious' = spurious
    BY <1>1, BenchAssumption, Zenon DEF MainLaunch, IInv, TypeInv, barrier
  <1>3. TypeInv'
    <2>1. pc' \in [Ids -> [Workers -> Locations]]
      BY <1>1, Zenon DEF MainLaunch, IInv, TypeInv, Locations
    <2>2. created' \in [Ids -> 0 .. thread_num]
      BY <1>1, BenchAssumption DEF MainLaunch, IInv, TypeInv, Workers
    <2>3. main' \in [Ids -> {"init", "poll", "launch", "join", "done"}]
      BY Zenon DEF MainLaunch, IInv, TypeInv
    <2> QED
      BY <1>2, <2>1, <2>2, <2>3, Zenon DEF IInv, TypeInv
  <1>4. CreateInv(p)'
    <2>1. \A u \in Workers : u \in Nat /\ t \in Nat /\ t < thread_num /\ thread_num \in Nat
      BY <1>1, BenchAssumption DEF Workers
    <2>2. \A u \in Workers : pc[p][u] = "new" <=> u >= t
      BY Zenon DEF IInv, ThreadInv, CreateInv
    <2> QED
      BY <1>1, <1>2, <2>1, <2>2 DEF CreateInv
  <1>5. MutexInv(p)' /\ RoundInv(p)'
    BY <1>1, <1>2 DEF IInv, ThreadInv, MutexInv, RoundInv, Working
  <1>6. \A u \in Workers, k \in {1, 2} : Gone(p, u, k)' <=> Gone(p, u, k)
    BY <1>1, <1>2, Zenon DEF Gone, Past, Working
  <1>7. p \notin spurious' => MeetInv(p)'
    BY <1>1, <1>2, <1>6, QuietMove, Zenon DEF IInv
  <1>8. \A q \in Ids \ {p} : main'[q] = main[q] /\ created'[q] = created[q] /\ pc'[q] = pc[q]
    BY Zenon DEF MainLaunch, IInv, TypeInv
  <1> QED
    BY <1>2, <1>3, <1>4, <1>5, <1>7, <1>8, Zenon DEF Kept, ThreadInv

\* The other steps of the main thread leave the workers alone.
LEMMA MainStep ==
  ASSUME IInv, NEW p \in Ids, MainInit(p) \/ MainPoll(p) \/ MainJoin(p)
  PROVE  Kept(p)
  <1>1. /\ created' = created /\ pc' = pc /\ round' = round /\ mtx' = mtx
        /\ counter' = counter /\ stamp' = stamp /\ spurious' = spurious
    BY Zenon DEF MainInit, MainPoll, MainJoin, barrier
  <1>2. /\ main' \in [Ids -> {"init", "poll", "launch", "join", "done"}]
        /\ main'[p] = "launch" => main[p] = "poll"
        /\ main'[p] \in {"init", "poll"} => main[p] \in {"init", "poll"}
        /\ \A q \in Ids \ {p} : main'[q] = main[q]
    BY Zenon DEF MainInit, MainPoll, MainJoin, IInv, TypeInv
  <1>3. MeetInv(p) => MeetInv(p)'
    BY <1>1, QuietMove, Zenon DEF Gone, Past
  <1>4. ThreadInv(p)'
    BY <1>1, <1>2, BenchAssumption DEF IInv, ThreadInv, CreateInv, MutexInv, RoundInv
  <1> QED
    BY <1>1, <1>2, <1>3, <1>4, Zenon DEF Kept, IInv, TypeInv

\* A worker's step that leaves main, created and counter, and mtx of the other
\* chiplets, keeps the invariants when it keeps those of its own chiplet.
LEMMA WorkerFrame ==
  ASSUME IInv, NEW p \in Ids, NEW t \in Workers,
         NEW x \in Locations, x # "new", pc[p][t] # "new",
         pc' = [pc EXCEPT ![p][t] = x], mains' = mains
  PROVE  /\ pc' \in [Ids -> [Workers -> Locations]]
         /\ \A u \in Workers : pc'[p][u] = IF u = t THEN x ELSE pc[p][u]
         /\ CreateInv(p)'
         /\ \A q \in Ids \ {p} : main'[q] = main[q] /\ created'[q] = created[q] /\ pc'[q] = pc[q]
  <1>1. pc' \in [Ids -> [Workers -> Locations]]
    BY Zenon DEF IInv, TypeInv
  <1>2. \A u \in Workers : pc'[p][u] = IF u = t THEN x ELSE pc[p][u]
    BY Zenon DEF IInv, TypeInv
  <1>3. main' = main /\ created' = created
    BY Zenon DEF mains
  <1>4. CreateInv(p)'
    BY <1>2, <1>3, Zenon DEF IInv, ThreadInv, CreateInv
  <1>5. \A q \in Ids \ {p} : pc'[q] = pc[q]
    BY Zenon DEF IInv, TypeInv
  <1> QED
    BY <1>1, <1>2, <1>3, <1>4, <1>5, Zenon

\* matrix_parallel outside perf_cycle, and the return from a signalled wait.
LEMMA PlainStep ==
  ASSUME IInv, NEW p \in Ids, NEW t \in Workers,
         SetAffinity(p, t) \/ Resume(p, t) \/ caculate(p, t)
  PROVE  Kept(p)
  <1> PICK x \in {"enter", "caculate", "exit", "toWrite"} :
        /\ pc' = [pc EXCEPT ![p][t] = x]
        /\ \/ pc[p][t] = "affinity" /\ x = "enter"
           \/ pc[p][t] = "woken" /\ x = After(round[p][t])
           \/ pc[p][t] = "caculate" /\ x = "toWrite"
    BY Zenon DEF SetAffinity, Resume, caculate, After
  <1>1. /\ mains' = mains /\ round' = round /\ mtx' = mtx /\ counter' = counter
        /\ stamp' = stamp /\ spurious' = spurious
    BY Zenon DEF SetAffinity, Resume, caculate, barrier
  <1>2. x \in Locations /\ x # "new" /\ pc[p][t] # "new"
    BY Zenon DEF Locations
  <1>3. /\ pc' \in [Ids -> [Workers -> Locations]]
        /\ \A u \in Workers : pc'[p][u] = IF u = t THEN x ELSE pc[p][u]
        /\ CreateInv(p)'
        /\ \A q \in Ids \ {p} : main'[q] = main[q] /\ created'[q] = created[q] /\ pc'[q] = pc[q]
    BY <1>1, <1>2, WorkerFrame, Zenon
  <1>4. \A u \in Workers : round[p][u] \in {1, 2}
    BY DEF IInv, TypeInv
  <1>5. MutexInv(p)' /\ RoundInv(p)'
    BY <1>1, <1>3, <1>4 DEF IInv, ThreadInv, MutexInv, RoundInv, Working, After
  <1>6. \A u \in Workers, k \in {1, 2} : Gone(p, u, k)' <=> Gone(p, u, k)
    BY <1>1, <1>3, <1>4 DEF Gone, Past, Working, After
  <1>7. p \notin spurious' => MeetInv(p)'
    BY <1>1, <1>3, <1>6, QuietMove, Zenon DEF IInv, After
  <1>8. TypeInv'
    BY <1>1, <1>3, Zenon DEF IInv, TypeInv, mains
  <1> QED
    BY <1>1, <1>3, <1>5, <1>7, <1>8, Zenon DEF Kept, ThreadInv

\* toWrite: a worker takes mtx, sends its values, and gives mtx back.
LEMMA WriteStep ==
  ASSUME IInv, NEW p \in Ids, NEW t \in Workers,
         WriteLock(p, t) \/ WriteUnlock(p, t)
  PROVE  Kept(p)
  <1> PICK x \in {"writing", "enter"}, r \in {1, 2}, h \in Workers \cup {Free} :
        /\ pc' = [pc EXCEPT ![p][t] = x]
        /\ round' = [round EXCEPT ![p][t] = r]
        /\ mtx' = [mtx EXCEPT ![p] = h]
        /\ \/ pc[p][t] = "toWrite" /\ x = "writing" /\ r = round[p][t] /\ mtx[p] = Free /\ h = t
           \/ pc[p][t] = "writing" /\ x = "enter" /\ r = 2 /\ h = Free
    <2>1. CASE WriteLock(p, t)
      <3>1. round[p][t] \in {1, 2} /\ round' = [round EXCEPT ![p][t] = round[p][t]]
        BY <2>1 DEF WriteLock, IInv, TypeInv
      <3> QED
        BY <2>1, <3>1, Zenon DEF WriteLock
    <2>2. CASE WriteUnlock(p, t)
      BY <2>2, Zenon DEF WriteUnlock
    <2> QED
      BY <2>1, <2>2, Zenon
  <1>1. mains' = mains /\ counter' = counter /\ stamp' = stamp /\ spurious' = spurious
    BY Zenon DEF WriteLock, WriteUnlock
  <1>2. x \in Locations /\ x # "new" /\ pc[p][t] # "new"
    BY Zenon DEF Locations
  <1>3. /\ pc' \in [Ids -> [Workers -> Locations]]
        /\ \A u \in Workers : pc'[p][u] = IF u = t THEN x ELSE pc[p][u]
        /\ CreateInv(p)'
        /\ \A q \in Ids \ {p} : main'[q] = main[q] /\ created'[q] = created[q] /\ pc'[q] = pc[q]
    BY <1>1, <1>2, WorkerFrame, Zenon
  <1>4. \A u \in Workers : round[p][u] \in {1, 2}
    BY DEF IInv, TypeInv
  <1>5. /\ round' \in [Ids -> [Workers -> {1, 2}]]
        /\ \A u \in Workers : round'[p][u] = IF u = t THEN r ELSE round[p][u]
        /\ mtx' \in [Ids -> Workers \cup {Free}]
        /\ mtx'[p] = h
        /\ \A q \in Ids \ {p} : mtx'[q] = mtx[q] /\ round'[q] = round[q]
    BY Zenon DEF IInv, TypeInv
  <1>6. MutexInv(p)' /\ RoundInv(p)'
    BY <1>3, <1>4, <1>5, WorkersFinite DEF IInv, ThreadInv, MutexInv, RoundInv, Working
  <1>7. round[p][t] = 1
    BY Zenon DEF IInv, ThreadInv, RoundInv, Working
  <1>8. \A u \in Workers, k \in {1, 2} : Gone(p, u, k)' <=> Gone(p, u, k)
    BY <1>3, <1>4, <1>5, <1>7 DEF Gone, Past, Working
  <1>9. p \notin spurious' => MeetInv(p)'
    BY <1>1, <1>3, <1>8, QuietMove, Zenon DEF IInv
  <1>10. TypeInv'
    BY <1>1, <1>3, <1>5, Zenon DEF IInv, TypeInv, mains
  <1> QED
    BY <1>1, <1>3, <1>5, <1>6, <1>9, <1>10, Zenon DEF Kept, ThreadInv

\* A worker that is not the last goes to wait.
LEMMA EnterWaitStep ==
  ASSUME IInv, NEW p \in Ids, NEW t \in Workers, EnterWait(p, t)
  PROVE  Kept(p)
  <1>1. /\ pc[p][t] = "enter" /\ mtx[p] = Free
        /\ pc' = [pc EXCEPT ![p][t] = "wait"]
        /\ mains' = mains /\ round' = round /\ mtx' = mtx /\ stamp' = stamp
        /\ spurious' = spurious
    BY Zenon DEF EnterWait
  <1>2. /\ counter' \in [Ids -> Int]
        /\ counter'[p] = counter[p] - 1
        /\ \A q \in Ids \ {p} : counter'[q] = counter[q]
    BY DEF EnterWait, IInv, TypeInv
  <1>3. /\ pc' \in [Ids -> [Workers -> Locations]]
        /\ \A u \in Workers : pc'[p][u] = IF u = t THEN "wait" ELSE pc[p][u]
        /\ CreateInv(p)'
        /\ \A q \in Ids \ {p} : main'[q] = main[q] /\ created'[q] = created[q] /\ pc'[q] = pc[q]
    <2>1. "wait" \in Locations /\ pc[p][t] # "new"
      BY <1>1, Zenon DEF Locations
    <2> QED
      BY <1>1, <2>1, WorkerFrame, Zenon
  <1>4. MutexInv(p)' /\ RoundInv(p)'
    BY <1>1, <1>3 DEF IInv, ThreadInv, MutexInv, RoundInv, Working
  <1>5. ASSUME p \notin spurious'
        PROVE  MeetInv(p)'
    <2>1. MeetInv(p)
      BY <1>1, <1>5, Zenon DEF IInv
    <2>2. \A u \in Workers, k \in {1, 2} : Gone(p, u, k)' <=> Gone(p, u, k)
      BY <1>1, <1>3, Zenon DEF Gone, Past, Working
    <2>3. Inside(p)' = Inside(p) \cup {t} /\ t \notin Inside(p)
      BY <1>1, <1>3 DEF Inside
    <2>4. Cardinality(Inside(p)') = Cardinality(Inside(p)) + 1
      BY <2>3, InsideFinite, FS_AddElement, Zenon
    <2>5. CountInv(p)'
      BY <1>2, <2>1, <2>4, InsideFinite, BenchAssumption DEF MeetInv, CountInv
    <2>6. LastInv(p)'
      BY <1>1, <1>3, WorkersFinite DEF IInv, ThreadInv, MutexInv, LastInv
    <2>7. GoneInv(p)' /\ StampInv(p)'
      BY <1>1, <2>1, <2>2, Zenon DEF MeetInv, GoneInv, StampInv
    <2> QED
      BY <2>5, <2>6, <2>7, Zenon DEF MeetInv
  <1>6. TypeInv'
    BY <1>1, <1>2, <1>3, Zenon DEF IInv, TypeInv, mains
  <1> QED
    BY <1>1, <1>2, <1>3, <1>4, <1>5, <1>6, Zenon DEF Kept, ThreadInv

\* What the broadcast does to the types and the mutex.
LEMMA ReleaseKeeps ==
  ASSUME IInv, NEW p \in Ids, NEW t \in Workers, Release(p, t),
         pc[p][t] \in {"enter", "poll"}, mtx[p] \in {Free, t},
         mains' = mains, round' = round, spurious' = spurious,
         p \notin spurious => \A u \in Workers \ {t} : pc[p][u] = "wait"
  PROVE  Kept(p)
  <1>1. \A u \in Workers : round[p][u] \in {1, 2} /\ pc[p][u] \in Locations
    BY DEF IInv, TypeInv
  <1>2. /\ pc' = [pc EXCEPT ![p] = Released(p, t)]
        /\ stamp' = [stamp EXCEPT ![p] = @ \cup {round[p][t]}]
        /\ counter' = [counter EXCEPT ![p] = thread_num]
        /\ mtx' = [mtx EXCEPT ![p] = Free]
    BY Zenon DEF Release
  <1>3. Released(p, t) \in [Workers -> Locations]
    BY <1>1, Zenon DEF Released, After, Locations
  <1>4. pc' \in [Ids -> [Workers -> Locations]] /\ pc'[p] = Released(p, t)
    BY <1>2, <1>3, Zenon DEF IInv, TypeInv
  <1>5. stamp' \in [Ids -> SUBSET {1, 2}]
    BY <1>1, <1>2, Zenon DEF IInv, TypeInv
  <1>6. counter' \in [Ids -> Int] /\ mtx' \in [Ids -> Workers \cup {Free}] /\ mtx'[p] = Free
    BY <1>2, BenchAssumption DEF IInv, TypeInv
  <1>7. TypeInv'
    BY <1>4, <1>5, <1>6, Zenon DEF IInv, TypeInv, mains
  <1>8. \A q \in Ids \ {p} :
          /\ main'[q] = main[q] /\ created'[q] = created[q] /\ pc'[q] = pc[q]
          /\ round'[q] = round[q] /\ mtx'[q] = mtx[q] /\ counter'[q] = counter[q]
          /\ stamp'[q] = stamp[q]
    BY <1>2, Zenon DEF mains, IInv, TypeInv
  <1>9. \A u \in Workers :
          pc'[p][u] = IF u = t THEN After(round[p][t])
                      ELSE IF pc[p][u] = "wait" THEN "woken" ELSE pc[p][u]
    BY <1>4, Zenon DEF Released
  <1>10. CreateInv(p)'
    BY <1>9, Zenon DEF IInv, ThreadInv, CreateInv, mains, After
  <1>11. MutexInv(p)'
    BY <1>6, <1>9, WorkersFinite DEF IInv, ThreadInv, MutexInv, After
  <1>12. RoundInv(p)'
    BY <1>1, <1>9 DEF IInv, ThreadInv, RoundInv, After, Working
  <1>13. p \notin spurious' => MeetInv(p)'
    BY ReleaseStep, Zenon DEF IInv
  <1> QED
    BY <1>7, <1>8, <1>10, <1>11, <1>12, <1>13, Zenon DEF Kept, ThreadInv

\* The last worker of chiplet 0 releases the others; on another chiplet it
\* keeps mtx and polls.
LEMMA EnterLastStep ==
  ASSUME IInv, NEW p \in Ids, NEW t \in Workers, EnterLast(p, t)
  PROVE  Kept(p)
  <1>1. /\ pc[p][t] = "enter" /\ mtx[p] = Free /\ IsLast(p)
        /\ mains' = mains /\ round' = round /\ spurious' = spurious
    BY Zenon DEF EnterLast
  <1>2. p \notin spurious => \A u \in Workers \ {t} : pc[p][u] = "wait"
    BY <1>1, LastToArrive, Zenon DEF IInv
  <1>3. CASE Release(p, t)
    BY <1>1, <1>2, <1>3, ReleaseKeeps, Zenon
  <1>4. CASE /\ counter' = [counter EXCEPT ![p] = @ - 1]
             /\ mtx' = [mtx EXCEPT ![p] = t]
             /\ pc' = [pc EXCEPT ![p][t] = "poll"]
             /\ stamp' = stamp
    <2>1. /\ counter' \in [Ids -> Int] /\ mtx' \in [Ids -> Workers \cup {Free}]
          /\ counter'[p] = counter[p] - 1
          /\ mtx'[p] = t
          /\ \A q \in Ids \ {p} : counter'[q] = counter[q] /\ mtx'[q] = mtx[q]
      BY <1>4 DEF IInv, TypeInv
    <2>2. /\ pc' \in [Ids -> [Workers -> Locations]]
          /\ \A u \in Workers : pc'[p][u] = IF u = t THEN "poll" ELSE pc[p][u]
          /\ CreateInv(p)'
          /\ \A q \in Ids \ {p} : main'[q] = main[q] /\ created'[q] = created[q] /\ pc'[q] = pc[q]
      <3>1. "poll" \in Locations /\ pc[p][t] # "new"
        BY <1>1, Zenon DEF Locations
      <3> QED
        BY <1>1, <1>4, <3>1, WorkerFrame, Zenon
    <2>3. MutexInv(p)' /\ RoundInv(p)'
      <3>1. \A u \in Workers : pc[p][u] \notin {"poll", "writing"}
        BY <1>1, WorkersFinite DEF IInv, ThreadInv, MutexInv
      <3>2. MutexInv(p)'
        BY <2>1, <2>2, <3>1, Zenon DEF MutexInv
      <3> QED
        BY <1>1, <2>2, <3>2 DEF IInv, ThreadInv, RoundInv, Working
    <2>4. ASSUME p \notin spurious'
          PROVE  MeetInv(p)'
      <3>1. MeetInv(p)
        BY <1>1, <2>4, Zenon DEF IInv
      <3>2. \A u \in Workers, k \in {1, 2} : Gone(p, u, k)' <=> Gone(p, u, k)
        BY <1>1, <2>2, Zenon DEF Gone, Past, Working
      <3>3. Inside(p)' = Inside(p) \cup {t} /\ t \notin Inside(p)
        BY <1>1, <2>2, Zenon DEF Inside
      <3>4. Cardinality(Inside(p)') = Cardinality(Inside(p)) + 1
        BY <3>3, InsideFinite, FS_AddElement, Zenon
      <3>5. CountInv(p)'
        BY <2>1, <3>1, <3>4, InsideFinite, BenchAssumption DEF MeetInv, CountInv
      <3>6. LastInv(p)'
        BY <1>1, <1>2, <2>2, <2>4, Zenon DEF LastInv
      <3>7. GoneInv(p)' /\ StampInv(p)'
        BY <1>4, <3>1, <3>2, Zenon DEF MeetInv, GoneInv, StampInv
      <3> QED
        BY <3>5, <3>6, <3>7, Zenon DEF MeetInv
    <2>5. TypeInv'
      BY <1>1, <1>4, <2>1, <2>2, Zenon DEF IInv, TypeInv, mains
    <2> QED
      BY <1>1, <1>4, <2>1, <2>2, <2>3, <2>4, <2>5, Zenon DEF Kept, ThreadInv
  <1> QED
    BY <1>3, <1>4, Zenon DEF EnterLast

\* Steps that leave the barrier and the threads alone.
LEMMA IdleStep ==
  ASSUME IInv, NEW p \in Ids,
         mains' = mains, pc' = pc, barrier' = barrier, spurious' = spurious
  PROVE  Kept(p)
  <1>1. /\ main' = main /\ created' = created /\ round' = round /\ mtx' = mtx
        /\ counter' = counter /\ stamp' = stamp
    BY Zenon DEF mains, barrier
  <1>2. (ThreadInv(p) => ThreadInv(p)') /\ (MeetInv(p) => MeetInv(p)')
    BY <1>1, OtherChiplets, Zenon
  <1> QED
    BY <1>1, <1>2, Zenon DEF Kept, IInv, TypeInv

\* The last worker polls for the signal and releases the others on it.
LEMMA PollStep ==
  ASSUME IInv, NEW p \in Ids, NEW t \in Workers, Poll(p, t)
  PROVE  Kept(p)
  <1>1. /\ pc[p][t] = "poll" /\ mains' = mains /\ round' = round /\ spurious' = spurious
        /\ Release(p, t) \/ (pc' = pc /\ stamp' = stamp /\ counter' = counter /\ mtx' = mtx)
    BY Zenon DEF Poll
  <1>2. mtx[p] = t
    BY <1>1, Zenon DEF IInv, ThreadInv, MutexInv
  <1>3. CASE Release(p, t)
    <2>1. p \notin spurious => \A u \in Workers \ {t} : pc[p][u] = "wait"
      BY <1>1, Zenon DEF IInv, MeetInv, LastInv
    <2> QED
      BY <1>1, <1>2, <1>3, <2>1, ReleaseKeeps, Zenon
  <1>4. CASE pc' = pc /\ stamp' = stamp /\ counter' = counter /\ mtx' = mtx
    BY <1>1, <1>4, IdleStep, Zenon DEF barrier
  <1> QED
    BY <1>1, <1>3, <1>4, Zenon

\* A wait that returns unsignalled takes its chiplet out of the claim.
LEMMA SpuriousStep ==
  ASSUME IInv, NEW p \in Ids, NEW t \in Workers, SpuriousWakeup(p, t)
  PROVE  Kept(p)
  <1>1. /\ pc[p][t] = "wait" /\ mains' = mains /\ round' = round /\ mtx' = mtx
        /\ counter' = counter /\ stamp' = stamp /\ spurious' = spurious \cup {p}
        /\ pc' = [pc EXCEPT ![p][t] = "woken"]
    BY Zenon DEF SpuriousWakeup, barrier
  <1>2. /\ pc' \in [Ids -> [Workers -> Locations]]
        /\ \A u \in Workers : pc'[p][u] = IF u = t THEN "woken" ELSE pc[p][u]
        /\ CreateInv(p)'
        /\ \A q \in Ids \ {p} : main'[q] = main[q] /\ created'[q] = created[q] /\ pc'[q] = pc[q]
    <2>1. "woken" \in Locations /\ pc[p][t] # "new"
      BY <1>1, Zenon DEF Locations
    <2> QED
      BY <1>1, <2>1, WorkerFrame, Zenon
  <1>3. MutexInv(p)' /\ RoundInv(p)'
    BY <1>1, <1>2 DEF IInv, ThreadInv, MutexInv, RoundInv, Working
  <1>4. TypeInv'
    BY <1>1, <1>2, Zenon DEF IInv, TypeInv, mains
  <1> QED
    BY <1>1, <1>2, <1>3, <1>4, Zenon DEF Kept, ThreadInv

\* Initially nobody is inside and nobody has left.
LEMMA InitIInv ==
  ASSUME Init
  PROVE  IInv
  <1>1. TypeInv
    BY BenchAssumption DEF Init, TypeInv, Locations
  <1>2. \A p \in Ids : ThreadInv(p)
    BY WorkersFinite, BenchAssumption
    DEF Init, ThreadInv, CreateInv, MutexInv, RoundInv, Working, Workers
  <1>3. ASSUME NEW p \in Ids
        PROVE  MeetInv(p)
    <2>1. \A t \in Workers, k \in {1, 2} : ~Gone(p, t, k)
      BY DEF Init, Gone, Past, Working
    <2>2. Inside(p) = {}
      BY Zenon DEF Init, Inside
    <2>3. CountInv(p)
      BY <2>2, FS_EmptySet, BenchAssumption DEF Init, CountInv
    <2> QED
      BY <2>1, <2>3, Zenon DEF MeetInv, LastInv, GoneInv, StampInv, Init
  <1> QED
    BY <1>1, <1>2, <1>3, Zenon DEF IInv

\* Every step keeps the inductive invariant.
LEMMA NextIInv ==
  ASSUME IInv, [Next]_vars
  PROVE  IInv'
  <1>1. ASSUME NEW p \in Ids, Kept(p)
        PROVE  IInv'
    <2>1. \A q \in Ids \ {p} : ThreadInv(q)' /\ (q \notin spurious' => MeetInv(q)')
      BY <1>1, OtherChiplets, Zenon DEF Kept, IInv
    <2> QED
      BY <1>1, <2>1, Zenon DEF Kept, IInv
  <1>2. CASE Signal \/ UNCHANGED vars
    <2>1. mains' = mains /\ pc' = pc /\ barrier' = barrier /\ spurious' = spurious
      BY <1>2, Zenon DEF Signal, vars, mains, barrier
    <2>2. CASE Ids = {}
      BY <2>1, <2>2, Zenon DEF IInv, TypeInv, mains, barrier
    <2>3. ASSUME NEW p \in Ids
          PROVE  IInv'
      BY <1>1, <2>1, IdleStep, Zenon
    <2> QED
      BY <2>2, <2>3, Zenon
  <1>3. ASSUME NEW p \in Ids, Main(p)
        PROVE  IInv'
    BY <1>1, <1>3, MainStep, LaunchStep, Zenon DEF Main
  <1>4. ASSUME NEW p \in Ids, NEW t \in Workers, Worker(p, t)
        PROVE  IInv'
    <2>1. CASE WriteOne(p, t)
      BY <1>1, <2>1, IdleStep, Zenon DEF WriteOne
    <2> QED
      BY <1>1, <1>4, <2>1, PlainStep, WriteStep, EnterLastStep, EnterWaitStep, PollStep, Zenon DEF Worker
  <1>5. ASSUME NEW p \in Ids, NEW t \in Workers, SpuriousWakeup(p, t)
        PROVE  IInv'
    BY <1>1, <1>5, SpuriousStep, Zenon
  <1> QED
    BY <1>2, <1>3, <1>4, <1>5, Zenon DEF Next

\* The mutex, the counter and the two perf_cycles of every chiplet are as
\* IInv says in every state.
THEOREM Invariance == Spec => []IInv
  BY InitIInv, NextIInv, PTL DEF Spec

\* perf_cycle is a barrier, both times, for any number of workers: no worker
\* continues before every worker has arrived.
THEOREM PerfCycleIsABarrier == Spec => []Barrier
  <1>1. IInv => Barrier
    <2> SUFFICES ASSUME IInv, NEW p \in Ids \ spurious, NEW k \in {1, 2},
                        NEW t \in Workers, NEW u \in Workers, Past(p, t, k)
                 PROVE  Arrived(p, u, k)
      BY Zenon DEF Barrier, Met
    <2>1. Gone(p, u, k)
      BY Zenon DEF IInv, MeetInv, GoneInv, Gone
    <2> QED
      BY <2>1, Zenon DEF Gone, Arrived
  <1> QED
    BY <1>1, Invariance, PTL

\* The two times of ftime enclose the work, and only the work, of all workers.
THEOREM TimesEncloseWork == Spec => []WorkIsTimed
  <1>1. IInv => WorkIsTimed
    <2> SUFFICES ASSUME IInv, NEW p \in Ids \ spurious, NEW t \in Workers,
                        pc[p][t] \in Working
                 PROVE  stamp[p] = {1}
      BY Zenon DEF WorkIsTimed
    <2>1. Gone(p, t, 1) /\ ~Gone(p, t, 2)
      BY DEF Gone, Past, Working, IInv, ThreadInv, RoundInv
    <2>2. \A u \in Workers : ~Gone(p, u, 2)
      BY <2>1, Zenon DEF IInv, MeetInv, GoneInv
    <2>3. 1 \in stamp[p] /\ 2 \notin stamp[p]
      BY <2>1, <2>2, Zenon DEF IInv, MeetInv, StampInv
    <2> QED
      BY <2>3, Zenon DEF IInv, TypeInv
  <1> QED
    BY <1>1, Invariance, PTL

----------------------------------------------------------------------------
(* The slices of the product *)

\* The quotient of a product brackets it.
LEMMA Quotient ==
  ASSUME NEW a \in Nat, NEW m \in Nat \ {0}
  PROVE  /\ a \div m \in Nat
         /\ m * (a \div m) <= a
         /\ a < m * ((a \div m) + 1)
<1>1. /\ a = (a \div m) * m + (a % m)
      /\ a % m \in 0 .. m - 1
      /\ a \div m \in Int
  BY Division
<1>2. PICK d \in Int : d = a \div m
  BY <1>1, Zenon
<1>3. PICK r \in 0 .. m - 1 : r = a % m
  BY <1>1, Zenon
<1>4. a = d * m + r
  BY <1>1, <1>2, <1>3, Zenon
<1>5. d >= 0
  <2>1. -d >= 1 => (-d) * m >= m
    BY Multiple
  <2> QED
    BY <1>4, <2>1
<1> QED
  BY <1>2, <1>4, <1>5

\* A smaller multiple of a positive number is a multiple of a smaller one.
LEMMA Cancel ==
  ASSUME NEW m \in Nat \ {0}, NEW a \in Int, NEW b \in Int, m * a < m * b
  PROVE  a < b
<1>1. a - b >= 1 => (a - b) * m >= m
  BY Multiple
<1> QED
  BY <1>1

\* Slices of two workers do not overlap, and stay in the matrix.
LEMMA SliceBounds ==
  ASSUME NEW p \in Ids, NEW t \in Workers
  PROVE  /\ Length \in Nat
         /\ Offset(p, t) \in Nat
         /\ Offset(p, t) + Length <= N * N
         /\ \A u \in Workers : t < u => Offset(p, t) + Length <= Offset(p, u)
<1>1. /\ thread_num \in Nat \ {0} /\ N \in Nat \ {0} /\ p \in {0, 1}
      /\ t \in Nat /\ t < thread_num
  BY BenchAssumption DEF Workers
<1>2. PICK M \in Nat : M = N * N
  BY <1>1
<1>3. \A u \in Nat : u * N * N = u * M /\ u * M \in Nat
  BY <1>1, <1>2
<1>4. PICK y \in Nat : y = (N * N) \div thread_num /\ thread_num * y <= M
  BY <1>1, <1>2, Quotient, Zenon
<1>5. Length = y \div 2
  BY <1>4, Zenon DEF Length
<1>6. PICK x \in Nat : x = (t * N * N) \div thread_num /\ thread_num * x <= t * M
  BY <1>1, <1>3, Quotient, Zenon
<1>7. Offset(p, t) = (x \div 2) + ((p * N * N) \div 2)
  BY <1>6, Zenon DEF Offset
<1>8. (t + 1) * M = t * M + M
  BY <1>1, <1>2
<1>9. ASSUME NEW u \in Nat, t < u
      PROVE  (t + 1) * M <= u * M
  BY <1>1, <1>2, <1>9
<1>10. thread_num * (x + y) <= (t + 1) * M
  <2>1. thread_num * (x + y) = thread_num * x + thread_num * y
    BY <1>1, <1>4, <1>6
  <2> QED
    BY <1>1, <1>3, <1>4, <1>6, <1>8, <2>1
<1>11. x + y <= M
  <2>1. (t + 1) * M <= thread_num * M
    BY <1>1, <1>9, Zenon
  <2>2. thread_num * (x + y) < thread_num * (M + 1)
    BY <1>1, <1>2, <1>10, <2>1
  <2> QED
    BY <1>1, <1>2, <1>4, <1>6, <2>2, Cancel
<1>12. /\ x \div 2 \in Nat /\ y \div 2 \in Nat
       /\ (x \div 2) + (y \div 2) <= M \div 2
       /\ (M \div 2) + (M \div 2) <= M
  BY <1>2, <1>4, <1>6, <1>11
<1>13. (p * N * N) \div 2 \in Nat /\ (p * N * N) \div 2 <= M \div 2
  BY <1>1, <1>2, <1>3
<1>14. ASSUME NEW u \in Workers, t < u
       PROVE  Offset(p, t) + Length <= Offset(p, u)
  <2>1. u \in Nat
    BY <1>1 DEF Workers
  <2>2. PICK z \in Nat : z = (u * N * N) \div thread_num /\ u * M < thread_num * (z + 1)
    BY <1>1, <1>3, <2>1, Quotient, Zenon
  <2>3. Offset(p, u) = (z \div 2) + ((p * N * N) \div 2)
    BY <2>2, Zenon DEF Offset
  <2>4. thread_num * (x + y) < thread_num * (z + 1)
    BY <1>1, <1>3, <1>9, <1>10, <1>14, <2>1, <2>2
  <2>5. x + y < z + 1
    BY <1>1, <1>4, <1>6, <2>2, <2>4, Cancel
  <2>6. (x \div 2) + (y \div 2) <= z \div 2
    BY <1>4, <1>6, <2>2, <2>5
  <2> QED
    BY <1>5, <1>7, <1>12, <1>13, <2>2, <2>3, <2>6
<1> QED
  BY <1>2, <1>5, <1>7, <1>12, <1>13, <1>14

\* N * N divides into 2 * thread_num slices, as for N = 300 and 4 workers.
EvenSplit == (N * N) % (2 * thread_num) = 0

\* The slices of the workers of a chiplet then make up its half.
LEMMA SlicesTile ==
  ASSUME EvenSplit, NEW p \in Ids, NEW c \in Cells
  PROVE  c \in Half(p) <=> \E t \in Workers : c \in Slice(p, t)
<1>1. /\ thread_num \in Nat \ {0} /\ N \in Nat \ {0} /\ p \in {0, 1}
      /\ N * N \in Nat \ {0} /\ c \in Nat
  BY BenchAssumption DEF Cells
<1>2. PICK L \in Nat \ {0} : N * N = L * (2 * thread_num)
  <2>1. PICK D \in Nat \ {0} : D = 2 * thread_num
    BY <1>1
  <2>2. PICK M \in Nat \ {0} : M = N * N
    BY <1>1, Zenon
  <2>3. M = (M \div D) * D + (M % D) /\ M \div D \in Int
    BY Division
  <2>4. PICK d \in Int : M = d * D
    BY <2>1, <2>2, <2>3 DEF EvenSplit
  <2>5. d >= 1
    BY <2>4
  <2> QED
    BY <2>1, <2>2, <2>4, <2>5
<1>3. PICK K \in Nat : K = L * thread_num /\ N * N = 2 * K
  BY <1>1, <1>2
<1>4. /\ (p * N * N) \div 2 = p * K
      /\ ((p + 1) * N * N) \div 2 = p * K + K
  <2>1. p * N * N = 2 * (p * K) /\ (p + 1) * N * N = 2 * (p * K + K)
    BY <1>1, <1>3
  <2> QED
    BY <1>1, <1>3, <2>1
<1>5. Length = L
  <2>1. N * N = (2 * L) * thread_num + 0
    BY <1>1, <1>2
  <2>2. ((2 * L) * thread_num + 0) \div thread_num = 2 * L
    <3>1. 2 * L \in Int /\ 0 \in 0 .. thread_num - 1
      BY <1>1, <1>2
    <3> QED
      BY <1>1, <3>1, DivisionUnique, Zenon
  <2> QED
    BY <1>2, <2>1, <2>2 DEF Length
<1>6. ASSUME NEW t \in Workers
      PROVE  Offset(p, t) = t * L + p * K /\ t \in Nat /\ t < thread_num
  <2>1. t \in Nat /\ t < thread_num
    BY <1>1 DEF Workers
  <2>2. t * N * N = (2 * (t * L)) * thread_num + 0
    BY <1>1, <1>2, <2>1
  <2>3. (t * N * N) \div thread_num = 2 * (t * L)
    <3>1. 2 * (t * L) \in Int /\ 0 \in 0 .. thread_num - 1
      BY <1>1, <1>2, <2>1
    <3>2. ((2 * (t * L)) * thread_num + 0) \div thread_num = 2 * (t * L)
      BY <1>1, <3>1, DivisionUnique, Zenon
    <3> QED
      BY <2>2, <3>2, Zenon
  <2>4. ((t * N * N) \div thread_num) \div 2 = t * L
    BY <1>2, <2>1, <2>3
  <2> QED
    BY <1>4, <2>1, <2>4, Zenon DEF Offset
<1>7. c \in Half(p) <=> p * K <= c /\ c < p * K + K
  BY <1>4, Zenon DEF Half
<1>8. ASSUME NEW t \in Workers
      PROVE  c \in Slice(p, t) <=> t * L + p * K <= c /\ c < t * L + p * K + L
  <2>1. PICK o \in Nat : o = t * L + p * K
    BY <1>1, <1>2, <1>3, <1>6
  <2>2. c \in Slice(p, t) <=> \E k \in 0 .. L - 1 : c = o + k
    BY <1>5, <1>6, <2>1, Zenon DEF Slice
  <2>3. o <= c /\ c < o + L => c - o \in 0 .. L - 1 /\ c = o + (c - o)
    BY <1>1, <1>2, <2>1
  <2>4. (\E k \in 0 .. L - 1 : c = o + k) => o <= c /\ c < o + L
    BY <1>1, <1>2, <2>1
  <2> QED
    BY <2>1, <2>2, <2>3, <2>4, Zenon
<1>9. ASSUME NEW t \in Workers, c \in Slice(p, t)
      PROVE  c \in Half(p)
  <2>1. t * L + L <= K
    <3>1. (t + 1) * L = t * L + L /\ (t + 1) * L <= thread_num * L
      BY <1>1, <1>2, <1>6
    <3> QED
      BY <1>1, <1>2, <1>3, <1>6, <3>1
  <2>2. t * L \in Nat /\ p * K \in Nat
    BY <1>1, <1>2, <1>3, <1>6
  <2> QED
    BY <1>1, <1>2, <1>3, <1>7, <1>8, <1>9, <2>1, <2>2
<1>10. ASSUME c \in Half(p)
       PROVE  \E t \in Workers : c \in Slice(p, t)
  <2>1. PICK b \in Nat : b = c - p * K /\ b < K
    BY <1>1, <1>3, <1>7, <1>10
  <2>2. PICK t \in Nat : t = b \div L
    BY <1>2, <2>1, Quotient, Zenon
  <2>3. L * t <= b /\ b < L * (t + 1)
    BY <1>2, <2>1, <2>2, Quotient, Zenon
  <2>4. L * t < L * thread_num
    BY <1>1, <1>2, <1>3, <2>1, <2>2, <2>3
  <2>5. t \in Workers
    BY <1>1, <1>2, <2>2, <2>4, Cancel DEF Workers
  <2>6. L * t = t * L /\ L * (t + 1) = t * L + L /\ t * L \in Nat /\ p * K \in Nat
    BY <1>1, <1>2, <1>3, <2>2
  <2>7. t * L + p * K <= c /\ c < t * L + p * K + L
    BY <1>1, <1>2, <2>1, <2>3, <2>6
  <2> QED
    BY <1>8, <2>5, <2>7, Zenon
<1> QED
  BY <1>9, <1>10, Zenon

----------------------------------------------------------------------------
(* The work *)

\* Worker t of p has added its slice to matrix3.
Computed(p, t) == pc[p][t] \in {"toWrite", "writing"} \/ round[p][t] = 2

\* Each cell has been added to once by the worker in whose slice it lies, and
\* a chiplet is done when its workers are.
WorkInv ==
  /\ matrix3 \in [Ids -> [Cells -> Int]]
  /\ sent \in [Ids -> 0 .. Length]
  /\ \A p \in Ids, c \in Cells :
       matrix3[p][c] = IF \E t \in Workers : Computed(p, t) /\ c \in Slice(p, t)
                       THEN 2 * N ELSE 0
  /\ \A p \in Ids : main[p] = "done" => \A t \in Workers : pc[p][t] = "exit"

----------------------------------------------------------------------------
(* The signals and the reports *)

Scale == Name(theChipletScale)

\* Every position is the boundary of a line.
FileInv ==
  /\ files \in [FileNames -> Seq(Lines)]
  /\ \A x \in FileNames :
       FileOK(files[x]) /\ \A i \in DOMAIN files[x] : IsInt(files[x][i].data)
  /\ pos \in [Ids -> Nat]
  /\ \A p \in Ids : AtBoundary(files[Scale], pos[p])

\* The start signals chiplet p has read.
Taken(p) == {i \in SignalLines : files[Scale][i].end <= pos[p]}

\* Chiplet p has read a signal to launch its workers and, except for chiplet
\* 0, one more for each time it has taken.
SignalInv ==
  \A p \in Ids :
    IF main[p] \in {"init", "poll"} THEN stamp[p] = {}
    ELSE /\ Cardinality(Taken(p)) >= 1
         /\ p # 0 => Cardinality(Taken(p)) >= 1 + Cardinality(stamp[p])

DInv == IInv /\ WorkInv /\ FileInv /\ SignalInv

----------------------------------------------------------------------------
(* Steps and the work *)

\* A step that leaves matrix3 and who has computed alone.
LEMMA WorkFrame ==
  ASSUME WorkInv, matrix3' = matrix3, sent' \in [Ids -> 0 .. Length],
         \A q \in Ids, u \in Workers : Computed(q, u)' <=> Computed(q, u),
         \A q \in Ids : main'[q] = "done" => \A u \in Workers : pc'[q][u] = "exit"
  PROVE  WorkInv'
<1>1. \A q \in Ids, c \in Cells :
        (\E t \in Workers : Computed(q, t)' /\ c \in Slice(q, t))
        <=> (\E t \in Workers : Computed(q, t) /\ c \in Slice(q, t))
  BY Zenon
<1>2. \A q \in Ids, c \in Cells :
        matrix3'[q][c] = IF \E t \in Workers : Computed(q, t)' /\ c \in Slice(q, t)
                         THEN 2 * N ELSE 0
  BY <1>1, Zenon DEF WorkInv
<1> QED
  BY <1>2, Zenon DEF WorkInv

\* A worker that moves without computing.
LEMMA WorkerMove ==
  ASSUME IInv, WorkInv, NEW p \in Ids, NEW t \in Workers, NEW x \in Locations,
         pc' = [pc EXCEPT ![p][t] = x], pc[p][t] # "exit", main' = main,
         matrix3' = matrix3, sent' \in [Ids -> 0 .. Length],
         \A q \in Ids, u \in Workers : ~(q = p /\ u = t) => round'[q][u] = round[q][u],
         Computed(p, t)' <=> Computed(p, t)
  PROVE  WorkInv'
<1>1. \A q \in Ids, u \in Workers : ~(q = p /\ u = t) => pc'[q][u] = pc[q][u]
  BY Zenon DEF IInv, TypeInv
<1>2. \A q \in Ids, u \in Workers : Computed(q, u)' <=> Computed(q, u)
  BY <1>1 DEF Computed
<1>3. \A q \in Ids : main'[q] = "done" => \A u \in Workers : pc'[q][u] = "exit"
  BY <1>1 DEF WorkInv
<1> QED
  BY <1>2, <1>3, WorkFrame, Zenon

\* The broadcast computes nothing.
LEMMA ReleaseWork ==
  ASSUME IInv, WorkInv, NEW p \in Ids, NEW t \in Workers, Release(p, t),
         pc[p][t] \in {"enter", "poll"}, main' = main, round' = round,
         matrix3' = matrix3, sent' = sent
  PROVE  WorkInv'
<1>1. pc' = [pc EXCEPT ![p] = Released(p, t)]
  BY Zenon DEF Release
<1>2. \A q \in Ids \ {p} : pc'[q] = pc[q]
  BY <1>1, Zenon DEF IInv, TypeInv
<1>3. pc'[p] = Released(p, t)
  BY <1>1, Zenon DEF IInv, TypeInv
<1>4. \A u \in Workers :
        pc'[p][u] = IF u = t THEN After(round[p][t])
                    ELSE IF pc[p][u] = "wait" THEN "woken" ELSE pc[p][u]
  BY <1>3, Zenon DEF Released
<1>5. \A u \in Workers : Computed(p, u)' <=> Computed(p, u)
  BY <1>4, Zenon DEF Computed, After
<1>6. \A q \in Ids, u \in Workers : Computed(q, u)' <=> Computed(q, u)
  BY <1>2, <1>5, Zenon DEF Computed
<1>7. main[p] # "done"
  BY Zenon DEF WorkInv
<1>8. \A q \in Ids : main'[q] = "done" => \A u \in Workers : pc'[q][u] = "exit"
  BY <1>2, <1>7, Zenon DEF WorkInv
<1>9. sent' \in [Ids -> 0 .. Length]
  BY Zenon DEF WorkInv
<1> QED
  BY <1>6, <1>8, <1>9, WorkFrame, Zenon

\* caculate adds to the cells of the worker's slice, which nobody else has.
LEMMA CaculateWork ==
  ASSUME IInv, WorkInv, NEW p \in Ids, NEW t \in Workers, caculate(p, t)
  PROVE  WorkInv'
<1>1. /\ pc[p][t] = "caculate" /\ round' = round /\ main' = main /\ sent' = sent
      /\ pc' = [pc EXCEPT ![p][t] = "toWrite"]
  BY Zenon DEF caculate, barrier, mains
<1>2. /\ \A q \in Ids, u \in Workers : ~(q = p /\ u = t) => pc'[q][u] = pc[q][u]
      /\ pc'[p][t] = "toWrite"
  BY <1>1, Zenon DEF IInv, TypeInv
<1>3. ~Computed(p, t) /\ Computed(p, t)'
  BY <1>1, <1>2 DEF Computed, IInv, ThreadInv, RoundInv, Working
<1>4. \A q \in Ids, u \in Workers : ~(q = p /\ u = t) => (Computed(q, u)' <=> Computed(q, u))
  BY <1>1, <1>2, Zenon DEF Computed
<1>5. /\ \A q \in Ids \ {p} : matrix3'[q] = matrix3[q]
      /\ matrix3'[p] = [c \in Cells |-> IF c \in Slice(p, t) THEN matrix3[p][c] + 2 * N
                                        ELSE matrix3[p][c]]
  BY Zenon DEF caculate, WorkInv
<1>6. \A c \in Cells : matrix3'[p][c] = IF c \in Slice(p, t) THEN matrix3[p][c] + 2 * N
                                        ELSE matrix3[p][c]
  BY <1>5, Zenon
<1>7. matrix3' \in [Ids -> [Cells -> Int]]
  <2>1. N \in Int
    BY BenchAssumption
  <2>2. \A c \in Cells : matrix3[p][c] \in Int
    BY Zenon DEF WorkInv
  <2>3. matrix3'[p] \in [Cells -> Int]
    BY <1>5, <2>1, <2>2
  <2>4. matrix3' = [matrix3 EXCEPT ![p] = matrix3'[p]]
    BY <1>5, Zenon DEF caculate, WorkInv
  <2> QED
    BY <2>3, <2>4, Zenon DEF WorkInv
<1>8. \A c \in Cells, u \in Workers : c \in Slice(p, t) /\ c \in Slice(p, u) => u = t
  <2> SUFFICES ASSUME NEW c \in Cells, NEW u \in Workers, c \in Slice(p, t), c \in Slice(p, u),
                      u # t
               PROVE  FALSE
    BY Zenon
  <2>1. PICK j \in 0 .. Length - 1 : c = Offset(p, t) + j
    BY Zenon DEF Slice
  <2>2. PICK k \in 0 .. Length - 1 : c = Offset(p, u) + k
    BY Zenon DEF Slice
  <2>3. t \in Nat /\ u \in Nat
    BY WorkersFinite, Zenon
  <2>4. /\ Length \in Nat /\ Offset(p, t) \in Nat /\ Offset(p, u) \in Nat
        /\ t < u => Offset(p, t) + Length <= Offset(p, u)
        /\ u < t => Offset(p, u) + Length <= Offset(p, t)
    BY SliceBounds, Zenon
  <2> QED
    BY <2>1, <2>2, <2>3, <2>4
<1>9. ASSUME NEW q \in Ids, NEW c \in Cells
      PROVE  matrix3'[q][c] = IF \E u \in Workers : Computed(q, u)' /\ c \in Slice(q, u)
                              THEN 2 * N ELSE 0
  <2>1. matrix3[q][c] = IF \E u \in Workers : Computed(q, u) /\ c \in Slice(q, u)
                        THEN 2 * N ELSE 0
    BY Zenon DEF WorkInv
  <2>2. CASE q # p
    BY <1>4, <1>5, <2>1, <2>2, Zenon
  <2>3. CASE q = p /\ c \in Slice(p, t)
    <3>1. matrix3[p][c] = 0
      BY <1>3, <1>8, <2>1, <2>3, Zenon
    <3>2. matrix3'[p][c] = 2 * N
      BY <1>6, <2>3, <3>1, BenchAssumption
    <3> QED
      BY <1>3, <2>3, <3>2, Zenon
  <2>4. CASE q = p /\ c \notin Slice(p, t)
    BY <1>3, <1>4, <1>6, <2>1, <2>4, Zenon
  <2> QED
    BY <2>2, <2>3, <2>4, Zenon
<1>10. \A q \in Ids : main'[q] = "done" => \A u \in Workers : pc'[q][u] = "exit"
  BY <1>1, <1>2 DEF WorkInv
<1> QED
  BY <1>1, <1>7, <1>9, <1>10, Zenon DEF WorkInv

\* A step of a worker keeps WorkInv.
LEMMA WorkerWork ==
  ASSUME IInv, WorkInv, NEW p \in Ids, NEW t \in Workers,
         Worker(p, t) \/ SpuriousWakeup(p, t)
  PROVE  WorkInv'
<1>0. /\ sent \in [Ids -> 0 .. Length] /\ Length \in Nat
      /\ \A u \in Workers : round[p][u] \in {1, 2}
  BY SliceBounds DEF WorkInv, IInv, TypeInv
<1>1. CASE SetAffinity(p, t)
  <2>1. /\ pc[p][t] = "affinity" /\ pc' = [pc EXCEPT ![p][t] = "enter"] /\ "enter" \in Locations
        /\ main' = main /\ round' = round /\ matrix3' = matrix3 /\ sent' = sent
    BY <1>1, Zenon DEF SetAffinity, barrier, results, mains, Locations
  <2>2. pc'[p][t] = "enter"
    BY <2>1, Zenon DEF IInv, TypeInv
  <2> QED
    BY <1>0, <2>1, <2>2, WorkerMove, Zenon DEF Computed
<1>2. CASE Resume(p, t)
  <2> DEFINE x == After(round[p][t])
  <2>1. /\ pc[p][t] = "woken" /\ pc' = [pc EXCEPT ![p][t] = x]
        /\ main' = main /\ round' = round /\ matrix3' = matrix3 /\ sent' = sent
    BY <1>2, Zenon DEF Resume, barrier, results, mains
  <2>2. x \in Locations /\ x \notin {"toWrite", "writing"}
    BY Zenon DEF After, Locations
  <2> HIDE DEF x
  <2>3. PICK y \in Locations : y = x
    BY <2>2, Zenon
  <2>4. pc'[p][t] = y /\ pc' = [pc EXCEPT ![p][t] = y]
    BY <2>1, <2>3, Zenon DEF IInv, TypeInv
  <2>5. Computed(p, t)' <=> Computed(p, t)
    BY <2>1, <2>2, <2>3, <2>4, Zenon DEF Computed
  <2> QED
    BY <1>0, <2>1, <2>4, <2>5, WorkerMove, Zenon
<1>3. CASE EnterWait(p, t)
  <2>1. /\ pc[p][t] = "enter" /\ pc' = [pc EXCEPT ![p][t] = "wait"] /\ "wait" \in Locations
        /\ main' = main /\ round' = round /\ matrix3' = matrix3 /\ sent' = sent
    BY <1>3, Zenon DEF EnterWait, results, mains, Locations
  <2>2. pc'[p][t] = "wait"
    BY <2>1, Zenon DEF IInv, TypeInv
  <2> QED
    BY <1>0, <2>1, <2>2, WorkerMove, Zenon DEF Computed
<1>4. CASE EnterLast(p, t)
  <2>1. /\ pc[p][t] = "enter" /\ "poll" \in Locations
        /\ main' = main /\ round' = round /\ matrix3' = matrix3 /\ sent' = sent
        /\ Release(p, t) \/ pc' = [pc EXCEPT ![p][t] = "poll"]
    BY <1>4, Zenon DEF EnterLast, results, mains, Locations
  <2>2. CASE Release(p, t)
    BY <2>1, <2>2, ReleaseWork, Zenon
  <2>3. CASE pc' = [pc EXCEPT ![p][t] = "poll"]
    <3>1. pc'[p][t] = "poll"
      BY <2>3, Zenon DEF IInv, TypeInv
    <3> QED
      BY <1>0, <2>1, <2>3, <3>1, WorkerMove, Zenon DEF Computed
  <2> QED
    BY <2>1, <2>2, <2>3, Zenon
<1>5. CASE Poll(p, t)
  <2>1. /\ pc[p][t] = "poll"
        /\ main' = main /\ round' = round /\ matrix3' = matrix3 /\ sent' = sent
        /\ Release(p, t) \/ pc' = pc
    BY <1>5, Zenon DEF Poll, results, mains
  <2>2. CASE Release(p, t)
    BY <2>1, <2>2, ReleaseWork, Zenon
  <2>3. CASE pc' = pc
    BY <1>0, <2>1, <2>3, WorkFrame, Zenon DEF Computed, WorkInv
  <2> QED
    BY <2>1, <2>2, <2>3, Zenon
<1>6. CASE caculate(p, t)
  BY <1>6, CaculateWork, Zenon
<1>7. CASE WriteLock(p, t)
  <2>1. /\ pc[p][t] = "toWrite" /\ pc' = [pc EXCEPT ![p][t] = "writing"] /\ "writing" \in Locations
        /\ main' = main /\ round' = round /\ matrix3' = matrix3
        /\ sent' = [sent EXCEPT ![p] = 0]
    BY <1>7, Zenon DEF WriteLock, mains, Locations
  <2>2. pc'[p][t] = "writing"
    BY <2>1, Zenon DEF IInv, TypeInv
  <2>3. sent' \in [Ids -> 0 .. Length]
    BY <1>0, <2>1
  <2> QED
    BY <2>1, <2>2, <2>3, WorkerMove, Zenon DEF Computed
<1>8. CASE WriteOne(p, t)
  <2>1. /\ pc' = pc /\ main' = main /\ round' = round /\ matrix3' = matrix3
        /\ sent[p] < Length /\ sent' = [sent EXCEPT ![p] = @ + 1]
    BY <1>8, Zenon DEF WriteOne, barrier, mains
  <2>2. sent' \in [Ids -> 0 .. Length]
    BY <1>0, <2>1
  <2> QED
    BY <2>1, <2>2, WorkFrame, Zenon DEF Computed, WorkInv
<1>9. CASE WriteUnlock(p, t)
  <2>1. /\ pc[p][t] = "writing" /\ pc' = [pc EXCEPT ![p][t] = "enter"] /\ "enter" \in Locations
        /\ main' = main /\ round' = [round EXCEPT ![p][t] = 2] /\ matrix3' = matrix3 /\ sent' = sent
    BY <1>9, Zenon DEF WriteUnlock, results, mains, Locations
  <2>2. /\ round'[p][t] = 2
        /\ \A q \in Ids, u \in Workers : ~(q = p /\ u = t) => round'[q][u] = round[q][u]
    BY <2>1, Zenon DEF IInv, TypeInv
  <2> QED
    BY <1>0, <2>1, <2>2, WorkerMove, Zenon DEF Computed
<1>10. CASE SpuriousWakeup(p, t)
  <2>1. /\ pc[p][t] = "wait" /\ pc' = [pc EXCEPT ![p][t] = "woken"] /\ "woken" \in Locations
        /\ main' = main /\ round' = round /\ matrix3' = matrix3 /\ sent' = sent
    BY <1>10, Zenon DEF SpuriousWakeup, barrier, results, mains, Locations
  <2>2. pc'[p][t] = "woken"
    BY <2>1, Zenon DEF IInv, TypeInv
  <2> QED
    BY <1>0, <2>1, <2>2, WorkerMove, Zenon DEF Computed
<1> QED
  BY <1>1, <1>2, <1>3, <1>4, <1>5, <1>6, <1>7, <1>8, <1>9, <1>10, Zenon DEF Worker

\* Every step of the program keeps WorkInv.
LEMMA NextWork ==
  ASSUME IInv, WorkInv, [Next]_vars
  PROVE  WorkInv'
<1>1. ASSUME NEW p \in Ids, Main(p)
      PROVE  WorkInv'
  <2>1. /\ round' = round /\ matrix3' = matrix3 /\ sent' = sent
        /\ sent' \in [Ids -> 0 .. Length]
    BY <1>1, Zenon DEF Main, MainInit, MainPoll, MainLaunch, MainJoin, barrier, results, WorkInv
  <2>2. CASE MainLaunch(p)
    <3>1. /\ created[p] \in Workers /\ pc[p][created[p]] = "new"
      BY <2>2, BenchAssumption DEF IInv, TypeInv, ThreadInv, CreateInv, MainLaunch, Workers
    <3>2. PICK t \in Workers : t = created[p]
      BY <3>1, Zenon
    <3>3. /\ pc'[p][t] = "affinity" /\ pc[p][t] = "new"
          /\ \A q \in Ids, u \in Workers : ~(q = p /\ u = t) => pc'[q][u] = pc[q][u]
      BY <2>2, <3>1, <3>2, Zenon DEF MainLaunch, IInv, TypeInv
    <3>4. \A q \in Ids, u \in Workers : Computed(q, u)' <=> Computed(q, u)
      BY <2>1, <3>3, Zenon DEF Computed
    <3>5. /\ main[p] = "launch" /\ main'[p] # "done"
          /\ \A q \in Ids \ {p} : main'[q] = main[q]
      BY <2>2, Zenon DEF MainLaunch, IInv, TypeInv
    <3>6. \A q \in Ids : main'[q] = "done" => \A u \in Workers : pc'[q][u] = "exit"
      BY <3>3, <3>5 DEF WorkInv
    <3> QED
      BY <2>1, <3>4, <3>6, WorkFrame, Zenon
  <2>3. CASE MainInit(p) \/ MainPoll(p) \/ MainJoin(p)
    <3>1. pc' = pc
      BY <2>3, Zenon DEF MainInit, MainPoll, MainJoin
    <3>2. /\ main'[p] = "done" => \A u \in Workers : pc[p][u] = "exit"
          /\ \A q \in Ids \ {p} : main'[q] = main[q]
      BY <2>3, Zenon DEF MainInit, MainPoll, MainJoin, IInv, TypeInv
    <3>3. \A q \in Ids : main'[q] = "done" => \A u \in Workers : pc'[q][u] = "exit"
      BY <3>1, <3>2, Zenon DEF WorkInv
    <3> QED
      BY <2>1, <3>1, <3>3, WorkFrame, Zenon DEF Computed
  <2> QED
    BY <1>1, <2>2, <2>3, Zenon DEF Main
<1>2. CASE Signal \/ UNCHANGED vars
  <2>1. /\ pc' = pc /\ main' = main /\ round' = round /\ matrix3' = matrix3 /\ sent' = sent
    BY <1>2, Zenon DEF Signal, vars, mains, barrier, results
  <2> QED
    BY <2>1, WorkFrame, Zenon DEF Computed, WorkInv
<1> QED
  BY <1>1, <1>2, WorkerWork, Zenon DEF Next

\* Each cell is computed at most once, whatever N and thread_num are.
LEMMA WorkInvariance == Spec => []WorkInv
<1>1. Init => WorkInv
  <2> SUFFICES ASSUME Init PROVE WorkInv
    BY Zenon
  <2>1. 0 .. Length # {} /\ 0 \in 0 .. Length
    <3>1. N * N \in Nat /\ thread_num \in Nat \ {0}
      BY BenchAssumption
    <3>2. (N * N) \div thread_num \in Nat
      BY <3>1, Quotient, Zenon
    <3> QED
      BY <3>2 DEF Length
  <2>2. \A p \in Ids, t \in Workers : ~Computed(p, t)
    BY DEF Init, Computed
  <2> QED
    BY <2>1, <2>2 DEF Init, WorkInv
<1>2. IInv /\ WorkInv /\ [Next]_vars => WorkInv'
  BY NextWork, Zenon
<1> QED
  BY <1>1, <1>2, Invariance, PTL DEF Spec

\* The workers of a finished chiplet have computed its half of the product,
\* each cell once, when the half divides evenly among them.
THEOREM HalfIsComputed == ASSUME EvenSplit PROVE Spec => []HalfComputed
<1>1. IInv /\ WorkInv => HalfComputed
  <2> SUFFICES ASSUME IInv, WorkInv, NEW p \in Ids, main[p] = "done", NEW c \in Cells
               PROVE  matrix3[p][c] = IF c \in Half(p) THEN 2 * N ELSE 0
    BY Zenon DEF HalfComputed
  <2>1. \A t \in Workers : Computed(p, t)
    BY Zenon DEF IInv, ThreadInv, RoundInv, WorkInv, Computed
  <2>2. c \in Half(p) <=> \E t \in Workers : c \in Slice(p, t)
    BY SlicesTile, Zenon
  <2> QED
    BY <2>1, <2>2, Zenon DEF WorkInv
<1> QED
  BY <1>1, Invariance, WorkInvariance, PTL

----------------------------------------------------------------------------
(* Steps and the files *)

\* The file of the start signals is one of the files.
LEMMA ScaleFile ==
  /\ Scale \in FileNames
  /\ theChipletScale \in Int /\ theChipletScale \in Numbers
  /\ ToInt(ToWord(theChipletScale)) = theChipletScale
  BY BenchAssumption, SizesAssumption, NumbersFit, Zenon DEF Scale, FileNames

\* The signals read are finitely many.
LEMMA TakenFinite ==
  ASSUME FileInv, NEW p \in Ids
  PROVE  /\ IsFiniteSet(SignalLines) /\ Cardinality(SignalLines) \in Nat
         /\ IsFiniteSet(Taken(p)) /\ Cardinality(Taken(p)) \in Nat
         /\ Cardinality(Taken(p)) <= Cardinality(SignalLines)
<1>1. files[Scale] \in Seq(Lines)
  BY ScaleFile, Zenon DEF FileInv
<1>2. DOMAIN files[Scale] = 1 .. Len(files[Scale]) /\ Len(files[Scale]) \in Nat
  BY <1>1
<1>3. IsFiniteSet(DOMAIN files[Scale])
  BY <1>2, FS_Interval
<1>4. SignalLines \in SUBSET DOMAIN files[Scale] /\ Taken(p) \in SUBSET SignalLines
  BY Zenon DEF SignalLines, Taken, Scale
<1>5. IsFiniteSet(SignalLines)
  BY <1>3, <1>4, FS_Subset, Zenon
<1> QED
  BY <1>4, <1>5, FS_Subset, FS_CardinalityType, Zenon

\* What a gadia_call with init = 0 does to the files.
LEMMA CallFiles ==
  ASSUME FileInv, NEW a \in Int, NEW n \in Numbers, NEW d \in Int,
         files' = AfterCall(files, 1, a, ToWord(n), d, 0), pos' = pos
  PROVE  /\ FileInv'
         /\ \A p \in Ids : Taken(p)' = Taken(p)
         /\ \A x \in FileNames : x # Name(n) => files'[x] = files[x]
         /\ Name(n) \in FileNames =>
              /\ Len(files'[Name(n)]) = Len(files[Name(n)]) + 1
              /\ \A i \in DOMAIN files[Name(n)] : files'[Name(n)][i] = files[Name(n)][i]
              /\ files'[Name(n)][Len(files[Name(n)]) + 1].data = ToInt(d)
              /\ DOMAIN files'[Name(n)] = DOMAIN files[Name(n)] \cup {Len(files[Name(n)]) + 1}
<1>1. ToInt(ToWord(n)) = n /\ n \in Int /\ ToInt(a) \in Int /\ ToInt(d) \in Int /\ IsInt(ToInt(d))
  BY SizesAssumption, NumbersFit, CastToInt, Zenon
<1>2. CASE Name(n) \notin FileNames
  <2>1. Name(n) = Slash
    BY <1>2, Zenon DEF FileNames
  <2>2. files' = files
    BY <1>1, <2>1, Zenon DEF AfterCall
  <2>3. FileInv'
    BY <2>2, Zenon DEF FileInv, FileOK, AtBoundary, Size, IsInt
  <2> QED
    BY <1>2, <2>2, <2>3, Zenon DEF Taken, SignalLines, Scale
<1>3. CASE Name(n) \in FileNames
  <2> DEFINE x == Name(n)
  <2>1. PICK f \in Seq(Lines) : f = files[x]
    BY <1>3, Zenon DEF FileInv
  <2>2. FileOK(f) /\ \A i \in DOMAIN f : IsInt(f[i].data)
    BY <1>3, <2>1, Zenon DEF FileInv
  <2>3. PICK l : l = LineAt(Size(f), 1, ToInt(a), n, ToInt(d))
    BY Zenon
  <2>4. /\ l \in Lines /\ l.at = Size(f) /\ l.end > Size(f) /\ l.data = ToInt(d)
    BY <1>1, <2>3, SizeIsEnd DEF LineAt, Lines
  <2>5. PICK g : g = Append(f, l)
    BY Zenon
  <2>6. g \in Seq(Lines) /\ FileOK(g)
    <3>1. PICK w \in Nat \ {0} : w = 1
      OBVIOUS
    <3>2. /\ Append(f, LineAt(Size(f), w, ToInt(a), n, ToInt(d))) \in Seq(Lines)
          /\ FileOK(Append(f, LineAt(Size(f), w, ToInt(a), n, ToInt(d))))
      BY <1>1, <2>2, AppendKeepsFileOK, Zenon
    <3> QED
      BY <2>3, <2>5, <3>1, <3>2, Zenon
  <2>7. /\ DOMAIN f = 1 .. Len(f) /\ Len(f) \in Nat
        /\ Len(g) = Len(f) + 1
        /\ DOMAIN g = 1 .. (Len(f) + 1)
        /\ \A i \in DOMAIN f : g[i] = f[i]
        /\ g[Len(f) + 1] = l
    BY <2>4, <2>5, Appended
  <2>8. x # Slash
    BY <1>3, Zenon DEF FileNames
  <2>9. files' = [files EXCEPT ![x] = g]
    BY <1>1, <2>1, <2>3, <2>5, <2>8, Zenon DEF AfterCall
  <2> HIDE DEF x
  <2>10. files'[x] = g /\ \A y \in FileNames : y # x => files'[y] = files[y]
    BY <1>3, <2>9, Zenon DEF FileInv, x
  <2>11. files' \in [FileNames -> Seq(Lines)]
    BY <2>6, <2>9, Zenon DEF FileInv
  <2>12. \A i \in DOMAIN g : IsInt(g[i].data)
    BY <1>1, <2>2, <2>4, <2>7
  <2>13. \A y \in FileNames :
           FileOK(files'[y]) /\ \A i \in DOMAIN files'[y] : IsInt(files'[y][i].data)
    BY <2>6, <2>10, <2>12, Zenon DEF FileInv
  <2>14. ASSUME NEW p \in Ids
         PROVE  /\ AtBoundary(files'[Scale], pos'[p])
                /\ Taken(p)' = Taken(p)
    <3>1. CASE x # Scale
      <4>1. files'[Scale] = files[Scale]
        BY <2>10, <3>1, ScaleFile, Zenon
      <4>2. AtBoundary(files'[Scale], pos'[p])
        BY <4>1, Zenon DEF FileInv
      <4>3. Taken(p)' = Taken(p)
        BY <4>1, Zenon DEF Taken, SignalLines, Scale
      <4> QED
        BY <4>2, <4>3, Zenon
    <3>2. CASE x = Scale
      <4>1. PICK q \in Nat : q = pos[p]
        BY Zenon DEF FileInv
      <4>2. AtBoundary(f, q)
        BY <2>1, <3>2, <4>1, Zenon DEF FileInv
      <4>3. AtBoundary(g, q) /\ ~(l.end <= q)
        BY <2>4, <2>5, <4>2, AppendKeepsBoundary, Zenon
      <4>4. Taken(p) = {i \in DOMAIN f : f[i].data = -4 /\ f[i].end <= q}
        BY <2>1, <3>2, <4>1, Zenon DEF Taken, SignalLines, Scale
      <4>5. Taken(p)' = {i \in DOMAIN g : g[i].data = -4 /\ g[i].end <= q}
        BY <2>10, <3>2, <4>1, Zenon DEF Taken, SignalLines, Scale
      <4>6. Taken(p)' = Taken(p)
        BY <2>7, <4>3, <4>4, <4>5
      <4> QED
        BY <2>10, <3>2, <4>1, <4>3, <4>6, Zenon
    <3> QED
      BY <3>1, <3>2, Zenon
  <2>15. FileInv'
    <3>1. pos' \in [Ids -> Nat]
      BY Zenon DEF FileInv
    <3> QED
      BY <2>11, <2>13, <2>14, <3>1, Zenon DEF FileInv, FileOK, AtBoundary, Size, IsInt
  <2>16. /\ Len(files'[x]) = Len(files[x]) + 1
         /\ \A i \in DOMAIN files[x] : files'[x][i] = files[x][i]
         /\ files'[x][Len(files[x]) + 1].data = ToInt(d)
         /\ DOMAIN files'[x] = DOMAIN files[x] \cup {Len(files[x]) + 1}
    BY <2>1, <2>4, <2>7, <2>10
  <2> QED
    BY <2>10, <2>14, <2>15, <2>16, Zenon DEF x
<1> QED
  BY <1>2, <1>3, Zenon

\* The results that find no line are no signal.
LEMMA NoSignal ==
  ToWord(-1) # ToWord(-4) /\ ToWord(-3) # ToWord(-4)
<1>1. IntSize \in Nat /\ 8 <= IntSize
  BY BenchAssumption, SizesAssumption, Zenon
<1>2. IsInt(-1) /\ IsInt(-3) /\ IsInt(-4)
  BY <1>1 DEF IsInt
<1>3. ToInt(ToWord(-1)) = -1 /\ ToInt(ToWord(-3)) = -3 /\ ToInt(ToWord(-4)) = -4
  BY <1>2, CastBack
<1> QED
  BY <1>3

\* A gadia_receive of a chiplet reads at most one signal more, and has read
\* one more when it returns -4.
LEMMA ReceiveFiles ==
  ASSUME FileInv, NEW p \in Ids,
         NEW r \in Results(files, pos[p], ToWord(theChipletScale)),
         files' = files, pos' = [pos EXCEPT ![p] = r.pos]
  PROVE  /\ FileInv'
         /\ \A q \in Ids \ {p} : Taken(q)' = Taken(q)
         /\ Cardinality(Taken(p)) \in Nat /\ Cardinality(Taken(p)') \in Nat
         /\ Cardinality(Taken(p)') >= Cardinality(Taken(p))
         /\ r.ret = ToWord(-4) => Cardinality(Taken(p)') >= Cardinality(Taken(p)) + 1
<1>1. PICK f \in Seq(Lines) : f = files[Scale]
  BY ScaleFile, Zenon DEF FileInv
<1>2. PICK o \in Nat : o = pos[p]
  BY Zenon DEF FileInv
<1>3. FileOK(f) /\ AtBoundary(f, o) /\ \A i \in DOMAIN f : IsInt(f[i].data)
  BY <1>1, <1>2, ScaleFile, Zenon DEF FileInv
<1>4. r \in Found(f, o, theChipletScale) \/ (r.pos = o /\ r.ret \in {ToWord(-1), ToWord(-3)})
  <2>1. CASE Scale = Slash \/ Len(f) = 0
    BY <1>1, <1>2, <2>1, ScaleFile DEF Results, Scale
  <2>2. CASE ~(Scale = Slash \/ Len(f) = 0)
    BY <1>1, <1>2, <2>2, ScaleFile DEF Results, Scale, NotFound
  <2> QED
    BY <2>1, <2>2, Zenon
<1>5. \A q \in Ids \ {p} : pos'[q] = pos[q]
  BY Zenon DEF FileInv
<1>6. pos'[p] = r.pos
  BY Zenon DEF FileInv
<1>7. \A q \in Ids \ {p} : Taken(q)' = Taken(q)
  BY <1>5, Zenon DEF Taken, SignalLines, Scale
<1>8. ASSUME r.pos \in Nat, AtBoundary(f, r.pos)
      PROVE  FileInv'
  <2>1. pos' \in [Ids -> Nat]
    BY <1>8, Zenon DEF FileInv
  <2>2. \A q \in Ids : AtBoundary(files[Scale], pos'[q])
    BY <1>1, <1>5, <1>6, <1>8, Zenon DEF FileInv
  <2> QED
    BY <2>1, <2>2, Zenon DEF FileInv, FileOK, AtBoundary, Size, IsInt
<1>9. CASE r.pos = o /\ r.ret \in {ToWord(-1), ToWord(-3)}
  <2>1. Taken(p)' = Taken(p)
    BY <1>2, <1>6, <1>9, Zenon DEF Taken, SignalLines, Scale
  <2> QED
    BY <1>3, <1>7, <1>8, <1>9, <2>1, NoSignal, TakenFinite
<1>10. CASE r \in Found(f, o, theChipletScale)
  <2>1. /\ r.line \in Addressed(f, theChipletScale)
        /\ f[r.line].end > o
        /\ r.ret = ToWord(f[r.line].data)
        /\ r.pos = f[r.line].end
    BY <1>3, <1>10, ScaleFile, FoundLine, Zenon
  <2>2. AtBoundary(f, r.pos)
    BY <1>3, <1>10, ScaleFile, FoundBoundary, Zenon
  <2>3. PICK h \in DOMAIN f : h = r.line
    BY <2>1, Zenon DEF Addressed
  <2>4. \A i \in DOMAIN f : f[i].end \in Nat
    BY LineFields
  <2>5. FileInv'
    BY <1>8, <2>1, <2>2, <2>3, <2>4, Zenon
  <2>6. Taken(p) = {i \in DOMAIN f : f[i].data = -4 /\ f[i].end <= o}
    BY <1>1, <1>2, Zenon DEF Taken, SignalLines, Scale
  <2>7. Taken(p)' = {i \in DOMAIN f : f[i].data = -4 /\ f[i].end <= f[h].end}
    BY <1>1, <1>6, <2>1, <2>3, Zenon DEF Taken, SignalLines, Scale
  <2>8. Taken(p) \subseteq Taken(p)'
    BY <2>1, <2>3, <2>4, <2>6, <2>7
  <2>9. IsFiniteSet(Taken(p)) /\ Cardinality(Taken(p)) \in Nat
    BY TakenFinite, Zenon
  <2>10. IsFiniteSet(Taken(p)')
    <3>1. DOMAIN f = 1 .. Len(f) /\ Len(f) \in Nat
      OBVIOUS
    <3>2. IsFiniteSet(DOMAIN f)
      BY <3>1, FS_Interval
    <3> QED
      BY <2>7, <3>2, FS_Subset, Zenon
  <2>11. Cardinality(Taken(p)') >= Cardinality(Taken(p)) /\ Cardinality(Taken(p)') \in Nat
    BY <2>8, <2>9, <2>10, FS_Subset, FS_CardinalityType, Zenon
  <2>12. ASSUME r.ret = ToWord(-4)
         PROVE  Cardinality(Taken(p)') >= Cardinality(Taken(p)) + 1
    <3>1. f[h].data = -4
      <4>1. IsInt(-4) /\ IsInt(f[h].data) /\ f[h].data \in Int
        BY <1>3, BenchAssumption, SizesAssumption, LineFields DEF IsInt
      <4>2. ToInt(ToWord(f[h].data)) = f[h].data /\ ToInt(ToWord(-4)) = -4
        BY <4>1, CastBack
      <4> QED
        BY <2>1, <2>3, <2>12, <4>2, Zenon
    <3>2. h \in Taken(p)' /\ h \notin Taken(p)
      BY <2>1, <2>3, <2>4, <2>6, <2>7, <3>1
    <3>3. Taken(p) \cup {h} \in SUBSET (Taken(p)')
      BY <2>8, <3>2, Zenon
    <3>4. Cardinality(Taken(p) \cup {h}) = Cardinality(Taken(p)) + 1
      BY <2>9, <3>2, FS_AddElement, Zenon
    <3>5. Cardinality(Taken(p) \cup {h}) <= Cardinality(Taken(p)')
      BY <2>10, <3>3, FS_Subset, Zenon
    <3> QED
      BY <2>9, <2>11, <3>4, <3>5, Zenon
  <2> QED
    BY <1>7, <2>5, <2>9, <2>11, <2>12, Zenon
<1> QED
  BY <1>4, <1>9, <1>10, Zenon

Starting == {"init", "poll"}

\* A chiplet with a worker that runs has been launched.
LEMMA Launched ==
  ASSUME IInv, NEW p \in Ids, NEW t \in Workers, pc[p][t] # "new"
  PROVE  main[p] \notin Starting /\ created[p] > 0
<1>1. t \in Nat /\ created[p] \in Nat /\ ~(t >= created[p])
  BY WorkersFinite, BenchAssumption DEF IInv, TypeInv, ThreadInv, CreateInv
<1> QED
  BY <1>1 DEF IInv, ThreadInv, CreateInv, Starting

\* The number of times taken.
LEMMA StampSize ==
  ASSUME NEW S \in SUBSET {1, 2}, NEW k \in {1, 2}
  PROVE  /\ Cardinality(S) \in Nat /\ Cardinality(S \cup {k}) \in Nat
         /\ Cardinality(S \cup {k}) <= Cardinality(S) + 1
         /\ 1 \in S /\ k \in S => Cardinality(S) >= k
<1>1. /\ IsFiniteSet({}) /\ Cardinality({}) = 0
      /\ IsFiniteSet({1}) /\ Cardinality({1}) = 1
      /\ IsFiniteSet({2}) /\ Cardinality({2}) = 1
  BY FS_EmptySet, FS_Singleton, Zenon
<1>2. IsFiniteSet({1} \cup {2}) /\ Cardinality({1} \cup {2}) = 2
  BY <1>1, FS_AddElement
<1>3. S = {} \/ S = {1} \/ S = {2} \/ S = {1} \cup {2}
  BY Zenon
<1>4. IsFiniteSet(S) /\ Cardinality(S) \in Nat
  <2>1. IsFiniteSet(S)
    BY <1>1, <1>2, <1>3, Zenon
  <2> QED
    BY <2>1, FS_CardinalityType, Zenon
<1>5. /\ Cardinality(S \cup {k}) \in Nat
      /\ Cardinality(S \cup {k}) <= Cardinality(S) + 1
  BY <1>4, FS_AddElement
<1>6. ASSUME 1 \in S, k \in S PROVE Cardinality(S) >= k
  <2>1. CASE k = 1
    <3>1. S = {1} \/ S = {1} \cup {2}
      BY <1>3, <1>6, Zenon
    <3> QED
      BY <1>1, <1>2, <2>1, <3>1
  <2>2. CASE k = 2
    <3>1. S = {1} \cup {2}
      BY <1>3, <1>6, <2>2, Zenon
    <3> QED
      BY <1>2, <2>2, <3>1
  <2> QED
    BY <2>1, <2>2, Zenon
<1> QED
  BY <1>4, <1>5, <1>6, Zenon

\* A step that reads no signal and takes no time but that of chiplet 0.
LEMMA SignalFrame ==
  ASSUME FileInv, SignalInv,
         \A q \in Ids : Taken(q)' = Taken(q),
         \A q \in Ids : main'[q] \in Starting <=> main[q] \in Starting,
         \A q \in Ids : stamp'[q] = stamp[q] \/ (q = 0 /\ main[q] \notin Starting)
  PROVE  SignalInv'
  BY Zenon DEF SignalInv, Starting

\* A step that leaves the files and the positions alone.
LEMMA FilesFrame ==
  ASSUME FileInv, files' = files, pos' = pos
  PROVE  FileInv' /\ \A q \in Ids : Taken(q)' = Taken(q)
<1>1. FileInv'
  BY Zenon DEF FileInv, FileOK, AtBoundary, Size, IsInt
<1> QED
  BY <1>1, Zenon DEF Taken, SignalLines, Scale

\* The value a worker sends is a finished cell of its slice.
LEMMA SentCell ==
  ASSUME IInv, WorkInv, NEW p \in Ids, NEW t \in Workers, pc[p][t] = "writing",
         sent[p] < Length
  PROVE  matrix3[p][CellToSend(p, t)] = 2 * N
<1>1. /\ Length \in Nat /\ Offset(p, t) \in Nat /\ Offset(p, t) + Length <= N * N
      /\ sent[p] \in 0 .. Length - 1 /\ N * N \in Nat
  BY SliceBounds, BenchAssumption DEF WorkInv
<1>2. PICK c \in Cells : c = CellToSend(p, t)
  BY <1>1 DEF CellToSend, Cells
<1>3. c \in Slice(p, t)
  BY <1>1, <1>2, Zenon DEF CellToSend, Slice
<1>4. Computed(p, t)
  BY Zenon DEF Computed
<1> QED
  BY <1>2, <1>3, <1>4, Zenon DEF WorkInv

\* Every step keeps the positions at line boundaries and the count of signals.
LEMMA NextSignal ==
  ASSUME IInv, WorkInv, FileInv, SignalInv, [Next]_vars
  PROVE  FileInv' /\ SignalInv'
<1>1. ASSUME \A q \in Ids : Taken(q)' = Taken(q), stamp' = stamp, main' = main
      PROVE  SignalInv'
  BY <1>1, SignalFrame, Zenon
<1>2. CASE UNCHANGED vars
  BY <1>1, <1>2, FilesFrame, Zenon DEF vars
<1>3. CASE Signal
  <2>1. /\ ToWord(0) \in Int /\ ToWord(-4) \in Int /\ theChipletScale \in Numbers
        /\ files' = AfterCall(files, 1, ToWord(0), ToWord(theChipletScale), ToWord(-4), 0)
        /\ pos' = pos /\ stamp' = stamp /\ main' = main
    BY <1>3, Casts, ScaleFile DEF Signal, barrier, mains
  <2> QED
    BY <1>1, <2>1, CallFiles, Zenon
<1>4. ASSUME NEW p \in Ids, Main(p)
      PROVE  FileInv' /\ SignalInv'
  <2>1. CASE MainInit(p)
    <3>1. /\ p \in Int /\ ToWord(p) \in Int /\ ToWord(0) \in Int /\ 1 \in Numbers
      BY Casts, BenchAssumption
    <3>2. /\ files' = AfterCall(files, 1, ToWord(p), ToWord(1), ToWord(0), 0)
          /\ pos' = pos /\ stamp' = stamp
          /\ \A q \in Ids : main'[q] \in Starting <=> main[q] \in Starting
      BY <2>1, Zenon DEF MainInit, barrier, Starting, IInv, TypeInv
    <3>3. FileInv' /\ \A q \in Ids : Taken(q)' = Taken(q)
      BY <3>1, <3>2, CallFiles, Zenon
    <3> QED
      BY <3>2, <3>3, SignalFrame, Zenon
  <2>2. CASE MainPoll(p)
    <3>1. PICK r \in Results(files, pos[p], ToWord(theChipletScale)) :
            /\ pos' = [pos EXCEPT ![p] = r.pos]
            /\ main' = IF r.ret = ToWord(-4) THEN [main EXCEPT ![p] = "launch"] ELSE main
      BY <2>2, Zenon DEF MainPoll
    <3>2. /\ main[p] = "poll" /\ files' = files /\ stamp' = stamp
          /\ \A q \in Ids \ {p} : main'[q] = main[q]
          /\ r.ret # ToWord(-4) => main'[p] = main[p]
      BY <2>2, <3>1, Zenon DEF MainPoll, barrier, IInv, TypeInv
    <3>3. /\ FileInv'
          /\ \A q \in Ids \ {p} : Taken(q)' = Taken(q)
          /\ r.ret = ToWord(-4) => Cardinality(Taken(p)') >= Cardinality(Taken(p)) + 1
      BY <3>1, <3>2, ReceiveFiles, Zenon
    <3>4. stamp[p] = {} /\ Cardinality(stamp[p]) = 0
      BY <3>2, FS_EmptySet, Zenon DEF SignalInv
    <3>5. Cardinality(Taken(p)) \in Nat /\ Cardinality(Taken(p)') \in Nat
      BY <3>1, <3>2, ReceiveFiles, Zenon
    <3>6. ASSUME NEW q \in Ids
          PROVE  IF main'[q] \in {"init", "poll"} THEN stamp'[q] = {}
                 ELSE /\ Cardinality(Taken(q)') >= 1
                      /\ q # 0 => Cardinality(Taken(q)') >= 1 + Cardinality(stamp'[q])
      <4>1. CASE q # p
        BY <3>2, <3>3, <4>1, Zenon DEF SignalInv
      <4>2. CASE q = p
        BY <3>2, <3>3, <3>4, <3>5, <4>2
      <4> QED
        BY <4>1, <4>2, Zenon
    <3> QED
      BY <3>3, <3>6, Zenon DEF SignalInv
  <2>3. CASE MainLaunch(p) \/ MainJoin(p)
    <3>1. /\ files' = files /\ pos' = pos /\ stamp' = stamp
          /\ \A q \in Ids : main'[q] \in Starting <=> main[q] \in Starting
      BY <2>3 DEF MainLaunch, MainJoin, memory, barrier, Starting, IInv, TypeInv
    <3> QED
      BY <3>1, FilesFrame, SignalFrame, Zenon
  <2> QED
    BY <1>4, <2>1, <2>2, <2>3, Zenon DEF Main
<1>5. ASSUME NEW p \in Ids, NEW t \in Workers, Worker(p, t) \/ SpuriousWakeup(p, t)
      PROVE  FileInv' /\ SignalInv'
  <2>1. CASE WriteOne(p, t)
    <3>1. /\ pc[p][t] = "writing" /\ sent[p] < Length
          /\ files' = AfterCall(files, 1, ToWord(0), ToWord(0),
                                ToWord(matrix3[p][CellToSend(p, t)]), 0)
          /\ pos' = pos /\ stamp' = stamp /\ main' = main
      BY <2>1, Zenon DEF WriteOne, barrier, mains
    <3>2. matrix3[p][CellToSend(p, t)] = 2 * N
      BY <3>1, SentCell, Zenon
    <3>3. ToWord(0) \in Int /\ ToWord(2 * N) \in Int /\ 0 \in Numbers
      BY Casts, BenchAssumption
    <3>4. files' = AfterCall(files, 1, ToWord(0), ToWord(0), ToWord(2 * N), 0)
      BY <3>1, <3>2, Zenon
    <3> QED
      BY <1>1, <3>1, <3>3, <3>4, CallFiles, Zenon
  <2>2. CASE Poll(p, t)
    <3>1. PICK r \in Results(files, pos[p], ToWord(theChipletScale)) :
            /\ pos' = [pos EXCEPT ![p] = r.pos]
            /\ IF r.ret = ToWord(-4) THEN Release(p, t)
               ELSE UNCHANGED <<pc, stamp, counter, mtx>>
      BY <2>2, Zenon DEF Poll
    <3>2. pc[p][t] = "poll" /\ files' = files /\ main' = main
      BY <2>2, Zenon DEF Poll, mains
    <3>3. /\ \A q \in Ids \ {p} : stamp'[q] = stamp[q]
          /\ r.ret # ToWord(-4) => stamp'[p] = stamp[p]
          /\ r.ret = ToWord(-4) => stamp'[p] = stamp[p] \cup {round[p][t]}
      BY <3>1, Zenon DEF Release, IInv, TypeInv
    <3>4. /\ FileInv'
          /\ \A q \in Ids \ {p} : Taken(q)' = Taken(q)
          /\ Cardinality(Taken(p)') >= Cardinality(Taken(p))
          /\ r.ret = ToWord(-4) => Cardinality(Taken(p)') >= Cardinality(Taken(p)) + 1
      BY <3>1, <3>2, ReceiveFiles, Zenon
    <3>5. main[p] \notin Starting
      BY <3>2, Launched, Zenon
    <3>6. Cardinality(Taken(p)) \in Nat /\ Cardinality(Taken(p)') \in Nat
      BY <3>1, <3>2, ReceiveFiles, Zenon
    <3>7. PICK S \in SUBSET {1, 2} : S = stamp[p]
      BY Zenon DEF IInv, TypeInv
    <3>8. /\ Cardinality(stamp[p]) \in Nat /\ Cardinality(stamp'[p]) \in Nat
          /\ Cardinality(stamp'[p]) <= Cardinality(stamp[p]) + (IF r.ret = ToWord(-4) THEN 1 ELSE 0)
      <4>1. PICK k \in {1, 2} : k = round[p][t]
        BY DEF IInv, TypeInv
      <4>2. /\ Cardinality(S) \in Nat /\ Cardinality(S \cup {k}) \in Nat
            /\ Cardinality(S \cup {k}) <= Cardinality(S) + 1
        BY StampSize, Zenon
      <4>3. CASE r.ret = ToWord(-4)
        <5>1. stamp'[p] = S \cup {k}
          BY <3>3, <3>7, <4>1, <4>3, Zenon
        <5> QED
          BY <3>7, <4>2, <4>3, <5>1, Zenon
      <4>4. CASE r.ret # ToWord(-4)
        <5>1. stamp'[p] = S
          BY <3>3, <3>7, <4>4, Zenon
        <5> QED
          BY <3>7, <4>2, <4>4, <5>1
      <4> QED
        BY <4>3, <4>4, Zenon
    <3>9. /\ Cardinality(Taken(p)) >= 1
          /\ p # 0 => Cardinality(Taken(p)) >= 1 + Cardinality(stamp[p])
      BY <3>5, Zenon DEF SignalInv, Starting
    <3>10. /\ Cardinality(Taken(p)') >= 1
           /\ p # 0 => Cardinality(Taken(p)') >= 1 + Cardinality(stamp'[p])
      BY <3>4, <3>6, <3>8, <3>9
    <3>11. ASSUME NEW q \in Ids
           PROVE  IF main'[q] \in {"init", "poll"} THEN stamp'[q] = {}
                  ELSE /\ Cardinality(Taken(q)') >= 1
                       /\ q # 0 => Cardinality(Taken(q)') >= 1 + Cardinality(stamp'[q])
      <4>1. CASE q # p
        BY <3>2, <3>3, <3>4, <4>1, Zenon DEF SignalInv
      <4>2. CASE q = p
        BY <3>2, <3>5, <3>10, <4>2, Zenon DEF Starting
      <4> QED
        BY <4>1, <4>2, Zenon
    <3> QED
      BY <3>4, <3>11, Zenon DEF SignalInv
  <2>3. CASE EnterLast(p, t)
    <3>1. /\ pc[p][t] = "enter" /\ files' = files /\ pos' = pos /\ main' = main
          /\ (p = 0 /\ Release(p, t)) \/ stamp' = stamp
      BY <2>3, Zenon DEF EnterLast, memory, mains
    <3>2. main[p] \notin Starting
      BY <3>1, Launched, Zenon
    <3>3. \A q \in Ids : stamp'[q] = stamp[q] \/ (q = 0 /\ main[q] \notin Starting)
      BY <3>1, <3>2, Zenon DEF Release, IInv, TypeInv
    <3> QED
      BY <3>1, <3>3, FilesFrame, SignalFrame, Zenon
  <2>4. CASE \/ SetAffinity(p, t) \/ EnterWait(p, t) \/ Resume(p, t) \/ caculate(p, t)
             \/ WriteLock(p, t) \/ WriteUnlock(p, t) \/ SpuriousWakeup(p, t)
    <3>1. files' = files /\ pos' = pos /\ main' = main /\ stamp' = stamp
      BY <2>4, Zenon DEF SetAffinity, EnterWait, Resume, caculate, WriteLock, WriteUnlock,
                  SpuriousWakeup, memory, mains, barrier
    <3> QED
      BY <1>1, <3>1, FilesFrame, Zenon
  <2> QED
    BY <1>5, <2>1, <2>2, <2>3, <2>4, Zenon DEF Worker
<1> QED
  BY <1>2, <1>3, <1>4, <1>5, Zenon DEF Next

\* The positions and the signals read, in every state.
LEMMA SignalInvariance == Spec => [](FileInv /\ SignalInv)
<1>1. Init => FileInv /\ SignalInv
  <2> SUFFICES ASSUME Init PROVE FileInv /\ SignalInv
    BY Zenon
  <2>1. files = [x \in FileNames |-> << >>] /\ pos = [p \in Ids |-> 0]
    BY Zenon DEF Init
  <2>2. FileInv
    BY <2>1, ScaleFile DEF FileInv, FileOK, AtBoundary, Size
  <2> QED
    BY <2>2, Zenon DEF Init, SignalInv
<1>2. IInv /\ WorkInv /\ (FileInv /\ SignalInv) /\ [Next]_vars => (FileInv /\ SignalInv)'
  BY NextSignal, Zenon
<1> QED
  BY <1>1, <1>2, Invariance, WorkInvariance, PTL DEF Spec

\* No chiplet launches its workers before a start signal, none but chiplet 0
\* passes its k-th perf_cycle before k + 1 of them: no signal is read twice.
THEOREM EachPhaseHasItsSignal == Spec => []PhasesAreSignalled
<1>1. IInv /\ FileInv /\ SignalInv => PhasesAreSignalled
  <2> SUFFICES ASSUME IInv, FileInv, SignalInv, NEW p \in Ids \ spurious
               PROVE  /\ created[p] > 0 => Cardinality(SignalLines) >= 1
                      /\ \A t \in Workers, k \in {1, 2} :
                           p # 0 /\ Past(p, t, k) => Cardinality(SignalLines) >= k + 1
    BY Zenon DEF PhasesAreSignalled
  <2>1. /\ Cardinality(SignalLines) \in Nat /\ Cardinality(Taken(p)) \in Nat
        /\ Cardinality(Taken(p)) <= Cardinality(SignalLines)
    BY TakenFinite, Zenon
  <2>2. created[p] > 0 => main[p] \notin Starting
    BY DEF IInv, ThreadInv, CreateInv, Starting
  <2>3. main[p] \notin Starting =>
          /\ Cardinality(Taken(p)) >= 1
          /\ p # 0 => Cardinality(Taken(p)) >= 1 + Cardinality(stamp[p])
    BY Zenon DEF SignalInv, Starting
  <2>4. ASSUME NEW t \in Workers, NEW k \in {1, 2}, p # 0, Past(p, t, k)
        PROVE  Cardinality(SignalLines) >= k + 1
    <3>1. pc[p][t] # "new"
      BY <2>4 DEF Past, Working, IInv, ThreadInv, RoundInv
    <3>2. main[p] \notin Starting
      BY <3>1, Launched, Zenon
    <3>3. Gone(p, t, k) /\ Gone(p, t, 1)
      BY <2>4, Zenon DEF Gone, Past, IInv, ThreadInv, RoundInv
    <3>4. k \in stamp[p] /\ 1 \in stamp[p] /\ stamp[p] \in SUBSET {1, 2}
      BY <3>3, Zenon DEF IInv, MeetInv, StampInv, TypeInv
    <3>5. PICK S \in SUBSET {1, 2} : S = stamp[p]
      BY <3>4, Zenon
    <3>6. 1 \in S /\ k \in S
      BY <3>4, <3>5, Zenon
    <3>7. Cardinality(stamp[p]) \in Nat /\ Cardinality(stamp[p]) >= k
      BY <3>5, <3>6, StampSize, Zenon
    <3> QED
      BY <2>1, <2>3, <2>4, <3>2, <3>7
  <2> QED
    BY <2>1, <2>2, <2>3, <2>4
<1> QED
  BY <1>1, Invariance, SignalInvariance, PTL

----------------------------------------------------------------------------
(* The reports *)

\* The start signals do not go to the file of the reports.
SignalsApart == Name(theChipletScale) # Name(0)

Writes(p) == \E t \in Workers : pc[p][t] = "writing"

Finished(p) == {t \in Workers : round[p][t] = 2}

\* The number of values reported is a number.
LEMMA ReportedNat ==
  ASSUME IInv, WorkInv, NEW p \in Ids
  PROVE  /\ Reported(p) \in Nat /\ Length \in Nat
         /\ IsFiniteSet(Finished(p)) /\ Cardinality(Finished(p)) \in Nat
         /\ Reported(p) = Cardinality(Finished(p)) * Length
                          + (IF Writes(p) THEN sent[p] ELSE 0)
<1>1. Length \in Nat /\ sent[p] \in Nat
  <2>1. 0 \in Workers
    BY BenchAssumption DEF Workers
  <2>2. Length \in Nat
    BY <2>1, SliceBounds, Zenon
  <2> QED
    BY <2>2 DEF WorkInv
<1>2. IsFiniteSet(Finished(p))
  BY WorkersFinite, FS_Subset, Zenon DEF Finished
<1>3. Cardinality(Finished(p)) \in Nat
  BY <1>2, FS_CardinalityType, Zenon
<1>4. PICK a \in Nat : a = Cardinality(Finished(p))
  BY <1>3, Zenon
<1>5. PICK b \in Nat : b = Length
  BY <1>1, Zenon
<1>6. a * b \in Nat
  OBVIOUS
<1>7. Reported(p) = Cardinality(Finished(p)) * Length
                    + (IF Writes(p) THEN sent[p] ELSE 0)
  BY Zenon DEF Reported, Finished, Writes
<1> QED
  BY <1>1, <1>2, <1>3, <1>4, <1>5, <1>6, <1>7

\* A step that neither reports nor begins or ends a report.
LEMMA ReportFrame ==
  ASSUME AllReported, files'[Name(0)] = files[Name(0)],
         \A q \in Ids : Reported(q)' = Reported(q)
  PROVE  AllReported'
  BY Zenon DEF AllReported

\* A chiplet none of whose workers begins, continues or ends a report.
LEMMA ReportedSame ==
  ASSUME NEW q \in Ids, round'[q] = round[q], sent'[q] = sent[q],
         \A u \in Workers : pc'[q][u] = "writing" <=> pc[q][u] = "writing"
  PROVE  Reported(q)' = Reported(q)
<1>1. Writes(q)' <=> Writes(q)
  BY Zenon DEF Writes
<1>2. Finished(q)' = Finished(q)
  BY Zenon DEF Finished
<1> QED
  BY <1>1, <1>2, Zenon DEF Reported, Writes, Finished

\* WriteOne appends the one value more that it counts.
LEMMA WriteOneReports ==
  ASSUME IInv, WorkInv, FileInv, AllReported,
         NEW p \in Ids, NEW t \in Workers, WriteOne(p, t)
  PROVE  AllReported'
<1>1. /\ pc[p][t] = "writing" /\ sent[p] < Length /\ pos' = pos
      /\ files' = AfterCall(files, 1, ToWord(0), ToWord(0),
                            ToWord(matrix3[p][CellToSend(p, t)]), 0)
      /\ round' = round /\ pc' = pc
  BY Zenon DEF WriteOne, barrier
<1>2. sent'[p] = sent[p] + 1 /\ \A q \in Ids \ {p} : sent'[q] = sent[q]
  BY Zenon DEF WriteOne, WorkInv
<1>3. files' = AfterCall(files, 1, ToWord(0), ToWord(0), ToWord(2 * N), 0)
  BY <1>1, SentCell, Zenon
<1>4. /\ ToWord(0) \in Int /\ ToWord(2 * N) \in Int /\ 0 \in Numbers
      /\ Name(0) = 48 /\ Name(0) \in FileNames
  BY Casts, BenchAssumption, SizesAssumption DEF Name, FileNames, Slash
<1>5. ToInt(ToWord(2 * N)) = 2 * N
  <2>1. 2 * N \in Int /\ IsInt(2 * N)
    BY BenchAssumption, SizesAssumption DEF IsInt
  <2> QED
    BY <2>1, CastBack, Zenon
<1>6. PICK z \in Numbers : z = 0
  BY <1>4, Zenon
<1>7. PICK w \in Int : w = ToWord(2 * N)
  BY <1>4, Zenon
<1>8. PICK a \in Int : a = ToWord(0)
  BY <1>4, Zenon
<1>9. files' = AfterCall(files, 1, a, ToWord(z), w, 0) /\ Name(z) \in FileNames
  BY <1>3, <1>4, <1>6, <1>7, <1>8, Zenon
<1>10. /\ Len(files'[Name(z)]) = Len(files[Name(z)]) + 1
       /\ \A i \in DOMAIN files[Name(z)] : files'[Name(z)][i] = files[Name(z)][i]
       /\ files'[Name(z)][Len(files[Name(z)]) + 1].data = ToInt(w)
       /\ DOMAIN files'[Name(z)] = DOMAIN files[Name(z)] \cup {Len(files[Name(z)]) + 1}
  BY <1>1, <1>9, CallFiles, Zenon
<1>11. \A i \in DOMAIN files'[Name(0)] : files'[Name(0)][i].data = 2 * N
  BY <1>5, <1>6, <1>7, <1>10, Zenon DEF AllReported
<1>12. Reported(p)' = Reported(p) + 1
  <2>1. Writes(p) /\ Writes(p)'
    BY <1>1, Zenon DEF Writes
  <2>2. Finished(p)' = Finished(p)
    BY <1>1, Zenon DEF Finished
  <2>3. PICK c : c = Cardinality(Finished(p)) * Length
    BY Zenon
  <2>4. c \in Int /\ sent[p] \in Int
    <3>1. PICK x \in Int : x = Cardinality(Finished(p))
      BY ReportedNat
    <3>2. PICK y \in Int : y = Length
      BY ReportedNat
    <3> QED
      BY <2>3, <3>1, <3>2, ReportedNat DEF WorkInv
  <2>5. Reported(p) = c + sent[p]
    BY <2>1, <2>3, Zenon DEF Reported, Writes, Finished
  <2>6. Reported(p)' = c + sent'[p]
    BY <2>1, <2>2, <2>3, Zenon DEF Reported, Writes, Finished
  <2> QED
    BY <1>2, <2>4, <2>5, <2>6
<1>13. \A q \in Ids \ {p} : Reported(q)' = Reported(q)
  BY <1>1, <1>2, ReportedSame, Zenon
<1>14. \A q \in Ids : Reported(q) \in Nat
  BY ReportedNat, Zenon
<1>15. Ids \subseteq {0, 1}
  BY BenchAssumption, Zenon
<1>16. Len(files'[Name(0)]) = (IF 0 \in Ids THEN Reported(0)' ELSE 0)
                              + (IF 1 \in Ids THEN Reported(1)' ELSE 0)
  <2>1. Len(files'[Name(0)]) = (IF 0 \in Ids THEN Reported(0) ELSE 0)
                               + (IF 1 \in Ids THEN Reported(1) ELSE 0) + 1
    BY <1>6, <1>10, Zenon DEF AllReported
  <2>2. CASE p = 0
    BY <1>12, <1>13, <1>14, <2>1, <2>2
  <2>3. CASE p = 1
    BY <1>12, <1>13, <1>14, <2>1, <2>3
  <2> QED
    BY <1>15, <2>2, <2>3, Zenon
<1> QED
  BY <1>11, <1>16, Zenon DEF AllReported

\* WriteUnlock counts the whole slice that has just been sent.
LEMMA WriteUnlockReports ==
  ASSUME IInv, WorkInv, AllReported,
         NEW p \in Ids, NEW t \in Workers, WriteUnlock(p, t)
  PROVE  AllReported'
<1>1. /\ pc[p][t] = "writing" /\ sent[p] = Length /\ files' = files /\ sent' = sent
      /\ \A q \in Ids \ {p} : pc'[q] = pc[q] /\ round'[q] = round[q]
      /\ pc'[p][t] = "enter" /\ round'[p][t] = 2
      /\ \A u \in Workers \ {t} : pc'[p][u] = pc[p][u] /\ round'[p][u] = round[p][u]
  BY Zenon DEF WriteUnlock, memory, results, IInv, TypeInv
<1>2. \A u \in Workers : pc[p][u] = "writing" => u = t
  BY <1>1 DEF IInv, ThreadInv, MutexInv
<1>3. Writes(p) /\ ~Writes(p)'
  BY <1>1, <1>2, Zenon DEF Writes
<1>4. t \notin Finished(p) /\ Finished(p)' = Finished(p) \cup {t}
  BY <1>1 DEF Finished, IInv, ThreadInv, RoundInv, Working
<1>5. PICK F : F = Finished(p) /\ IsFiniteSet(F) /\ Cardinality(F) \in Nat
  BY ReportedNat, Zenon
<1>6. Cardinality(F \cup {t}) = Cardinality(F) + 1
  BY <1>4, <1>5, FS_AddElement, Zenon
<1>7. PICK c \in Nat : c = Cardinality(F)
  BY <1>5, Zenon
<1>8. PICK l \in Nat : l = Length
  BY ReportedNat, Zenon
<1>9. Reported(p) = c * l + l
  BY <1>1, <1>3, <1>5, <1>7, <1>8, Zenon DEF Reported, Writes, Finished
<1>10. Reported(p)' = (c + 1) * l + 0
  BY <1>3, <1>4, <1>5, <1>6, <1>7, <1>8, Zenon DEF Reported, Writes, Finished
<1>11. (c + 1) * l + 0 = c * l + l
  OBVIOUS
<1>12. Reported(p)' = Reported(p)
  BY <1>9, <1>10, <1>11, Zenon
<1>13. \A q \in Ids \ {p} : Reported(q)' = Reported(q)
  BY <1>1, ReportedSame, Zenon
<1> QED
  BY <1>1, <1>12, <1>13, ReportFrame, Zenon

\* WriteLock starts a report of no values, nobody else of the chiplet writing.
LEMMA WriteLockReports ==
  ASSUME IInv, WorkInv, AllReported,
         NEW p \in Ids, NEW t \in Workers, WriteLock(p, t)
  PROVE  AllReported'
<1>1. /\ mtx[p] = Free /\ files' = files /\ sent'[p] = 0 /\ round' = round
      /\ \A q \in Ids \ {p} : pc'[q] = pc[q] /\ sent'[q] = sent[q]
      /\ pc'[p][t] = "writing"
  BY DEF WriteLock, memory, WorkInv, IInv, TypeInv
<1>2. ~Writes(p) /\ Writes(p)' /\ Finished(p)' = Finished(p)
  BY <1>1, WorkersFinite, Zenon DEF Writes, Finished, IInv, ThreadInv, MutexInv
<1>3. Reported(p)' = Reported(p)
  BY <1>1, <1>2, Zenon DEF Reported, Writes, Finished
<1>4. \A q \in Ids \ {p} : Reported(q)' = Reported(q)
  BY <1>1, ReportedSame, Zenon
<1> QED
  BY <1>1, <1>3, <1>4, ReportFrame, Zenon

\* Every step keeps the lines and the values reported together.
LEMMA NextReports ==
  ASSUME SignalsApart, IInv, WorkInv, FileInv, AllReported, [Next]_vars
  PROVE  AllReported'
<1>1. ASSUME files'[Name(0)] = files[Name(0)], round' = round, sent' = sent,
             \A q \in Ids, u \in Workers : pc'[q][u] = "writing" <=> pc[q][u] = "writing"
      PROVE  AllReported'
  BY <1>1, ReportedSame, ReportFrame, Zenon
<1>2. CASE UNCHANGED vars
  BY <1>1, <1>2, Zenon DEF vars
<1>3. Name(0) \in FileNames /\ Name(1) # Name(0)
  BY BenchAssumption, SizesAssumption DEF Name, FileNames, Slash
<1>4. CASE Signal
  <2>1. /\ ToWord(0) \in Int /\ ToWord(-4) \in Int /\ theChipletScale \in Numbers
        /\ files' = AfterCall(files, 1, ToWord(0), ToWord(theChipletScale), ToWord(-4), 0)
        /\ pos' = pos /\ round' = round /\ sent' = sent /\ pc' = pc
    BY <1>4, Casts, ScaleFile DEF Signal, barrier, results
  <2>2. files'[Name(0)] = files[Name(0)]
    BY <1>3, <2>1, CallFiles, Zenon DEF SignalsApart
  <2> QED
    BY <1>1, <2>1, <2>2, Zenon
<1>5. ASSUME NEW p \in Ids, Main(p)
      PROVE  AllReported'
  <2>1. CASE MainInit(p)
    <3>1. PICK z \in Numbers : z = 1
      BY BenchAssumption, Zenon
    <3>2. /\ ToWord(p) \in Int /\ ToWord(0) \in Int
          /\ files' = AfterCall(files, 1, ToWord(p), ToWord(z), ToWord(0), 0)
          /\ pos' = pos /\ round' = round /\ sent' = sent /\ pc' = pc
      BY <2>1, <3>1, Casts, BenchAssumption DEF MainInit, barrier, results
    <3>3. files'[Name(0)] = files[Name(0)]
      BY <1>3, <3>1, <3>2, CallFiles, Zenon
    <3> QED
      BY <1>1, <3>2, <3>3, Zenon
  <2>2. CASE MainLaunch(p)
    <3>1. /\ files' = files /\ round' = round /\ sent' = sent
          /\ main[p] = "launch" /\ pc' = [pc EXCEPT ![p][created[p]] = "affinity"]
      BY <2>2, Zenon DEF MainLaunch, memory, barrier, results
    <3>2. created[p] \in Nat /\ (created[p] \in Workers => pc[p][created[p]] = "new")
      BY <3>1 DEF IInv, TypeInv, ThreadInv, CreateInv
    <3>3. \A q \in Ids, u \in Workers : pc'[q][u] = "writing" <=> pc[q][u] = "writing"
      BY <3>1, <3>2, Zenon DEF IInv, TypeInv
    <3> QED
      BY <1>1, <3>1, <3>3, Zenon
  <2>3. CASE MainPoll(p) \/ MainJoin(p)
    <3>1. files' = files /\ round' = round /\ sent' = sent /\ pc' = pc
      BY <2>3, Zenon DEF MainPoll, MainJoin, memory, barrier, results
    <3> QED
      BY <1>1, <3>1, Zenon
  <2> QED
    BY <1>5, <2>1, <2>2, <2>3, Zenon DEF Main
<1>6. ASSUME NEW p \in Ids, NEW t \in Workers, Worker(p, t) \/ SpuriousWakeup(p, t)
      PROVE  AllReported'
  <2>1. CASE WriteOne(p, t)
    BY <2>1, WriteOneReports, Zenon
  <2>2. CASE WriteUnlock(p, t)
    BY <2>2, WriteUnlockReports, Zenon
  <2>3. CASE WriteLock(p, t)
    BY <2>3, WriteLockReports, Zenon
  <2>4. ASSUME files' = files, round' = round, sent' = sent,
               \A q \in Ids \ {p} : pc'[q] = pc[q],
               \A u \in Workers : pc'[p][u] = "writing" <=> pc[p][u] = "writing"
        PROVE  AllReported'
    <3>1. \A q \in Ids, u \in Workers : pc'[q][u] = "writing" <=> pc[q][u] = "writing"
      BY <2>4, Zenon
    <3> QED
      BY <1>1, <2>4, <3>1, Zenon
  <2>5. CASE Poll(p, t) \/ EnterLast(p, t)
    <3>1. files' = files /\ round' = round /\ sent' = sent
      BY <2>5, Zenon DEF Poll, EnterLast, memory, results
    <3>2. \/ Release(p, t) /\ pc[p][t] \in {"poll", "enter"}
          \/ pc' = [pc EXCEPT ![p][t] = "poll"] /\ pc[p][t] = "enter"
          \/ pc' = pc
      BY <2>5, Zenon DEF Poll, EnterLast
    <3>3. /\ \A q \in Ids \ {p} : pc'[q] = pc[q]
          /\ \A u \in Workers : pc'[p][u] = "writing" <=> pc[p][u] = "writing"
      <4>1. pc \in [Ids -> [Workers -> Locations]]
        BY Zenon DEF IInv, TypeInv
      <4>2. CASE Release(p, t) /\ pc[p][t] \in {"poll", "enter"}
        <5>1. pc' = [pc EXCEPT ![p] = Released(p, t)] /\ pc[p][t] # "writing"
          BY <4>2, Zenon DEF Release
        <5>2. \A q \in Ids \ {p} : pc'[q] = pc[q]
          BY <4>1, <5>1, Zenon
        <5>3. pc'[p] = Released(p, t)
          BY <4>1, <5>1, Zenon
        <5>4. \A u \in Workers : Released(p, t)[u] = "writing" <=> pc[p][u] = "writing"
          BY <5>1, Zenon DEF Released, After
        <5> QED
          BY <5>2, <5>3, <5>4, Zenon
      <4>3. CASE pc' = [pc EXCEPT ![p][t] = "poll"] /\ pc[p][t] = "enter"
        BY <4>1, <4>3, Zenon
      <4>4. CASE pc' = pc
        BY <4>4, Zenon
      <4> QED
        BY <3>2, <4>2, <4>3, <4>4, Zenon
    <3> QED
      BY <2>4, <3>1, <3>3, Zenon
  <2>6. CASE \/ SetAffinity(p, t) \/ EnterWait(p, t) \/ Resume(p, t)
             \/ caculate(p, t) \/ SpuriousWakeup(p, t)
    <3>1. files' = files /\ round' = round /\ sent' = sent
      BY <2>6, Zenon DEF SetAffinity, EnterWait, Resume, caculate, SpuriousWakeup,
                  memory, barrier, results
    <3>2. PICK l : l # "writing" /\ pc' = [pc EXCEPT ![p][t] = l] /\ pc[p][t] # "writing"
      BY <2>6, Zenon DEF SetAffinity, EnterWait, Resume, caculate, SpuriousWakeup, After
    <3>3. /\ \A q \in Ids \ {p} : pc'[q] = pc[q]
          /\ \A u \in Workers : pc'[p][u] = "writing" <=> pc[p][u] = "writing"
      BY <3>2, Zenon DEF IInv, TypeInv
    <3> QED
      BY <2>4, <3>1, <3>3, Zenon
  <2> QED
    BY <1>6, <2>1, <2>2, <2>3, <2>5, <2>6, Zenon DEF Worker
<1> QED
  BY <1>2, <1>4, <1>5, <1>6, Zenon DEF Next

\* communication0 holds exactly the values the workers have reported, each a
\* finished cell, whatever the number of workers and the order they report in.
THEOREM ReportsAreComplete ==
  ASSUME SignalsApart
  PROVE  Spec => []AllReported
<1>1. Init => AllReported
  <2> SUFFICES ASSUME Init PROVE AllReported
    BY Zenon
  <2>1. files[Name(0)] = << >>
    BY BenchAssumption, SizesAssumption DEF Init, Name, FileNames, Slash
  <2>2. ASSUME NEW q \in Ids PROVE Reported(q) = 0
    <3>1. Finished(q) = {} /\ ~Writes(q)
      BY DEF Init, Finished, Writes
    <3>2. Reported(q) = Cardinality({}) * Length + 0
      BY <3>1, Zenon DEF Reported, Finished, Writes
    <3>3. PICK l \in Nat : l = Length
      <4>1. 0 \in Workers
        BY BenchAssumption DEF Workers
      <4> QED
        BY <4>1, SliceBounds, Zenon
    <3>4. 0 * l + 0 = 0
      OBVIOUS
    <3> QED
      BY <3>2, <3>3, <3>4, FS_EmptySet, Zenon
  <2> QED
    BY <2>1, <2>2 DEF AllReported
<1>2. IInv /\ WorkInv /\ (FileInv /\ SignalInv) /\ AllReported /\ [Next]_vars => AllReported'
  BY NextReports, Zenon
<1> QED
  BY <1>1, <1>2, Invariance, WorkInvariance, SignalInvariance, PTL DEF Spec
=============================================================================
