# A verification project for the shared-memory chiplet simulator

The repository is a simulator for systems built from several CPU chiplets. Each
chiplet is one gem5 process (gem5 20.0, X86, Ruby with the MI_example protocol).
Chiplets talk through "shared memory": append-only text files `communicationN`,
written and read by two pseudo-instructions added to gem5. An external network
simulator, popnet, later turns these files into interconnect delays. Benchmarks
for the simulated chiplets come with it.

Paths below are relative to `src/`; `PROJECT.json` maps every definition to the
lines it models.

## 1. Inventory

| Part | Source | State | Concurrency and failure | Modelled by |
|---|---|---|---|---|
| Chiplet shared memory: `gadia_call`, `gadia_receive` | `gem5/src/sim/pseudo_inst.cc` | the files, one read position per process | processes interleave; a file may be missing, a read may find nothing | `GadiaFiles`, `GadiaComm` |
| Matrix benchmark | `benchmark/matrix/test01.cpp` | barrier counter, mutex, condition variable, result slices | four threads per chiplet, polling while holding the mutex, spurious wakeups | `MatrixBench` |
| Tree-search benchmark | `benchmark/treeSearching/test01.cpp` | BFS queue, visited map, thread counter, two termination flags | unsynchronised threads, condition variable | `TreeSearch` |
| Event queue | `gem5/src/sim/eventq.{hh,cc}`, `eventq_impl.hh` | list of bins of stacks, current tick, event flags, async list | event bodies call back into the queue; checkpoints; other threads insert through the async list | `EventQueue`; the async list in `GlobalSync` |
| Global events and the simulation loop | `gem5/src/sim/{global_event,simulate,stat_control}.cc`, `base/barrier.hh` | barriers, one queue per thread | threads of one process, signals of the user | `GlobalSync` |
| Ruby MI_example protocol | `gem5/src/mem/ruby/protocol/MI_example-*.sm` | cache, directory and DMA states, TBEs, message queues | races of requests, forwards, write-backs and DMA | `MIExample` |
| Ruby sequencers, memory interface | `gem5/src/mem/ruby/system/{Sequencer,DMASequencer}.cc`, `slicc_interface/AbstractController.cc` | request tables, memory queues | late answers | partly, in `MIExample` |
| Ruby message buffer, networks | `gem5/src/mem/ruby/network/` | heap, stall map, credits | recycling, stalling, finite size | not modelled, section 6 |
| dist-gem5 synchronisation | `gem5/src/dev/net/dist_iface.cc` | sync counters, request flags, receive queues | several processes and receiver threads, TCP, lost connections, crashes | `DistSync` |
| Ports, crossbars, drain, classic caches, CPUs, ISAs, devices, SLICC, Python | `gem5/src/...` | | | not modelled, section 6 |

## 2. How the modules correspond to the code

`GadiaFiles` holds the two pseudo-instructions as operators on files.
A line is a record with its position, its source, target and data.
Positions are byte offsets in the code; here a tick takes `TickWidth` characters
and every other token one. That keeps every way in which a position can cut a
line: inside the tick, before the source, the target or the data. Tokens missing
from a cut line leave `int`s uninitialised, which is a choice from `Junk`.
`ToInt` and `ToWord` are the casts between registers and `int`, with the sizes as
constants. A file name is one character computed from a number; `Slash` is the
one no file can have. `Results` is the set of outcomes of one `gadia_receive`.

`GadiaComm` is the system of processes that execute the two instructions.
`pos[p]` is the static `gadia_last_position`. `calls` and `inbox` are history.
`Sends` and `Reads` say which numbers a program uses. The properties are about the
lines of *other* processes, and the runs and theorems take programs that never send to
a number they read (`NoOwnLines`), as the benchmarks do; section 3 says what happens
otherwise. `Mailbox` is the abstract promise, a queue of unread words per reader, and
`GadiaMailbox` gives the refinement mapping: the unread words are the lines after
the position that others sent to the reader's number. The promise follows the code
where the manual says something else: a receive that finds nothing returns -1
(`Empty`), but -3 while the file does not exist (`Missing`).

`MatrixBench` runs `main` and `thread_num` workers per process on top of
`GadiaFiles`. Each `pc` value is a place where a thread can be preempted with an
effect others can see. A critical section whose effect only its own process sees
is one step taken when `mtx` is free; the ones that touch the shared memory hold
`mtx` over several steps. `spurious` is history: the chiplets on which
`pthread_cond_wait` returned unsignalled. Nothing in the repository writes the -4
lines the benchmark polls for, so `Signal` is the environment's action.

`TreeSearch` has a breadth-first thread, `thread_Num` workers and process main.
Steps are cut wherever another thread can see or change what is used:
`bfsQueue_length` and `bfsQueue_counter` are read without `data_mtx` (line 100,
where C++ leaves open which operand comes first), an entry is stored before it is
counted, and a vertex is tested before it is claimed. A worker that finds too
little in the queue sleeps (`Sleep`); `Broadcast` comes without `mtx`, so it may
pass a worker by. `slept` is the stretch between lines 386 and 403. Vertices that a
scan skips are left out of its steps, because `visited` and the queue only grow;
for the same reason the later passes of `my_DFS` only pop. `checkThread` asks for number
-1, whose file does not exist, so each of its turns stores to `visited[-3]` (`Heard`);
nobody reads that entry, the turns commute with every other step, and `Start` takes
them.

`MIExample` has one action per transition of the three SLICC machines.
Requests to a directory are a set, because recycling loses their order and a
cache has at most one on its way per line. Forwards to a cache are a sequence,
because a stalled head blocks the rest; `Arrivals` says where a message from a
directory may be inserted: messages of one directory may overtake each other
only when they leave with different latencies. A line between a directory
and its memory is touched by nobody else, so access and answer are one step.
Blocks are functions from words to values; `latest` is history, the words last
written by anyone. A sequencer has one issued request per line. No
controller sends GETS, so transitions on it are left out. DMA requests stay
inside one line. `MCMIShared` runs it under two workloads at once: stores to every
line with replacements, or loads, stores and DMA on one line.

`EventQueue` models the list at the level of its pointers: `head`, `nextBin` and
`nextInBin`, stale ones included. The queue's thread alternates between
`serviceOne` and the body of an event, and a body is any sequence of calls that
the assertions of `schedule`, `deschedule` and `reschedule` allow; the events of
`Squash` may be squashed whenever they are alive. `Restore` is a checkpoint taken between two
calls of `simulate()` and read back by a new process. `SortedQueue` is the abstract
promise: events are served by tick, then priority, then last in, first out.

`GlobalSync` is the parallel simulation of one process: a thread per queue, where a
queue is the sorted list `EventQueue` implements, and next to it the asynchronous
list. The thread of queue 0 belongs to Python and calls `simulate()`; the others meet
it at `threadBarrier`. Scheduling on another queue is three steps (`lock`, `insert`,
`flag`), because the flag `Scheduled` is set after the event is visible. Global
events (quantum, limit, exit, statistics) pass two barriers on every thread. A CPU event
per queue comes back every tick and may send a message to another queue or leave the
loop. A signal of the user may ask for that, or for the statistics (`requests`);
the thread that clears `async_event` serves statistics first, then the exit (`Wanted`).

`DistSync` is the distributed simulation: nodes and a switch, each a process with a
simulation thread and one receiver thread per socket. A sync request or answer and an
Ethernet packet travel on the same channel, in order; a message to a process that is
gone is lost. `Sync`, `SyncNode` and `SyncSwitch` are the records `sync`, `need` and
`num`; the `RecvScheduler` is `descQueue` and `prevRecvTick`. A peer may crash, and an
assertion the properties do not exclude, or a panic, ends its process.

`MCGadiaComm`, `MCGadiaMailbox`, `MCTreeSearch`, `MCMIExample`, `MCMIShared`,
`MCEventQueue` and `MCDistSync` give the constants values for TLC. Operators named
`Mut...` are plausible mistakes in the definition that follows them; each is known
to break the property `PROJECT.json` pairs it with.

## 3. Runs

| Run | Module, cfg | Question | Distinct states |
|---|---|---|---|
| `gadia` | `MCGadiaMailbox` | do readers of one file get every line of the others once, in order, with the data sent, and eventually? | 68,984 |
| `gadia_two_files` | `MCGadiaComm`, `MCGadiaTwoFiles.cfg` | and if a process reads two files? No: violated | |
| `matrix` | `MatrixBench` | barrier, signals, timing, results and termination of the benchmark | 169,184 |
| `matrix_spurious` | `MatrixBench`, `MatrixBenchSpurious.cfg` | is `perf_cycle` a barrier whatever `pthread_cond_wait` does? No: violated | |
| `tree` | `MCTreeSearch` | array bounds, the flag that ends the process, lost vertices and termination of the second benchmark | 728,038 |
| `mi` | `MCMIShared` | coherence, missing transitions and deadlock under replacements, and coherence of DMA | about 449,000 |
| `mi_dma_panic` | `MCMIExample`, `MCMIDmaPanic.cfg` | can a DMA request meet a state without a transition? Yes: violated | |
| `eventq` | `MCEventQueue` | do bins and stacks implement the sorted queue, across restores; are managed events safe? | 299,744 |
| `eventq_restore` | `MCEventQueue`, `MCEventRestore.cfg` | is an event scheduled after a restore as it was when saved? No: violated | |
| `global` | `GlobalSync`, `MCGlobalSync.cfg` | times, order and exclusion of global events over several threads, and does `simulate()` return? | 497,703 |
| `global_stats` | `GlobalSync`, `MCGlobalStats.cfg` | are global events in one order if a signal asks for statistics? No: violated | |
| `dist` | `MCDistSync` | packets, syncs, checkpoints and exits of a distributed simulation, and does it end? | 894,738 |

What the properties say:

- `OldestUnread`: a receive returns the oldest line other processes sent to the number
  that the process had not been given, with the data written there.
- `EndToEnd`: the words received are a prefix of the words the others sent, through
  truncation, text and sign extension.
- `ImplementsMailbox`: the same as a refinement of `Mailbox`, with delivery, and with -3
  returned exactly until the first line is sent, -1 only when nothing is unread.
- `Barrier`, `BarrierAlways`: no worker passes `perf_cycle` before all have
  entered it. The first excludes chiplets with a spurious wakeup.
- `PhasesAreSignalled`: each phase of a chiplet consumes a signal of its own.
- `WorkIsTimed`: computing and reporting lie between the two time stamps.
- `HalfComputed`, `AllReported`: each chiplet computes its half, once, and reports
  finished cells only, none lost; both hold with spurious wakeups too.
- `AllFinish`: no chiplet waits for ever.
- `InBounds`: neither `bfsQueue` nor the stack of a search is overrun, no vertex is queued
  twice, and nobody takes an entry that is not counted yet. It does not speak of
  `visited`, see below.
- `SubThreadMeansIdle`: `subThread`, which ends the process, is set exactly while
  every worker has given up, and `thread_counter` counts the others.
- `NothingLost`: when the breadth-first thread is over and no worker has a vertex in
  hand, everything reachable from the root was reported.
- `Ends` of `TreeSearch`: process main returns.
- `SingleWriter`, `ReadsLatest`, `MemoryCurrent`, `DmaReadsLatest`: coherence. Only
  one cache may use a line, its data and the data under way are the latest, and
  memory and devices see the latest where the directory says they do.
- `OwnerAsserts`: the assertions of the directory's `setState`.
- `NoInvalidCpuTransition` (without devices), `NoInvalidDmaTransition`: the generated
  controllers' panic is unreachable.
- `NoProtocolDeadlock`: some controller can step while a request is outstanding.
- `HoldsScheduled`, `AlwaysFound`: what the walk of the list reaches is exactly
  what is scheduled, so `remove` never panics.
- `debugVerify`: the code's own check of order and of repeated nodes.
- `NoneDeletedScheduled`: no managed event is deleted while it is scheduled, whoever
  schedules, squashes or deschedules it in whichever body.
- `ImplementsSortedQueue`: every call acts on the list as on a sorted one.
- `RestoredAsSaved`: what the documentation of `checkpointReschedule` promises.
- `NotInThePast`: the time assertions of the loop and of `schedule`, though threads
  drain their asynchronous lists at different moments.
- `ProcessedAlone`: one thread processes a global event while all others are
  between its two barriers. `OneOrder`: no two threads wait at barriers of
  different events; `global` shows it without statistics events and for calls longer
  than a quantum, `global_stats` that a statistics event breaks it.
- `PythonAlone`: while Python's thread owns the queues, the others have left the loop
  and the quantum event it deletes is nowhere in use.
- `FlagsHold`: what the flag `Scheduled` is worth although it is set after the event is
  visible. No queue holds an event twice; once nobody is scheduling an event it has its
  flag wherever it is held; and the flag of a global event says exactly where it is.
- `Returns`: every call of `simulate()` returns.
- `OnTime`: the assertions on the receive times of packets, in runs without a
  checkpoint request. `OneSyncAtATime`, `SameTick`: the assertions on `waitNum` and on
  the tick of a sync.
- `CheckpointTogether`, `NothingInFlight`: all nodes checkpoint at the same sync, and
  no packet is in a socket when they write.
- `CountedOnce`: a collective request counts once per node.
- `Ends` of `DistSync`: every peer ends after exit requests, closed connections and
  crashes, except in the case named below.

Type invariants are kept for `GadiaComm` and `MIExample`, where they are proved; the
other proof modules have their own (`TypeInv`).

### Disagreements between the code and what is said of it

The five violated runs are listed with quotations under `findings`.
While modelling, TLC confirmed these too; the definitions are general enough to
repeat them, but they are not kept as runs:

- `gadia_call` with target -1, which `pseudo_inst.cc:137` says "means all", opens
  the file `communication/`, so the line is lost (`Numbers` with -1).
- A process receives the lines it sent to its own number; the manual, section
  2.4, says that gem5 skips them (a number both in `Sends` and in `Reads` of a process,
  `OldestUnread`).
- A receive returns -3 while nobody has sent to the number (`pseudo_inst.cc:158`); the
  manual, sections 1.3.1.1 and 2.5.2, promises `(uint64_t)-1` whenever nothing is found
  (`Missing <- ToWord(-1)` in `GadiaMailbox`, `ImplementsMailbox`).
- With two directories the protocol deadlocks: forwards stalled at the heads of the
  caches' queues wait for each other (`MI_example-cache.sm:434`), until the sequencer
  panics (`Sequencer.cc:167`; three caches of two entries, two lines of different
  directories, loads only, `NoProtocolDeadlock`).
- A DMA write of part of a block that a cache owns drops the owner's other words,
  and one at an offset is stored at the start of the block
  (`BlockSize = 2`, `DmaAccess = {<<0, 1>>}` or `{<<1, 1>>}`, `MemoryCurrent`).
- A write-back by a cache that lost the line can reach the directory during a DMA
  request, where it has no transition (`NoInvalidTransition` in `MCMIShared`).
- `debugVerify` starts at priority 0 and rejects a correct queue whose first event
  is due at tick 0 with a negative priority.
- A message to another queue due exactly one quantum ahead can be drained and served
  before its sender sets the flag (`eventq_impl.hh:53-57`), and then has the flag though
  no queue holds it: `FlagsHold` for a global event does not hold for a message.
  `eventq.hh:749` calls `schedule` "Safe to call from any thread".
- `simulate()` called for no more than a quantum can bring two exit events out of order:
  one left over from the call before may be due with the new limit event, and a queue
  orders the two by when it took the former in (`simulate.cc:111`, `num_cycles = 2`,
  `OneOrder`).
- A managed event that schedules and deschedules itself in its own `process()` is deleted
  while it runs, because `releaseImpl` looks at the flag `Scheduled` only.
- A node whose exit is granted in the extra sync of a checkpoint loses its receiver
  thread and waits for ever at its next sync (`dist_iface.cc:264`); `Ends` excludes
  exactly this (`Orphan`).
- The switch reads `doCkpt` and `doExit` after `run()` has released the lock
  (`dist_iface.cc:398-400`), so it may stop for a checkpoint one sync early; packets
  it then sends break the assertion at line 508. Hence the premise of `OnTime`.

Read in the source, outside what the runs check:

- Tree search: `checkThread` always receives -3, so every run writes `visited[-3]`, a byte
  outside its `malloc` (`test01.cpp:357-364`; in the model as `Heard`). Main reads the two flags of line 516 one after the other, and a woken
  worker takes an entry before it takes `subThread` back, so the process may end
  with an entry just taken; nothing says what must be finished by then. The
  flags main polls are plain bools.
- Global events: `init_signals.cc:137-138` stores `async_event` before `async_exit`, so a
  signal may be acted on only at the next one.
- Distributed simulation: `needCkpt` stays pending after a checkpoint, so a second
  collective request is ignored. `m5.drain()` swallows the exit event of a lost
  connection (`simulate.py:199-203`). A packet sent before the first sync, a
  checkpoint requested before it, or a drain longer than a quantum runs into an
  assertion or a panic (lines 508, 344, 377 of `dist_iface.cc`).
- A word -1 or -3 sent as data looks like "nothing found" to a receiver.
- `test01.cpp:247` of the matrix benchmark adds `start.millitm` where it should
  subtract it, and `toWrite` reports every chiplet's results with source 0.

### Bounds

- `gadia`: three processes and numbers 0 to 2; two processes read one file and write
  into the file of the third. Three calls: three lines are enough for a skipped, a
  repeated and a swapped line. Ints have 8 values and words 16, so that 12 is the
  register value -4. Ticks of width 1 and 2 give lines of different lengths.
- `matrix`: two chiplets (id 0 does not poll in `perf_cycle`, id 1 does) of two
  workers, a 2 x 2 matrix (two cells per half, one per worker), three signals (one
  launch and two rounds), one core, so that `core_counter` wraps.
- `tree`: eight vertices and two workers. Six neighbours of the root fill the queue
  past both thresholds of `unsafeGetData` (a worker takes above 2, a broadcast comes from 5),
  one vertex lies behind the last, one edge joins two neighbours, one wakeup is
  spurious, and one core makes `core_counter` wrap.
- `mi`: two caches of one entry and two lines, so that every miss replaces; under the
  first workload stores only, and memory that may answer before older messages
  arrive; under the second loads, stores and whole-block DMA on one line.
  Caches and lines are symmetric. `View` hides the block of a line without data.
- `eventq`: three alike events and a managed one of lower urgency, ticks 0 and 1: bins of
  three, bins behind bins, restores at any point. One of the three and the managed one
  may be squashed; the other two are symmetric.
- `global`: two threads, a quantum of 2, messages due exactly 2 ahead, the least the
  code allows, no statistics events, `simulate(3)` called twice, one exit by a CPU and one by a signal: the limit falls between quantum
  events, and an exit can meet either. `global_stats`: one call and one signal that asks
  for statistics.
- `dist`: two nodes with different intervals, link delay 3, and five scenarios: a
  checkpoint with a packet, two checkpoint requests, two packets in a longer run, an
  early exit, a crash with a packet.

`MaxCalls`, `MaxSignals`, `MaxSpurious`, `MaxTick`, `MaxDumps`, `Exits`, `Interrupts`,
`Stats`, `Squash`, `Traffic` and `Scenarios` are the bounds in guards.

### Fairness

`GadiaComm!FairSpec`: every process keeps executing its receive. All programs of
the repository poll in a loop, and a receive is always enabled.
`MatrixBench!FairSpec`: every thread that can run does, and the signals come.
Every worker takes `mtx` a bounded number of times, so a worker waiting for it needs no
fairness of the mutex. Spurious wakeups are not fair.
`TreeSearch!FairSpec`: the same for its threads; a worker that holds `mtx` or waits
for it is one of finitely many, and weak fairness of each suffices.
`GlobalSync!FairSpec`: the host runs every thread; signals and calls are not fair.
`DistSync!FairSpec`: the host runs every simulation and receiver thread, and a
program that owes its `m5 exit` comes to it; packets, requests and crashes are not
fair. The other specifications have no fairness: nothing bounds how often Ruby
recycles a request, so a liveness property of MI_example would need an assumption
the code does not justify.

`MatrixBench`, `TreeSearch`, `GlobalSync` and `DistSync` switch deadlock checking off,
because their programs end; `AllFinish`, `Ends` and `Returns` say instead that they
get there.

## 4. Proofs

Every theorem is about all values of the constants that satisfy the named
assumptions. Each proof module has an inductive invariant; the lemmas show, action by
action, that a step keeps it, and the theorems follow from it. Proofs about an
invariant that TLC had not checked were begun only after TLC had found no
counterexample to it.

### The shared memory: `GadiaFilesProofs`, `GadiaCommProofs`

For every set of chiplets, numbers and data, every tick width and every size of ints
and words that satisfy `SizesAssumption`, `NumbersFit` and `NumbersAssumption`, and
provided that a process reads one file only (`OneFile`) and, for the last two, sends to no
number that it reads (`NoOwnLines`):

- `TypeCorrect`: `Spec => []TypeOK`;
- `ReceivesOldestUnread`: `Spec => []OldestUnread`;
- `DeliversWhatWasSent`: `Spec => []EndToEnd`, if the words sent are ints
  (`DataAreInts`): a word that is not loses its upper half in `gadia_call`.

`SizesAssumption` says that a word is a whole number of ints, as for 64 and 32 bits;
sign extension and truncation then cancel out. `gadia_two_files` shows that `OneFile`
cannot be dropped.

`OldestUnread` is not inductive, because it does not mention the position. `IInv`
adds: the lines of a file are contiguous (`FileOK`), a position is a boundary
between lines (`AtBoundary`), and what a process received is, in order, exactly the
lines addressed to its number that end before its position (`Consumed`). A call
appends behind every position, so boundaries and consumed lines stay
(`AppendKeepsFileOK`, `AppendKeepsReader`). A receive from a boundary reads whole lines
(`ReadWhole`), so it stops at the first addressed line ahead (`FoundLine`), which
extends the consumed ones by one (`TakeLine`). For `EndToEnd`, `CallsInv` adds an
increasing correspondence between the lines of a file and the calls that wrote them;
with `Consumed` it gives the correspondence the property asks for. `Origins` says that a
process sends to its `Sends` only, so under `NoOwnLines` every line and call for the number a
process reads is of another process (`OthersSentAll`). The lemmas about
files are in `GadiaFilesProofs`, because the benchmark's proofs need them as well.

### The matrix benchmark: `MatrixBenchProofs`

For every matrix size, number of workers, cores and signals that satisfy
`BenchAssumption`. That assumption contains what the program relies on: the ids are 0
and 1, the signals' file has a name, a cell (at most `2 * N`) fits into an int.

- `PerfCycleIsABarrier`: `Spec => []Barrier`;
- `TimesEncloseWork`: `Spec => []WorkIsTimed`;
- `EachPhaseHasItsSignal`: `Spec => []PhasesAreSignalled`;
- `HalfIsComputed`: `Spec => []HalfComputed`, if the slices come out even
  (`EvenSplit`, true of the 300 x 300 matrix and four workers); otherwise the
  divisions leave cells out;
- `ReportsAreComplete`: `Spec => []AllReported`, if reports and signals are in different
  files (`SignalsApart`); the instance TLC checks has them apart, as the program does.

`IInv` ties threads to the mutex, and, on chiplets without a spurious wakeup, says
that `counter` counts the workers that have not arrived (`CountInv`), that a worker
which polls finds all others waiting (`LastInv`), that workers leave a `perf_cycle`
together (`GoneInv`) and that its time is taken then (`StampInv`). `WorkInv` says that a cell
has been added to once by the worker in whose slice it lies; that slices are
disjoint and tile the half is arithmetic with divisions (`SliceBounds`, `SlicesTile`).
`FileInv` and `SignalInv` count the signals before the position of a chiplet, which is
why no signal is used twice. Only the conjuncts about the barrier exclude chiplets
with a spurious wakeup, so the theorems on results and reports do not.

### The tree search: `TreeSearchProofs`

For every graph, root and number of workers, cores and spurious wakeups that
satisfies `TreeAssumption`:

- `FlagMeansIdle`: `Spec => []SubThreadMeansIdle`;
- `ArraysHold`: `Spec => []InBounds`;
- `NoVertexLost`: `Spec => []NothingLost`.

Its inductive invariant `IInv`, which TLC checked first on a smaller graph, has one
part per concern, and one lemma per part shows that every action keeps it:

- `SleepInv` ties `slept` to the places where a worker stands. The counting
  (`SleepCount`) is by adding or removing one worker from a finite set.
- `QueueInv`: what is put is not in the queue and not the root, the queue is one
  longer than `length` between `Put` and `Count`, and the flag `mainThread` is set with
  nothing left to take. With it the queue is an injection into the vertices but the root,
  and so shorter than its array.
- `StackInv`: a search that has come to vertex `i` has at most `i + 1` entries on its
  stack, and at most `i` once it has passed the vertex `queue[1]`, which every search
  skips. That one skipped vertex makes room for the entry the search began with.
- `CoverInv`: the neighbours of everything met are claimed (visited or queued), or
  the breadth-first thread has the vertex in hand, or some worker is in its pass.
  `PassInv`: such a pass has claimed every vertex before its position, so at its end
  all are claimed, which is why `CoverInv` survives the last search.
- `ReportInv`: claimed and reported differ by the root and the entry just put.

### MI_example: `MIExampleProofs`, `MIDataProofs`

For any number of caches, lines, directories, words and values, any latencies and
memories that satisfy `ProtocolAssumption`:

- `TypeCorrect`: `Spec => []TypeOK`; `OneWriter`: `Spec => []SingleWriter`;
  `AssertionsHold`: `Spec => []OwnerAsserts`;
- `CoherentReads`, `CoherentMemory`: `Spec => []ReadsLatest`, `Spec => []MemoryCurrent`, and
  `CoherentDma`: `Spec => DmaReadsLatest`, an action property, if devices access whole
  blocks (`WholeBlocks`). Without that they are false, see section 3;
- `TransitionsExist`: no controller meets an event without a transition as long as no
  device makes a request (`[]IdleDevices`). `mi_dma_panic` shows that devices can.

Single-writer is far from inductive: between a GETX and the data lie a queue at the
directory, a forward, the owner's answer, and write-backs that cross all of them.
`CohInv` says where the permission for a line is: `GetInv` that a waiting cache is
granted the line by at most one message, access or forward; `PutInv` that a
write-back is answered once and its cache no longer asked; `DirInv` how directory
state, owner and memory access go together; `OneCopy` that the line is in one cache,
in one message or at the directory. `DInv` adds the data: the holder and every data
message have the latest words (`CopyInv`), a write-back carries what its cache still
keeps (`PutDataInv`), and memory, or the access to it, is current while the line is at
the directory (`HomeInv`); `DmaInv` follows a request of a device.

### Distributed simulation: `DistSyncProofs`

For any number of nodes, intervals, delays, packets, requests and crashes that satisfy
`DistAssumption`:

- `OneSync`: `Spec => []OneSyncAtATime`; `SyncsAtOneTick`: `Spec => []SameTick`;
- `OneCheckpoint`: `Spec => []CheckpointTogether`;
- `DrainedNetwork`: `Spec => []NothingInFlight`;
- `CountsOnce`: `Spec => []CountedOnce`.

No peer knows what the others are doing, so the invariant says that there is a *round*
that explains all of them at once: a record of whose requests the switch has counted,
where nodes come from when they ask, what the last answer said and the tick of the
next periodic sync. Every node that lives simulates as the round says, has asked, or
has not read the last answer or not acted on it (`LiveInv`); the requests and answers in
the channels belong to the round (`RequestInv`, `AnswerInv`); the switch waits for
exactly the nodes not counted (`SwitchInv`). A counted request makes the round larger,
the switch's answer begins the next one, and every other step keeps it. A channel is
`Sealed` when nothing follows its request or answer: that is why no packet is left
between two peers that write a checkpoint. `OnceInv` has the set of nodes whose
collective request was counted.

## 5. What is only model-checked

- Liveness (`AllFinish`, both `Ends`, `Returns`, delivery in `ImplementsMailbox`), and
  `NoProtocolDeadlock`, which uses ENABLED, are outside the prover.
- `ImplementsMailbox` also maps files to queues with `SelectSeq`, a recursive definition:
  what it computes needs induction over data. `EndToEnd` states the safety part with an
  explicit correspondence instead, and is proved.
- `EventQueue` walks its lists with recursive operators, about which nothing can be
  proved here.
- The properties of `GlobalSync`, and `OnTime` of `DistSync`, have no proof.

## 6. What is not modelled

- Ruby's message buffers and networks: `MIExample` uses only the orders in which they
  may deliver. Stall maps, finite slots and garnet's credits would be modules of
  their own; the MI_example configuration leaves the buffers unbounded (`buffer_size` 0).
- Other Ruby protocols: `build_opts/X86` compiles MI_example.
- Classic caches, crossbars and packet queues: the X86 build runs Ruby.
- CPU models and instruction sets: pipelines of that size are out of TLC's reach;
  the protocol module lets a CPU issue any load or store.
- Devices and drivers: register-level I/O; DMA is any access inside a line.
- SLICC, Python configuration, the counting of statistics: no concurrent state of the
  simulation.
- popnet is not in the repository.
- In the parts modelled: `replaceHead` of the event queue; asynchronous I/O and
  exceptions, `exitSimLoopNow`, exit and statistics events that repeat and the migration
  of a thread between queues; toggling, stopping (`doStopSync`), starting by a
  pseudo-instruction and restoring the distributed synchronisation; load-linked, atomics, aliased requests and port
  retries of the sequencers; DMA over several lines; the times the benchmarks
  print; `resultNode` of the tree search; files left over from an earlier simulation.
