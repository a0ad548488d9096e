----------------------------- MODULE EventQueue -----------------------------
(***************************************************************************)
(* The event queue of the simulator (sim/eventq.cc) at the level of its    *)
(* pointers: a list of bins linked by nextBin, one bin per time and        *)
(* priority, each a stack linked by nextInBin.  Only the nextBin of the    *)
(* top of a stack means anything; the others go stale.                     *)
(*                                                                         *)
(* The thread of the queue alternates between serviceOne and the body of   *)
(* the event it serves.  What a body does to the queue is any sequence of  *)
(* calls that the assertions of schedule, deschedule and reschedule allow. *)
(***************************************************************************)
EXTENDS Integers, FiniteSets, SequencesExt

CONSTANTS
  Events,   \* the event objects
  Prio,     \* Prio[e]: its priority
  Managed,  \* the events with the flag Managed (AutoDelete)
  Squash,   \* the events on which squash() is called
  MaxTick,  \* bound on the times at which events are scheduled
  Null

ASSUME EventsAssumption ==
  /\ IsFiniteSet(Events)
  /\ Prio \in [Events -> Int]
  /\ Managed \subseteq Events /\ Squash \subseteq Events
  /\ MaxTick \in Nat
  /\ Null \notin Events

VARIABLES
  q,          \* head of the queue, and nextBin and nextInBin of the events
  when,       \* when[e]: _when
  scheduled,  \* the events with the flag Scheduled
  squashed,   \* the events with the flag Squashed
  curTick,    \* _curTick
  running,    \* the event whose process() runs, or Null
  alive       \* the events that have not been deleted

vars == <<q, when, scheduled, squashed, curTick, running, alive>>

EmptyQueue ==
  [head |-> Null, nextBin |-> [e \in Events |-> Null],
   nextInBin |-> [e \in Events |-> Null]]

Init ==
  /\ q = EmptyQueue
  /\ when = [e \in Events |-> 0]
  /\ scheduled = {}
  /\ squashed = {}
  /\ curTick = 0
  /\ running = Null
  /\ alive = Events

----------------------------------------------------------------------------
(* The order of events: operator<, operator<=, operator==.  at is _when.   *)

Less(at, e, f) == at[e] < at[f] \/ (at[e] = at[f] /\ Prio[e] < Prio[f])
MutAtMost(at, e, f) == TRUE
AtMost(at, e, f) == at[e] < at[f] \/ (at[e] = at[f] /\ Prio[e] <= Prio[f])
SameBin(at, e, f) == at[e] = at[f] /\ Prio[e] = Prio[f]

----------------------------------------------------------------------------
(* The list of lists *)

Positions == 0 .. Cardinality(Events)

\* The event reached from e after k steps along the pointers next, or Null.
RECURSIVE Along(_, _, _)
Along(next, e, k) == IF k = 0 \/ e = Null THEN e ELSE Along(next, next[e], k - 1)

\* prev of the loops in insert and remove, from p on: the last top before e.
\* curr is the top behind it.
RECURSIVE LastBefore(_, _, _, _)
LastBefore(x, at, e, p) ==
  LET curr == x.nextBin[p]
  IN  IF curr = Null \/ ~Less(at, curr, e) THEN p ELSE LastBefore(x, at, e, curr)
Prev(x, at, e) == LastBefore(x, at, e, x.head)
Curr(x, at, e) == x.nextBin[Prev(x, at, e)]

\* e becomes the top of the bin of curr, or a bin of its own in front of it.
MutInsertBefore(x, at, e, curr) ==
  [x EXCEPT !.nextBin[e] = curr, !.nextInBin[e] = Null]
insertBefore(x, at, e, curr) ==
  IF curr = Null \/ Less(at, e, curr)
  THEN [x EXCEPT !.nextBin[e] = curr, !.nextInBin[e] = Null]
  ELSE [x EXCEPT !.nextBin[e] = x.nextBin[curr], !.nextInBin[e] = curr]

insert(x, at, e) ==
  IF x.head = Null \/ AtMost(at, e, x.head)
  THEN [insertBefore(x, at, e, x.head) EXCEPT !.head = e]
  ELSE LET p == Prev(x, at, e)
       IN  [insertBefore(x, at, e, Curr(x, at, e)) EXCEPT !.nextBin[p] = e]

\* e is on the stack of top.
InBin(x, top, e) == \E k \in Positions : Along(x.nextInBin, top, k) = e

\* The queue and the new top of the bin once e is off the stack of top.
removeItem(x, e, top) ==
  LET next == x.nextInBin[top]
  IN  IF e = top
      THEN IF next = Null THEN [queue |-> x, top |-> x.nextBin[top]]
           ELSE [queue |-> [x EXCEPT !.nextBin[next] = x.nextBin[top]], top |-> next]
      ELSE LET above == CHOOSE f \in Events : InBin(x, top, f) /\ x.nextInBin[f] = e
           IN  [queue |-> [x EXCEPT !.nextInBin[above] = x.nextInBin[e]], top |-> top]

\* remove finds e; otherwise it panics ("event not found!").
Removable(x, at, e) ==
  /\ x.head # Null
  /\ IF SameBin(at, x.head, e) THEN InBin(x, x.head, e)
     ELSE /\ Curr(x, at, e) # Null
          /\ SameBin(at, Curr(x, at, e), e)
          /\ InBin(x, Curr(x, at, e), e)

remove(x, at, e) ==
  IF SameBin(at, x.head, e)
  THEN LET r == removeItem(x, e, x.head) IN [r.queue EXCEPT !.head = r.top]
  ELSE LET r == removeItem(x, e, Curr(x, at, e))
           p == Prev(x, at, e)
       IN  [r.queue EXCEPT !.nextBin[p] = r.top]

----------------------------------------------------------------------------
(* The calls on the queue *)

\* release(): a managed event that is not scheduled any more is deleted.
MutRelease(e) == alive' = IF e \in Managed THEN alive \ {e} ELSE alive
Release(e) == alive' = IF e \in Managed \ scheduled' THEN alive \ {e} ELSE alive

schedule(e, w) ==
  /\ e \in alive \ scheduled
  /\ when' = [when EXCEPT ![e] = w]
  /\ q' = insert(q, when', e)
  /\ scheduled' = scheduled \cup {e}
  /\ UNCHANGED <<squashed, curTick, running, alive>>

\* A managed event that schedules and deschedules itself is deleted under its
\* own process().
deschedule(e) ==
  /\ e \in scheduled
  /\ q' = remove(q, when, e)
  /\ scheduled' = scheduled \ {e}
  /\ squashed' = squashed \ {e}
  /\ Release(e)
  /\ UNCHANGED <<when, curTick, running>>

\* With always set, an event that is not scheduled is simply scheduled.  The
\* event leaves its bin before its time changes.
reschedule(e, w) ==
  /\ e \in alive
  /\ when' = [when EXCEPT ![e] = w]
  /\ q' = insert(IF e \in scheduled THEN remove(q, when, e) ELSE q, when', e)
  /\ scheduled' = scheduled \cup {e}
  /\ squashed' = squashed \ {e}
  /\ UNCHANGED <<curTick, running, alive>>

\* The flag stays set on an event that is not on the queue, and schedule() does
\* not clear it.
squash(e) ==
  /\ e \in alive \cap Squash
  /\ squashed' = squashed \cup {e}
  /\ UNCHANGED <<q, when, scheduled, curTick, running, alive>>

\* The queue without its head.
MutPopped(x) ==
  LET next == x.nextInBin[x.head]
  IN  [x EXCEPT !.head = IF next # Null THEN next ELSE x.nextBin[x.head]]
Popped(x) ==
  LET next == x.nextInBin[x.head]
  IN  IF next # Null THEN [x EXCEPT !.nextBin[next] = x.nextBin[x.head], !.head = next]
      ELSE [x EXCEPT !.head = x.nextBin[x.head]]

\* serviceOne up to process(); a squashed event is only released.
serviceOne ==
  /\ running = Null
  /\ q.head # Null
  /\ q' = Popped(q)
  /\ scheduled' = scheduled \ {q.head}
  /\ \/ /\ q.head \notin squashed
        /\ curTick' = when[q.head]
        /\ running' = q.head
        /\ UNCHANGED <<squashed, alive>>
     \/ /\ q.head \in squashed
        /\ squashed' = squashed \ {q.head}
        /\ Release(q.head)
        /\ UNCHANGED <<curTick, running>>
  /\ UNCHANGED <<when>>

\* serviceOne after process().  An event deleted meanwhile is read and released
\* all the same; it is gone already.
Return ==
  /\ running # Null
  /\ running' = Null
  /\ UNCHANGED <<q, when, scheduled, squashed, curTick>>
  /\ Release(running)

\* The constructor of an event object, which is not the one serviceOne holds.
Create(e) ==
  /\ e \notin alive /\ e # running
  /\ alive' = alive \cup {e}
  /\ when' = [when EXCEPT ![e] = 0]
  /\ q' = [q EXCEPT !.nextBin[e] = Null, !.nextInBin[e] = Null]
  /\ squashed' = squashed \ {e}
  /\ UNCHANGED <<scheduled, curTick, running>>

\* serialize() between two calls of simulate(), and UNSERIALIZE_EVENT for every
\* event of a new process, in some order.  unserialize() clears the flag
\* Scheduled of the events that were scheduled and not squashed, and
\* checkpointReschedule() inserts an event if its flag is set.  Whatever the old
\* process did after the checkpoint is forgotten.  Mutant: the new process
\* starts at tick 0.
MutRestoreTick ==
  /\ running = Null
  /\ scheduled' = scheduled \cap squashed
  /\ \E order \in SetToSeqs(scheduled') :
       q' = FoldLeft(LAMBDA x, e : insert(x, when, e), EmptyQueue, order)
  /\ curTick' = 0
  /\ UNCHANGED <<when, squashed, running, alive>>
Restore ==
  /\ running = Null
  /\ scheduled' = scheduled \cap squashed
  /\ \E order \in SetToSeqs(scheduled') :
       q' = FoldLeft(LAMBDA x, e : insert(x, when, e), EmptyQueue, order)
  /\ UNCHANGED <<when, squashed, curTick, running, alive>>

Next ==
  \/ \E e \in Events, w \in curTick .. MaxTick : schedule(e, w) \/ reschedule(e, w)
  \/ \E e \in Events : deschedule(e) \/ squash(e) \/ Create(e)
  \/ serviceOne
  \/ Return
  \/ Restore

Spec == Init /\ [][Next]_vars

----------------------------------------------------------------------------
(* Properties *)

\* The traversal of dump() and debugVerify() from event e in the bin of top, for
\* at most k events.
RECURSIVE Walk(_, _, _, _)
Walk(x, top, e, k) ==
  IF e = Null \/ k = 0 THEN << >>
  ELSE <<e>> \o IF x.nextInBin[e] # Null THEN Walk(x, top, x.nextInBin[e], k - 1)
                ELSE Walk(x, x.nextBin[top], x.nextBin[top], k - 1)

\* The events met by the traversal, in order.
Contents(x) == Walk(x, x.head, x.head, Cardinality(Events) + 1)

\* debugVerify(): it starts from time 0 and priority 0.
debugVerify ==
  LET c == Contents(q)
      time(i) == IF i = 1 THEN 0 ELSE when[c[i - 1]]
      priority(i) == IF i = 1 THEN 0 ELSE Prio[c[i - 1]]
  IN  /\ \A i \in DOMAIN c : /\ time(i) <= when[c[i]]
                             /\ when[c[i]] = time(i) => priority(i) <= Prio[c[i]]
      /\ \A i, j \in DOMAIN c : c[i] = c[j] => i = j

\* The queue holds the events with the flag Scheduled, each once, whatever
\* stale nextBin pointers are around: nothing is lost and nothing comes back.
HoldsScheduled ==
  LET c == Contents(q)
  IN  /\ ToSet(c) = scheduled
      /\ Len(c) = Cardinality(scheduled)

\* Whatever is scheduled can be descheduled: remove() and removeItem() never
\* panic with "event not found!".
AlwaysFound == \A e \in scheduled : Removable(q, when, e)

\* ~Event's assertion, assert(!scheduled()): no event is deleted while it is on
\* the queue, though release() is called from three places and process() may
\* have scheduled the event again, or deleted it.
NoneDeletedScheduled == scheduled \subseteq alive

PendingList ==
  LET c == Contents(q) IN [i \in DOMAIN c |-> [event |-> c[i], when |-> when[c[i]]]]

Promise == INSTANCE SortedQueue WITH pending <- PendingList, now <- curTick

\* The list of lists is a queue sorted by time and priority, last in first out
\* among equals: every call acts on it as on the sorted list it stands for, and a
\* restored queue is sorted from some order of insertion.
ImplementsSortedQueue ==
  /\ Promise!Init
  /\ [][Promise!Next \/ (Restore /\ Promise!Reload)]_<<PendingList, curTick>>

\* What a checkpoint restores is what it saved: an event that was scheduled
\* and not squashed is on the queue of the restored process
\* ("Reschedule an event after a checkpoint").
RestoredAsSaved ==
  [][Restore => scheduled \ squashed \subseteq ToSet(Contents(q'))]_vars
=============================================================================
