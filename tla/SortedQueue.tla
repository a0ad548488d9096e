---------------------------- MODULE SortedQueue ----------------------------
(***************************************************************************)
(* What an event queue promises to the simulator: the pending events in    *)
(* the order in which they will be served.  An event is served when        *)
(* nothing earlier is pending; of two events with the same time and        *)
(* priority the one scheduled last goes first.                             *)
(***************************************************************************)
EXTENDS Integers, Sequences, SequencesExt

CONSTANTS
  Events,
  Prio,     \* Prio[e]: the priority of event e, lower is sooner
  MaxTick   \* bound on the times at which events are scheduled

VARIABLES
  pending,  \* the pending events with their times, in the order of service
  now       \* the current tick

vars == <<pending, now>>

Before(x, y) ==
  x.when < y.when \/ (x.when = y.when /\ Prio[x.event] < Prio[y.event])

\* x goes in front of the first entry that is not before it.
Place(s, x) ==
  LET first == SelectSeq(s, LAMBDA y : Before(y, x))
  IN  first \o <<x>> \o SubSeq(s, Len(first) + 1, Len(s))

Drop(s, e) == SelectSeq(s, LAMBDA y : y.event # e)

Init == pending = << >> /\ now = 0

\* From old to new, event e goes to time w, whether it was pending or not, or is
\* taken out.
Change(old, new, e) ==
  LET rest == Drop(old, e)
  IN  \/ new = rest
      \/ \E w \in now .. MaxTick : new = Place(rest, [event |-> e, when |-> w])

\* The first event is served; the time moves to it unless it is squashed.
Serve(old, new) ==
  /\ old # << >>
  /\ new = Tail(old)
  /\ now' \in {now, Head(old).when}

\* Some of the pending events are inserted again, in any order.
Reload ==
  /\ UNCHANGED now
  /\ IsInjective(pending') /\ ToSet(pending') \subseteq ToSet(pending)
  /\ \A i, j \in DOMAIN pending' : i < j => ~Before(pending'[j], pending'[i])

Next ==
  \E old \in {pending}, new \in {pending'} :
    \/ Serve(old, new)
    \/ UNCHANGED now /\ \E e \in Events : Change(old, new, e)

Spec == Init /\ [][Next]_vars
=============================================================================
