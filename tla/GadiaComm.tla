----------------------------- MODULE GadiaComm -----------------------------
(***************************************************************************)
(* The shared memory between chiplets.  Every chiplet is a gem5 process;   *)
(* gadia_call appends a line to the file of the target's number and        *)
(* gadia_receive scans the file of a number.  A file only ever grows.      *)
(* Each process keeps ONE read position (gadia_last_position), whatever    *)
(* the file it reads.  Any program may run on a chiplet: it sends data of  *)
(* its own to the numbers in Sends and polls the numbers in Reads.         *)
(***************************************************************************)
EXTENDS GadiaFiles

CONSTANTS
  Chiplets,   \* gem5 processes, named by their chiplet number
  Data,       \* register values a program passes as data
  Sends,      \* Sends[p]: the numbers process p passes to gadia_call
  Reads,      \* Reads[p]: the numbers process p passes to gadia_receive
  TickWidth,  \* TickWidth[p]: digits of curTick() in process p
  MaxCalls    \* bound on the number of gadia_call instructions

ASSUME NumbersAssumption ==
  /\ Chiplets \subseteq Numbers
  /\ Data \subseteq Nat
  /\ Sends \in [Chiplets -> SUBSET Numbers]
  /\ Reads \in [Chiplets -> SUBSET Numbers]
  /\ TickWidth \in [Chiplets -> Nat \ {0}]
  /\ MaxCalls \in Nat

VARIABLES
  files,  \* files[x]: the lines of the file whose name ends in character x
  pos,    \* pos[p]: gadia_last_position of process p
  reg,    \* reg[p]: the value the last gadia_receive of p returned
  calls,  \* history: the gadia_call instructions executed, in order
  inbox   \* history: what p received, in order

Receipts == [from : Numbers, line : Nat, ret : Nat]

vars == <<files, pos, reg, calls, inbox>>

Init ==
  /\ files = [x \in FileNames |-> << >>]
  /\ pos = [p \in Chiplets |-> 0]
  /\ reg = [p \in Chiplets |-> 0]
  /\ calls = << >>
  /\ inbox = [p \in Chiplets |-> << >>]

gadia_call(p, target, data, init) ==
  /\ Len(calls) < MaxCalls
  /\ files' = AfterCall(files, TickWidth[p], ToWord(p), ToWord(target), data, init)
  /\ calls' = Append(calls, [src |-> p, dst |-> target, data |-> data, init |-> init])
  /\ UNCHANGED <<pos, reg, inbox>>

gadia_receive(p, n) ==
  \E r \in Results(files, pos[p], ToWord(n)) :
    /\ pos' = [pos EXCEPT ![p] = r.pos]
    /\ reg' = [reg EXCEPT ![p] = r.ret]
    /\ inbox' = IF r.line = 0 THEN inbox
                ELSE [inbox EXCEPT ![p] =
                        Append(@, [from |-> n, line |-> r.line, ret |-> r.ret])]
    /\ UNCHANGED <<files, calls>>

Call(p) == \E t \in Sends[p], d \in Data, i \in {0, 1} : gadia_call(p, t, d, i)
Receive(p) == \E n \in Reads[p] : gadia_receive(p, n)

Next == \E p \in Chiplets : Call(p) \/ Receive(p)

Spec == Init /\ [][Next]_vars

\* Programs poll: each loop around gadia_receive retries until it succeeds.
FairSpec == Spec /\ \A p \in Chiplets : WF_vars(Receive(p))

----------------------------------------------------------------------------
(* Properties *)

\* No program sends to a number it polls itself, as in the benchmarks.  The
\* manual, section 2.4, says that gem5 skips what a chiplet sends to itself;
\* gadia_receive does not look at the source of a line with its own number.
NoOwnLines == \A p \in Chiplets : Sends[p] \cap Reads[p] = {}

\* Type invariant.
TypeOK ==
  /\ files \in [FileNames -> Seq(Lines)]
  /\ pos \in [Chiplets -> Nat]
  /\ reg \in [Chiplets -> Nat]
  /\ calls \in Seq([src : Chiplets, dst : Numbers, data : Data, init : {0, 1}])
  /\ inbox \in [Chiplets -> Seq(Receipts)]

\* Line i of the file of n was returned to p, by the receives before the k-th.
ReturnedBefore(p, n, i, k) ==
  \E j \in DOMAIN inbox[p] : j < k /\ inbox[p][j].from = n /\ inbox[p][j].line = i

\* The lines of f that others have sent to n, for a process p that reads n.
ForReader(p, f, n) == {i \in Addressed(f, n) : f[i].src # p}

\* gadia_receive(n) returns the oldest line another process sent to n that this
\* process has not read, with the data written there, and marks it read: no line
\* is skipped, returned twice, returned out of order or returned with other data.
OldestUnread ==
  \A p \in Chiplets : \A k \in DOMAIN inbox[p] :
    LET m == inbox[p][k]
        f == files[Name(m.from)]
    IN  /\ m.line \in ForReader(p, f, m.from)
        /\ m.ret = ToWord(f[m.line].data)
        /\ ~ReturnedBefore(p, m.from, m.line, k)
        /\ \A i \in ForReader(p, f, m.from) :
             i < m.line => ReturnedBefore(p, m.from, i, k)

\* The gadia_call instructions of processes other than p that send to number n.
SentTo(p, n) ==
  {i \in DOMAIN calls : calls[i].init = 0 /\ calls[i].dst = n /\ calls[i].src # p}

\* The values p received are, in order, the first values that other processes
\* passed to gadia_call with init = 0 for the number p reads: the path through
\* the (int) casts, the text line and back delivers what was sent.
EndToEnd ==
  \A p \in Chiplets : \A n \in Reads[p] :
    \E sent \in [DOMAIN inbox[p] -> SentTo(p, n)] :
      \A k \in DOMAIN inbox[p] :
        /\ inbox[p][k].ret = calls[sent[k]].data
        /\ \A i \in SentTo(p, n) :
             i < sent[k] <=> \E j \in DOMAIN inbox[p] : j < k /\ sent[j] = i
=============================================================================
