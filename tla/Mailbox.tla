------------------------------ MODULE Mailbox ------------------------------
(***************************************************************************)
(* What the shared memory promises a program: every chiplet has a first-in *)
(* first-out box of unread words.  Sending to a number appends to the box  *)
(* of every other chiplet that reads this number; receiving takes the      *)
(* oldest word.  When there is none it returns Empty, or Missing if nobody *)
(* has sent to the number yet.  Files, lines, positions and casts are      *)
(* gone.                                                                   *)
(***************************************************************************)
EXTENDS Sequences

CONSTANTS Readers, Boxes, Box, Words, Empty, Missing

VARIABLES
  queue,   \* queue[p]: the unread words of p
  opened,  \* the boxes somebody has sent to
  reg      \* reg[p]: what p received last

vars == <<queue, opened, reg>>

Init ==
  /\ queue = [p \in Readers |-> << >>]
  /\ opened = {}
  /\ reg \in [Readers -> {0}]

Send(s, b, w) ==
  /\ UNCHANGED reg
  /\ opened' = opened \cup {b}
  /\ queue' = [p \in Readers |-> IF Box[p] = b /\ p # s THEN Append(queue[p], w)
                                 ELSE queue[p]]

Take(p) ==
  /\ queue[p] # << >>
  /\ reg' = [reg EXCEPT ![p] = Head(queue[p])]
  /\ queue' = [queue EXCEPT ![p] = Tail(@)]
  /\ UNCHANGED opened

FindNothing(p) ==
  /\ queue[p] = << >>
  /\ reg' = [reg EXCEPT ![p] = IF Box[p] \in opened THEN Empty ELSE Missing]
  /\ UNCHANGED <<queue, opened>>

Next ==
  \/ \E s \in Readers, b \in Boxes, w \in Words : Send(s, b, w)
  \/ \E p \in Readers : Take(p) \/ FindNothing(p)

Spec == Init /\ [][Next]_vars /\ \A p \in Readers : WF_vars(Take(p))
=============================================================================
