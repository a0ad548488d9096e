---------------------------- MODULE GadiaMailbox ----------------------------
(* The shared memory implements a mailbox per chiplet, when each chiplet    *)
(* polls one number, and not one it sends to.                               *)
EXTENDS GadiaComm

ASSUME OneNumberEach == \A p \in Chiplets : \E n \in Numbers : Reads[p] = {n}
ASSUME OthersOnly == NoOwnLines

TheNumber(p) == CHOOSE n \in Numbers : Reads[p] = {n}

\* The words of the lines p has still to read, oldest first: the lines after
\* its position that others have sent to its number.
Unread(p) ==
  LET n == TheNumber(p)
      f == files[Name(n)]
      ahead == SelectSeq(f, LAMBDA l : l.end > pos[p] /\ l.src # p /\ Matches(n, Whole(l)))
  IN  [k \in DOMAIN ahead |-> ToWord(ahead[k].data)]

\* The numbers whose file exists.
Opened == {n \in Numbers : Name(n) # Slash /\ Len(files[Name(n)]) > 0}

\* The manual, sections 1.3.1.1 and 2.5.2, promises (uint64_t)-1 whenever nothing
\* is found; the code returns -3 as long as the file does not exist.
Promise == INSTANCE Mailbox WITH
  Readers <- Chiplets,
  Boxes   <- Numbers,
  Box     <- [p \in Chiplets |-> TheNumber(p)],
  Words   <- Data,
  Empty   <- ToWord(-1),
  Missing <- ToWord(-3),
  queue   <- [p \in Chiplets |-> Unread(p)],
  opened  <- Opened,
  reg     <- reg

\* gadia_call and gadia_receive on text files with a byte position behave as a
\* first-in first-out box of words per chiplet: every step of theirs is a step
\* of the mailbox, -3 is returned exactly until the first word is sent and -1
\* only when nothing is unread, and a word in the box is eventually taken by a
\* polling chiplet.
ImplementsMailbox == Promise!Spec
=============================================================================
