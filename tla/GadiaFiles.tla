----------------------------- MODULE GadiaFiles -----------------------------
(***************************************************************************)
(* The files of the shared memory and the two pseudo-instructions on them, *)
(* gadia_call and gadia_receive, as operators.                             *)
(*                                                                         *)
(* A line is "tick src target data".  Positions are byte offsets in the    *)
(* code; here the tick takes TickWidth characters and each other token     *)
(* one, which keeps every way a position can cut a line: inside the tick,  *)
(* or before the source, the target or the data.                           *)
(***************************************************************************)
EXTENDS Integers, Sequences

CONSTANTS
  Numbers,    \* every (int) chiplet number a program passes
  IntSize,    \* 2^32: number of values of an int
  WordSize,   \* 2^64: number of values of a uint64_t
  Junk        \* the values an uninitialised int may hold

ASSUME SizesAssumption ==
  /\ Numbers \subseteq Int
  /\ IntSize \in Nat \ {0}
  /\ WordSize \in Nat \ {0}
  /\ WordSize % IntSize = 0
  /\ Junk \subseteq Int

----------------------------------------------------------------------------
(* Conversions *)

\* (int) of a uint64_t: the low bits, read as a signed number.
ToInt(x) ==
  LET r == x % IntSize
  IN  IF 2 * r >= IntSize THEN r - IntSize ELSE r

\* Mutants: no conversion at all; zero extension.
MutToWordNone(x) == x
MutToWordZero(x) == x % IntSize

\* (uint64_t) of an int: sign extension.
ToWord(x) == x % WordSize

\* Chiplet numbers are ints: a register holds them without loss.
ASSUME NumbersFit == \A n \in Numbers : ToInt(ToWord(n)) = n

\* The last character of "communication" + (n + '0'): an int narrowed to char.
Name(n) == (n + 48) % 256

Slash == 47

\* "communication/" names a directory: neither stream ever opens it.
FileNames == {Name(n) : n \in Numbers} \ {Slash}

----------------------------------------------------------------------------
(* The files *)

\* The offset after the last character of a file.
Size(f) == IF Len(f) = 0 THEN 0 ELSE f[Len(f)].end

LineAt(at, width, src, dst, data) ==
  [at |-> at, width |-> width, end |-> at + width + 3,
   src |-> src, dst |-> dst, data |-> data]

Lines == [at : Nat, width : Nat, end : Nat, src : Int, dst : Int, data : Int]

\* The files after gadia_call(src, target, data, init) at a tick of `width'
\* digits.  Only init = 0 writes; the other branch builds a name and opens
\* nothing, and so does a target whose file cannot be opened.
AfterCall(fs, width, src, target, data, init) ==
  LET n == Name(ToInt(target))
      f == fs[n]
      l == LineAt(Size(f), width, ToInt(src), ToInt(target), ToInt(data))
  IN  IF init = 0 /\ n # Slash THEN [fs EXCEPT ![n] = Append(f, l)] ELSE fs

----------------------------------------------------------------------------
(* Scanning a file *)

\* What `ss >> time >> a >> b >> c' may store when the first `cut' characters
\* of the line lie before the read position.  A token that is missing leaves
\* its variable uninitialised.
Fields(l, cut) ==
  IF cut < l.width          THEN {[a |-> l.src, b |-> l.dst, c |-> l.data]}
  ELSE IF cut = l.width     THEN [a : {l.dst}, b : {l.data}, c : Junk]
  ELSE IF cut = l.width + 1 THEN [a : {l.data}, b : Junk, c : Junk]
  ELSE [a : Junk, b : Junk, c : Junk]

Parsed(f, q, i) == Fields(f[i], q - f[i].at)

Matches(n, m) == n = m.b \/ (m.b = -1 /\ m.a # n)

\* What a scan reads from a line none of which lies before its position.
Whole(l) == [a |-> l.src, b |-> l.dst, c |-> l.data]

\* The lines of f a scan for n stops at when it reads them whole.
Addressed(f, n) == {i \in DOMAIN f : Matches(n, Whole(f[i]))}

\* The lines getline still returns after seekg(q).  Mutant: never the last one.
MutAhead(f, q) == {i \in DOMAIN f : f[i].end > q /\ i < Len(f)}
Ahead(f, q) == {i \in DOMAIN f : f[i].end > q}

MayPass(f, q, n, i) == \E m \in Parsed(f, q, i) : ~Matches(n, m)

\* The loop may reach line i having passed every line before it.
Reaches(f, q, n, i) ==
  /\ i \in Ahead(f, q)
  /\ \A j \in Ahead(f, q) : j < i => MayPass(f, q, n, j)

\* The loop may stop at line i, having read the fields m from it.
Hits(f, q, n, i) == {m \in Parsed(f, q, i) : Reaches(f, q, n, i) /\ Matches(n, m)}

\* Mutant: the position is not advanced.
MutFoundStays(f, q, n) ==
  UNION {{[line |-> i, ret |-> ToWord(m.c), pos |-> q] :
            m \in Hits(f, q, n, i)} : i \in DOMAIN f}

Found(f, q, n) ==
  UNION {{[line |-> i, ret |-> ToWord(m.c), pos |-> f[i].end] :
            m \in Hits(f, q, n, i)} : i \in DOMAIN f}

NotFound(f, q, n) ==
  {r \in {[line |-> 0, ret |-> ToWord(-1), pos |-> q]} :
     \A i \in Ahead(f, q) : MayPass(f, q, n, i)}

\* The possible results of gadia_receive(number) from position q.
Results(fs, q, number) ==
  LET n == ToInt(number)
      f == fs[Name(n)]
  IN  IF Name(n) = Slash \/ Len(f) = 0
      THEN {[line |-> 0, ret |-> ToWord(-3), pos |-> q]}
      ELSE Found(f, q, n) \cup NotFound(f, q, n)
=============================================================================
