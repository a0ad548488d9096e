-------------------------- MODULE GadiaFilesProofs --------------------------
(***************************************************************************)
(* Facts about the files of the shared memory: a scan that starts at the   *)
(* boundary of a line reads whole lines and ends at a boundary, and an     *)
(* appended line disturbs no position.                                     *)
(***************************************************************************)
EXTENDS GadiaFiles, TLAPS

\* The lines of a file lie one after the other.
FileOK(f) ==
  \A i \in DOMAIN f :
    /\ f[i].width > 0
    /\ f[i].end = f[i].at + f[i].width + 3
    /\ \A j \in DOMAIN f : i < j => f[i].end <= f[j].at

\* Position q is the boundary between two lines of f.
AtBoundary(f, q) ==
  /\ q <= Size(f)
  /\ \A i \in DOMAIN f : f[i].end <= q \/ q <= f[i].at

----------------------------------------------------------------------------
(* Division and the casts *)

\* A positive multiple is at least as large.
LEMMA Multiple ==
  ASSUME NEW c \in Int, NEW m \in Nat, c >= 1
  PROVE  c * m >= m
  OBVIOUS

\* Quotient and remainder.
LEMMA Division ==
  ASSUME NEW a \in Int, NEW m \in Nat \ {0}
  PROVE  /\ a = (a \div m) * m + (a % m)
         /\ a % m \in 0 .. m - 1
         /\ a \div m \in Int
  OBVIOUS

\* They are the only ones.
LEMMA DivisionUnique ==
  ASSUME NEW m \in Nat \ {0}, NEW c \in Int, NEW r \in 0 .. m - 1
  PROVE  (c * m + r) % m = r /\ (c * m + r) \div m = c
<1>1. ASSUME NEW d \in Int, NEW s \in 0 .. m - 1, c * m + r = d * m + s
      PROVE  c = d /\ r = s
  <2>1. (c - d) * m = s - r /\ (d - c) * m = r - s
    BY <1>1
  <2>2. c - d >= 1 => (c - d) * m >= m
    BY Multiple
  <2>3. d - c >= 1 => (d - c) * m >= m
    BY Multiple
  <2> QED
    BY <2>1, <2>2, <2>3, <1>1
<1> QED
  BY <1>1, Division

\* A multiple of the divisor does not change the remainder.
LEMMA RemainderShift ==
  ASSUME NEW m \in Nat \ {0}, NEW c \in Int, NEW x \in Int
  PROVE  (c * m + x) % m = x % m
<1>1. PICK d \in Int : d = x \div m
  BY Division
<1>2. PICK r \in 0 .. m - 1 : r = x % m
  BY Division
<1>3. x = d * m + r
  BY <1>1, <1>2, Division
<1>4. c * m + x = (c + d) * m + r
  BY <1>3
<1>5. ((c + d) * m + r) % m = r
  BY DivisionUnique
<1> QED
  BY <1>2, <1>4, <1>5

\* The values of an int.
IsInt(x) == -IntSize <= 2 * x /\ 2 * x < IntSize

\* (int) yields an int.
LEMMA CastToInt ==
  ASSUME NEW x \in Int
  PROVE  ToInt(x) \in Int /\ IsInt(ToInt(x))
<1>1. x % IntSize \in 0 .. IntSize - 1
  BY SizesAssumption, Division
<1> QED
  BY <1>1, SizesAssumption DEF ToInt, IsInt

\* An int survives the cast to a register and back.
LEMMA CastBack ==
  ASSUME NEW x \in Int, IsInt(x)
  PROVE  ToInt(ToWord(x)) = x
<1>1. /\ IntSize \in Nat \ {0} /\ WordSize \in Nat \ {0}
      /\ WordSize % IntSize = 0
  BY SizesAssumption
<1>2. PICK k \in Int : WordSize = k * IntSize
  <2>1. WordSize \in Int
    BY <1>1
  <2>2. /\ WordSize = (WordSize \div IntSize) * IntSize + (WordSize % IntSize)
        /\ WordSize \div IntSize \in Int
    BY <1>1, <2>1, Division
  <2>3. WordSize = (WordSize \div IntSize) * IntSize
    BY <1>1, <2>2
  <2> QED
    BY <2>2, <2>3
<1>3. PICK w \in Int : w = ToWord(x)
  <2>1. x % WordSize \in 0 .. WordSize - 1
    BY <1>1, Division
  <2> QED
    BY <2>1 DEF ToWord
<1>4. PICK d \in Int : x = d * WordSize + w
  <2>1. x = (x \div WordSize) * WordSize + (x % WordSize) /\ x \div WordSize \in Int
    BY <1>1, Division
  <2> QED
    BY <1>3, <2>1 DEF ToWord
<1>5. w % IntSize = x % IntSize
  <2>1. d * WordSize = (d * k) * IntSize
    BY <1>1, <1>2
  <2>2. d * k \in Int
    OBVIOUS
  <2>3. ((d * k) * IntSize + w) % IntSize = w % IntSize
    BY <1>1, <2>2, RemainderShift, Zenon
  <2> QED
    BY <1>4, <2>1, <2>3
<1>6. x % IntSize = IF x >= 0 THEN x ELSE x + IntSize
  <2>1. CASE x >= 0
    <3>1. x \in 0 .. IntSize - 1 /\ x = 0 * IntSize + x
      BY <1>1, <2>1 DEF IsInt
    <3> QED
      BY <1>1, <2>1, <3>1, DivisionUnique
  <2>2. CASE x < 0
    <3>1. x + IntSize \in 0 .. IntSize - 1 /\ x = (-1) * IntSize + (x + IntSize)
      BY <1>1, <2>2 DEF IsInt
    <3>2. ((-1) * IntSize + (x + IntSize)) % IntSize = x + IntSize
      BY <1>1, <3>1, DivisionUnique
    <3> QED
      BY <2>2, <3>1, <3>2
  <2> QED
    BY <2>1, <2>2
<1> QED
  BY <1>1, <1>3, <1>5, <1>6 DEF ToInt, IsInt

\* The casts stay within their types.
LEMMA Casts ==
  \A x \in Int : ToInt(x) \in Int /\ ToWord(x) \in Nat
  BY SizesAssumption DEF ToInt, ToWord

\* The elements and positions of a sequence.
LEMMA SeqElements ==
  ASSUME NEW S, NEW s \in Seq(S), NEW j \in DOMAIN s
  PROVE  s[j] \in S /\ j \in Nat
  OBVIOUS

\* The fields of a line are numbers.
LEMMA LineFields ==
  \A l \in Lines : /\ l.at \in Nat /\ l.width \in Nat /\ l.end \in Nat
                   /\ l.src \in Int /\ l.dst \in Int /\ l.data \in Int
  BY DEF Lines

\* The size of a file is a number, and that of the last line's end.
LEMMA SizeIsEnd ==
  ASSUME NEW f \in Seq(Lines)
  PROVE  /\ Size(f) \in Nat
         /\ Len(f) # 0 => Len(f) \in DOMAIN f /\ Size(f) = f[Len(f)].end
<1>1. CASE Len(f) = 0
  BY <1>1 DEF Size
<1>2. CASE Len(f) # 0
  <2>1. Len(f) \in DOMAIN f
    BY <1>2
  <2>2. f[Len(f)] \in Lines
    BY <2>1
  <2> QED
    BY <1>2, <2>1, <2>2, LineFields DEF Size
<1> QED
  BY <1>1, <1>2

\* Later lines end later.
LEMMA LineOrder ==
  ASSUME NEW f \in Seq(Lines), FileOK(f), NEW i \in DOMAIN f, NEW j \in DOMAIN f
  PROVE  /\ f[i].at < f[i].end
         /\ i < j => f[i].end <= f[j].at /\ f[i].end < f[j].end
         /\ f[i].end <= f[j].end => i <= j
<1>1. i \in Nat /\ j \in Nat /\ f[i] \in Lines /\ f[j] \in Lines
  OBVIOUS
<1>2. /\ f[i].width > 0 /\ f[i].end = f[i].at + f[i].width + 3
      /\ f[j].width > 0 /\ f[j].end = f[j].at + f[j].width + 3
      /\ i < j => f[i].end <= f[j].at
      /\ j < i => f[j].end <= f[i].at
  BY DEF FileOK
<1>3. /\ f[i].at \in Nat /\ f[i].width \in Nat /\ f[i].end \in Nat
      /\ f[j].at \in Nat /\ f[j].width \in Nat /\ f[j].end \in Nat
  BY <1>1, LineFields
<1>4. ASSUME NEW ai \in Nat, NEW wi \in Nat, NEW ei \in Nat,
             NEW aj \in Nat, NEW wj \in Nat, NEW ej \in Nat,
             wi > 0, ei = ai + wi + 3, wj > 0, ej = aj + wj + 3,
             i < j => ei <= aj, j < i => ej <= ai
      PROVE  /\ ai < ei
             /\ i < j => ei <= aj /\ ei < ej
             /\ ei <= ej => i <= j
  BY <1>1, <1>4
<1> QED
  BY <1>2, <1>3, <1>4

\* A line that ends at or before q precedes one that ends after q.
LEMMA LineBefore ==
  ASSUME NEW f \in Seq(Lines), FileOK(f), NEW i \in DOMAIN f, NEW j \in DOMAIN f,
         NEW q \in Nat, f[i].end <= q, q < f[j].end
  PROVE  i < j /\ f[i].end <= f[j].end
<1>1. i \in Nat /\ j \in Nat /\ f[i].end \in Nat /\ f[j].end \in Nat
  BY SeqElements, LineFields
<1>2. j < i => f[j].end < f[i].end
  BY LineOrder
<1>3. ASSUME NEW x \in Nat, NEW y \in Nat, x <= q, q < y, j < i => y < x, i = j => x = y
      PROVE  i < j /\ x <= y
  BY <1>1, <1>3
<1> QED
  BY <1>1, <1>2, <1>3

----------------------------------------------------------------------------
(* A scan from a line boundary *)

\* From a line boundary every line ahead is read whole.
LEMMA ReadWhole ==
  ASSUME NEW f \in Seq(Lines), FileOK(f), NEW q \in Nat, AtBoundary(f, q),
         NEW i \in Ahead(f, q)
  PROVE  Parsed(f, q, i) = {Whole(f[i])}
<1>1. i \in DOMAIN f /\ f[i] \in Lines /\ f[i].end > q
  BY DEF Ahead
<1>2. q - f[i].at < f[i].width
  <2>1. f[i].at \in Nat /\ f[i].width \in Nat /\ f[i].end \in Nat
    BY <1>1 DEF Lines
  <2>2. q <= f[i].at /\ f[i].width > 0
    BY <1>1, <2>1 DEF AtBoundary, FileOK
  <2> QED
    BY <2>1, <2>2
<1>3. Fields(f[i], q - f[i].at) = {Whole(f[i])}
  BY <1>1, <1>2 DEF Fields, Whole, Lines
<1> QED
  BY <1>3 DEF Parsed

\* What a scan that finds a line returns.
LEMMA FoundLine ==
  ASSUME NEW f \in Seq(Lines), FileOK(f), NEW q \in Nat, AtBoundary(f, q),
         NEW n \in Int, NEW r \in Found(f, q, n)
  PROVE  /\ r.line \in Addressed(f, n)
         /\ f[r.line].end > q
         /\ r.ret = ToWord(f[r.line].data)
         /\ r.pos = f[r.line].end
         /\ \A i \in Addressed(f, n) : i < r.line => f[i].end <= q
<1>1. PICK i \in DOMAIN f : \E m \in Hits(f, q, n, i) :
               r = [line |-> i, ret |-> ToWord(m.c), pos |-> f[i].end]
  BY DEF Found
<1>2. PICK m \in Hits(f, q, n, i) :
               r = [line |-> i, ret |-> ToWord(m.c), pos |-> f[i].end]
  BY <1>1
<1>3. m \in Parsed(f, q, i) /\ Reaches(f, q, n, i) /\ Matches(n, m)
  BY <1>2 DEF Hits
<1>4. i \in Ahead(f, q) /\ \A j \in Ahead(f, q) : j < i => MayPass(f, q, n, j)
  BY <1>3 DEF Reaches
<1>5. m = Whole(f[i])
  BY <1>3, <1>4, ReadWhole
<1>6. r.line = i /\ r.ret = ToWord(f[i].data) /\ r.pos = f[i].end
  BY <1>2, <1>5 DEF Whole
<1>7. i \in Addressed(f, n) /\ f[i].end > q
  BY <1>3, <1>4, <1>5 DEF Addressed, Ahead
<1>8. ASSUME NEW j \in Addressed(f, n), j < i PROVE f[j].end <= q
  <2>1. j \in DOMAIN f /\ Matches(n, Whole(f[j])) /\ f[j] \in Lines
    BY DEF Addressed
  <2>2. SUFFICES ASSUME j \in Ahead(f, q) PROVE FALSE
    BY <2>1 DEF Ahead, Lines
  <2>3. \E x \in Parsed(f, q, j) : ~Matches(n, x)
    BY <1>4, <1>8, <2>2 DEF MayPass
  <2> QED
    BY <2>1, <2>2, <2>3, ReadWhole
<1> QED
  BY <1>6, <1>7, <1>8

----------------------------------------------------------------------------
(* Appending a line *)

\* A line appended at the end keeps the lines of a file one after the other.
LEMMA AppendKeepsFileOK ==
  ASSUME NEW f \in Seq(Lines), FileOK(f), NEW w \in Nat \ {0},
         NEW s \in Int, NEW t \in Int, NEW d \in Int
  PROVE  LET l == LineAt(Size(f), w, s, t, d)
         IN  /\ Append(f, l) \in Seq(Lines)
             /\ FileOK(Append(f, l))
             /\ \A i \in DOMAIN f : f[i].end <= Size(f)
<1> DEFINE l == LineAt(Size(f), w, s, t, d)
           g == Append(f, l)
<1>1. Size(f) \in Nat
  BY SizeIsEnd
<1>2. l \in Lines /\ l.at = Size(f) /\ l.width = w /\ l.end = Size(f) + w + 3
  BY <1>1 DEF LineAt, Lines
<1> HIDE DEF l
<1>3. /\ g \in Seq(Lines)
      /\ DOMAIN g = 1..(Len(f) + 1)
      /\ DOMAIN f = 1..Len(f)
      /\ Len(f) \in Nat
      /\ \A i \in DOMAIN f : g[i] = f[i] /\ f[i] \in Lines
      /\ g[Len(f) + 1] = l
  BY <1>2
<1> HIDE DEF g
<1>4. ASSUME NEW i \in DOMAIN f PROVE f[i].end <= Size(f)
  <2>1. i = Len(f) \/ i < Len(f)
    BY <1>3
  <2>2. CASE i = Len(f)
    BY <2>2, <1>3, SizeIsEnd, LineFields
  <2>3. CASE i < Len(f)
    <3>1. Len(f) \in DOMAIN f /\ Len(f) # 0
      BY <1>3, <2>3
    <3>2. f[i].end <= f[Len(f)].at /\ f[Len(f)].end = f[Len(f)].at + f[Len(f)].width + 3
      BY <3>1, <2>3 DEF FileOK
    <3> QED
      BY <3>1, <3>2, <1>3, SizeIsEnd, LineFields
  <2> QED
    BY <2>1, <2>2, <2>3
<1>5. FileOK(g)
  <2>1. SUFFICES ASSUME NEW i \in DOMAIN g
                 PROVE  /\ g[i].width > 0
                        /\ g[i].end = g[i].at + g[i].width + 3
                        /\ \A j \in DOMAIN g : i < j => g[i].end <= g[j].at
    BY DEF FileOK
  <2>2. CASE i = Len(f) + 1
    BY <1>2, <1>3, <2>2
  <2>3. CASE i \in DOMAIN f
    <3>1. f[i].width > 0 /\ f[i].end = f[i].at + f[i].width + 3
      BY <2>3 DEF FileOK
    <3>2. ASSUME NEW j \in DOMAIN g, i < j PROVE g[i].end <= g[j].at
      <4>1. CASE j \in DOMAIN f
        BY <3>2, <4>1, <2>3, <1>3 DEF FileOK
      <4>2. CASE j = Len(f) + 1
        BY <4>2, <2>3, <1>2, <1>3, <1>4
      <4> QED
        BY <4>1, <4>2, <1>3
    <3> QED
      BY <3>1, <3>2, <2>3, <1>3
  <2> QED
    BY <2>1, <2>2, <2>3, <1>3
<1> QED
  BY <1>3, <1>4, <1>5 DEF g, l

\* The elements of a sequence with one more.
LEMMA Appended ==
  ASSUME NEW S, NEW f \in Seq(S), NEW l \in S, NEW g, g = Append(f, l)
  PROVE  /\ g \in Seq(S)
         /\ DOMAIN f = 1 .. Len(f)
         /\ Len(f) \in Nat
         /\ Len(g) = Len(f) + 1
         /\ DOMAIN g = 1 .. (Len(f) + 1)
         /\ \A i \in DOMAIN f : g[i] = f[i]
         /\ g[Len(f) + 1] = l
  OBVIOUS

\* A line appended at the end keeps every boundary and every line before it.
LEMMA AppendKeepsBoundary ==
  ASSUME NEW f \in Seq(Lines), NEW l \in Lines, l.at = Size(f), l.end > Size(f),
         NEW q \in Nat, AtBoundary(f, q)
  PROVE  /\ AtBoundary(Append(f, l), q)
         /\ ~(l.end <= q)
<1> DEFINE g == Append(f, l)
<1>1. Size(f) \in Nat
  BY SizeIsEnd
<1>2. l.end \in Nat
  BY LineFields
<1>3. /\ g \in Seq(Lines)
      /\ Len(g) = Len(f) + 1
      /\ DOMAIN g = 1..(Len(f) + 1)
      /\ DOMAIN f = 1..Len(f)
      /\ Len(f) \in Nat
      /\ \A i \in DOMAIN f : g[i] = f[i] /\ f[i] \in Lines
      /\ g[Len(f) + 1] = l
  OBVIOUS
<1> HIDE DEF g
<1>4. Size(g) = l.end
  BY <1>3 DEF Size
<1>5. AtBoundary(g, q)
  <2>1. q <= Size(f) /\ \A i \in DOMAIN f : f[i].end <= q \/ q <= f[i].at
    BY DEF AtBoundary
  <2>2. q <= Size(g)
    BY <2>1, <1>1, <1>2, <1>4
  <2>3. ASSUME NEW i \in DOMAIN g PROVE g[i].end <= q \/ q <= g[i].at
    <3>1. CASE i \in DOMAIN f
      BY <3>1, <2>1, <1>3
    <3>2. CASE i = Len(f) + 1
      BY <3>2, <2>1, <1>2, <1>3
    <3> QED
      BY <3>1, <3>2, <1>3
  <2> QED
    BY <2>2, <2>3 DEF AtBoundary
<1>6. ~(l.end <= q)
  BY <1>1, <1>2 DEF AtBoundary
<1> QED
  BY <1>5, <1>6 DEF g

\* A scan that finds a line leaves the position at the end of that line.
LEMMA FoundBoundary ==
  ASSUME NEW f \in Seq(Lines), FileOK(f), NEW q \in Nat, AtBoundary(f, q),
         NEW n \in Int, NEW r \in Found(f, q, n)
  PROVE  AtBoundary(f, r.pos)
<1> DEFINE h == r.line
<1>1. /\ h \in Addressed(f, n)
      /\ f[h].end > q
      /\ r.ret = ToWord(f[h].data)
      /\ r.pos = f[h].end
      /\ \A i \in Addressed(f, n) : i < h => f[i].end <= q
  BY FoundLine
<1>2. h \in DOMAIN f /\ DOMAIN f = 1..Len(f) /\ Len(f) \in Nat
  BY <1>1 DEF Addressed
<1>3. \A i \in DOMAIN f : f[i].at \in Nat /\ f[i].width \in Nat /\ f[i].end \in Nat
  BY LineFields
<1>4. \A i \in DOMAIN f :
        /\ f[i].at < f[i].end
        /\ i < h => f[i].end <= f[h].at
        /\ h < i => f[h].end <= f[i].at
  <2>1. ASSUME NEW i \in DOMAIN f PROVE f[i].at < f[i].end
    <3>1. f[i].width > 0 /\ f[i].end = f[i].at + f[i].width + 3
      BY DEF FileOK
    <3> QED
      BY <3>1, <1>3
  <2> QED
    BY <2>1, <1>2 DEF FileOK
<1> HIDE DEF h
<1>5. AtBoundary(f, r.pos)
  <2>1. r.pos <= Size(f)
    <3>1. Len(f) # 0 /\ Len(f) \in DOMAIN f /\ Size(f) = f[Len(f)].end
      BY <1>2, SizeIsEnd
    <3>2. CASE h = Len(f)
      BY <3>1, <3>2, <1>1, <1>3
    <3>3. CASE h < Len(f)
      <4>1. f[h].end <= f[Len(f)].at /\ f[Len(f)].at < f[Len(f)].end
        BY <3>1, <3>3, <1>4
      <4>2. f[h].end \in Nat /\ f[Len(f)].at \in Nat /\ f[Len(f)].end \in Nat
        BY <3>1, <1>2, <1>3
      <4> QED
        BY <4>1, <4>2, <3>1, <1>1
    <3> QED
      BY <3>2, <3>3, <1>2
  <2>2. ASSUME NEW i \in DOMAIN f PROVE f[i].end <= r.pos \/ r.pos <= f[i].at
    <3>1. f[i].end \in Nat /\ f[h].at \in Nat /\ f[h].end \in Nat /\ f[h].at < f[h].end
      BY <1>2, <1>3, <1>4
    <3>2. CASE i < h
      BY <3>1, <3>2, <1>1, <1>4
    <3>3. CASE i = h
      BY <3>1, <3>3, <1>1
    <3>4. CASE h < i
      BY <3>4, <1>1, <1>4
    <3> QED
      BY <3>2, <3>3, <3>4, <1>2
  <2> QED
    BY <2>1, <2>2 DEF AtBoundary
<1> QED
  BY <1>5

=============================================================================
