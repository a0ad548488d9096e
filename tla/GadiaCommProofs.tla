-------------------------- MODULE GadiaCommProofs --------------------------
(***************************************************************************)
(* gadia_receive returns the oldest unread line, for any number of         *)
(* processes, lines and values, when each process reads one number and     *)
(* does not send to it.                                                    *)
(***************************************************************************)
EXTENDS GadiaComm, GadiaFilesProofs

\* Each process passes one number to gadia_receive.
OneFile == \A p \in Chiplets : \A m, n \in Reads[p] : m = n

\* The receives in b took, in order, the lines of f addressed to n before q.
Consumed(b, f, q, n) ==
  /\ \A k \in DOMAIN b :
       /\ b[k].line \in Addressed(f, n)
       /\ b[k].ret = ToWord(f[b[k].line].data)
       /\ f[b[k].line].end <= q
       /\ \A j \in DOMAIN b : j < k => b[j].line < b[k].line
  /\ \A i \in Addressed(f, n) :
       f[i].end <= q => \E k \in DOMAIN b : b[k].line = i

FilesOK == \A x \in FileNames : FileOK(files[x])

ReaderOK(p, n) ==
  IF Name(n) = Slash THEN inbox[p] = << >>
  ELSE /\ AtBoundary(files[Name(n)], pos[p])
       /\ Consumed(inbox[p], files[Name(n)], pos[p], n)

InboxSource ==
  \A p \in Chiplets : \A k \in DOMAIN inbox[p] : inbox[p][k].from \in Reads[p]

IInv ==
  /\ TypeOK
  /\ FilesOK
  /\ InboxSource
  /\ \A p \in Chiplets : \A n \in Reads[p] : ReaderOK(p, n)

\* A line appended at the end disturbs no reader of the file.
LEMMA AppendKeepsReader ==
  ASSUME NEW f \in Seq(Lines), FileOK(f), NEW w \in Nat \ {0},
         NEW s \in Int, NEW t \in Int, NEW d \in Int,
         NEW q \in Nat, AtBoundary(f, q), NEW n \in Int,
         NEW b \in Seq(Receipts), Consumed(b, f, q, n)
  PROVE  LET g == Append(f, LineAt(Size(f), w, s, t, d))
         IN  AtBoundary(g, q) /\ Consumed(b, g, q, n)
<1> DEFINE l == LineAt(Size(f), w, s, t, d)
           g == Append(f, l)
<1>0. l = LineAt(Size(f), w, s, t, d)
  OBVIOUS
<1> HIDE DEF l
<1>1. l \in Lines /\ l.at = Size(f) /\ l.end > Size(f)
  BY <1>0, SizeIsEnd DEF LineAt, Lines
<1>2. AtBoundary(g, q) /\ ~(l.end <= q)
  BY <1>1, AppendKeepsBoundary
<1>3. /\ DOMAIN g = 1..(Len(f) + 1)
      /\ DOMAIN f = 1..Len(f)
      /\ Len(f) \in Nat
      /\ \A i \in DOMAIN f : g[i] = f[i]
      /\ g[Len(f) + 1] = l
  BY <1>1, Appended
<1> HIDE DEF g
<1>6. \A i \in DOMAIN f : i \in Addressed(g, n) <=> i \in Addressed(f, n)
  BY <1>3 DEF Addressed
<1>8. ASSUME NEW k \in DOMAIN b
      PROVE  /\ b[k].line \in Addressed(g, n)
             /\ b[k].ret = ToWord(g[b[k].line].data)
             /\ g[b[k].line].end <= q
             /\ \A j \in DOMAIN b : j < k => b[j].line < b[k].line
  <2>1. b[k].line \in DOMAIN f
    BY DEF Consumed, Addressed
  <2> QED
    BY <2>1, <1>3, <1>6 DEF Consumed
<1>9. ASSUME NEW i \in Addressed(g, n), g[i].end <= q
      PROVE  \E k \in DOMAIN b : b[k].line = i
  <2>1. i \in DOMAIN f
    BY <1>2, <1>3, <1>9 DEF Addressed
  <2> QED
    BY <2>1, <1>3, <1>6, <1>9 DEF Consumed
<1> QED
  BY <1>2, <1>8, <1>9, Zenon DEF Consumed, g, l

----------------------------------------------------------------------------
(* The steps *)

\* A step that leaves a reader's file, position and history alone keeps it.
LEMMA ReaderFrame ==
  ASSUME NEW r, NEW n, ReaderOK(r, n), files'[Name(n)] = files[Name(n)],
         pos'[r] = pos[r], inbox'[r] = inbox[r]
  PROVE  ReaderOK(r, n)'
<1>1. CASE Name(n) = Slash
  BY <1>1 DEF ReaderOK
<1>2. CASE Name(n) # Slash
  <2>1. AtBoundary(files[Name(n)], pos[r]) /\ Consumed(inbox[r], files[Name(n)], pos[r], n)
    BY <1>2 DEF ReaderOK
  <2>2. AtBoundary(files'[Name(n)], pos'[r])
        /\ Consumed(inbox'[r], files'[Name(n)], pos'[r], n)
    BY <2>1
  <2> QED
    BY <2>2, <1>2 DEF ReaderOK, AtBoundary, Consumed, Size, Addressed
<1> QED
  BY <1>1, <1>2

\* What a gadia_call does to the files.
LEMMA CallEffect ==
  ASSUME TypeOK, NEW p \in Chiplets, NEW t \in Numbers, NEW d \in Data,
         NEW i \in {0, 1}, gadia_call(p, t, d, i)
  PROVE  \/ files' = files
         \/ /\ Name(t) \in FileNames
            /\ files' = [files EXCEPT ![Name(t)] =
                 Append(files[Name(t)],
                        LineAt(Size(files[Name(t)]), TickWidth[p], p, t, ToInt(d)))]
<1>1. ToInt(ToWord(t)) = t /\ ToInt(ToWord(p)) = p
  BY SizesAssumption, NumbersAssumption, NumbersFit
<1>2. files' = AfterCall(files, TickWidth[p], ToWord(p), ToWord(t), d, i)
  BY DEF gadia_call
<1>3. CASE i = 0 /\ Name(t) # Slash
  <2>1. Name(t) \in FileNames
    BY <1>3 DEF FileNames
  <2> QED
    BY <2>1, <1>1, <1>2, <1>3 DEF AfterCall
<1>4. CASE ~(i = 0 /\ Name(t) # Slash)
  BY <1>1, <1>2, <1>4 DEF AfterCall
<1> QED
  BY <1>3, <1>4

\* The results a receive may have.
LEMMA ReceiveResult ==
  ASSUME IInv, NEW p \in Chiplets, NEW n \in Reads[p],
         NEW r \in Results(files, pos[p], ToWord(n))
  PROVE  \/ r.line = 0 /\ r.pos = pos[p] /\ r.ret \in Nat
         \/ Name(n) \in FileNames /\ r \in Found(files[Name(n)], pos[p], n)
<1>1. n \in Numbers /\ ToInt(ToWord(n)) = n
  BY SizesAssumption, NumbersAssumption, NumbersFit
<1>2. ToWord(-3) \in Nat /\ ToWord(-1) \in Nat
  BY Casts
<1>3. CASE Name(n) = Slash \/ Len(files[Name(n)]) = 0
  BY <1>1, <1>2, <1>3 DEF Results
<1>4. CASE ~(Name(n) = Slash \/ Len(files[Name(n)]) = 0)
  <2>1. Name(n) \in FileNames
    BY <1>1, <1>4 DEF FileNames
  <2>2. r \in Found(files[Name(n)], pos[p], n) \cup NotFound(files[Name(n)], pos[p], n)
    BY <1>1, <1>4 DEF Results
  <2>3. r \in NotFound(files[Name(n)], pos[p], n)
          => r = [line |-> 0, ret |-> ToWord(-1), pos |-> pos[p]]
    BY DEF NotFound
  <2> QED
    BY <2>1, <2>2, <2>3, <1>2
<1> QED
  BY <1>3, <1>4

\* The initial state satisfies the invariant.
LEMMA InitIInv == Init => IInv
<1> SUFFICES ASSUME Init PROVE IInv
  OBVIOUS
<1>1. TypeOK
  BY DEF Init, TypeOK
<1>2. FilesOK /\ InboxSource
  BY DEF Init, FilesOK, FileOK, InboxSource
<1>3. ASSUME NEW p \in Chiplets, NEW n \in Reads[p] PROVE ReaderOK(p, n)
  <2>1. n \in Numbers
    BY SizesAssumption, NumbersAssumption
  <2>2. Name(n) # Slash => files[Name(n)] = << >>
    BY <2>1 DEF Init, FileNames
  <2>3. pos[p] = 0 /\ inbox[p] = << >>
    BY DEF Init
  <2> QED
    BY <2>2, <2>3 DEF ReaderOK, AtBoundary, Consumed, Addressed, Size
<1> QED
  BY <1>1, <1>2, <1>3 DEF IInv

\* A gadia_call preserves the invariant.
LEMMA CallIInv ==
  ASSUME IInv, NEW p \in Chiplets, NEW t \in Numbers, NEW d \in Data,
         NEW i \in {0, 1}, gadia_call(p, t, d, i)
  PROVE  IInv'
<1> DEFINE x == Name(t)
           f == files[x]
           g == Append(f, LineAt(Size(f), TickWidth[p], p, t, ToInt(d)))
<1>1. /\ TypeOK
      /\ FilesOK
      /\ InboxSource
      /\ \A r \in Chiplets : \A n \in Reads[r] : ReaderOK(r, n)
  BY DEF IInv
<1>2. TickWidth[p] \in Nat \ {0} /\ p \in Int /\ t \in Int /\ ToInt(d) \in Int
  BY SizesAssumption, NumbersAssumption, Casts
<1>3. pos' = pos /\ reg' = reg /\ inbox' = inbox
  BY DEF gadia_call
<1>4. calls' \in Seq([src : Chiplets, dst : Numbers, data : Data, init : {0, 1}])
  BY <1>1 DEF gadia_call, TypeOK
<1>5. InboxSource'
  BY <1>1, <1>3 DEF InboxSource
<1>6. CASE files' = files
  <2>1. TypeOK'
    BY <1>1, <1>3, <1>4, <1>6 DEF TypeOK
  <2>2. FilesOK'
    BY <1>1, <1>6 DEF FilesOK, FileOK
  <2>3. ASSUME NEW r \in Chiplets, NEW n \in Reads[r] PROVE ReaderOK(r, n)'
    BY <1>1, <1>3, <1>6, ReaderFrame
  <2> QED
    BY <2>1, <2>2, <2>3, <1>5 DEF IInv
<1>7. CASE x \in FileNames /\ files' = [files EXCEPT ![x] = g]
  <2>1. f \in Seq(Lines) /\ FileOK(f)
    BY <1>1, <1>7 DEF TypeOK, FilesOK
  <2>2. g \in Seq(Lines) /\ FileOK(g)
    BY <2>1, <1>2, AppendKeepsFileOK, Zenon
  <2>3. /\ DOMAIN files = FileNames
        /\ files'[x] = g
        /\ \A y \in FileNames : y # x => files'[y] = files[y]
    BY <1>1, <1>7 DEF TypeOK
  <2> HIDE DEF g
  <2>4. TypeOK'
    <3>1. files' \in [FileNames -> Seq(Lines)]
      BY <1>1, <1>7, <2>2 DEF TypeOK
    <3> QED
      BY <3>1, <1>1, <1>3, <1>4 DEF TypeOK
  <2>5. FilesOK'
    <3>1. \A y \in FileNames : FileOK(files'[y])
      BY <2>2, <2>3, <1>1 DEF FilesOK
    <3> QED
      BY <3>1 DEF FilesOK, FileOK
  <2>6. ASSUME NEW r \in Chiplets, NEW n \in Reads[r] PROVE ReaderOK(r, n)'
    <3>1. n \in Numbers /\ n \in Int
      BY SizesAssumption, NumbersAssumption
    <3>2. CASE Name(n) = Slash
      <4>1. ReaderOK(r, n)
        BY <1>1
      <4> QED
        BY <4>1, <3>2, <1>3 DEF ReaderOK
    <3>3. CASE Name(n) # Slash /\ Name(n) # x
      <4>1. files'[Name(n)] = files[Name(n)]
        BY <3>1, <3>3, <2>3 DEF FileNames
      <4> QED
        BY <4>1, <1>1, <1>3, ReaderFrame
    <3>4. CASE Name(n) # Slash /\ Name(n) = x
      <4>1. AtBoundary(f, pos[r]) /\ Consumed(inbox[r], f, pos[r], n)
        BY <3>4, <1>1 DEF ReaderOK
      <4>2. pos[r] \in Nat /\ inbox[r] \in Seq(Receipts)
        BY <1>1 DEF TypeOK
      <4>3. AtBoundary(g, pos[r]) /\ Consumed(inbox[r], g, pos[r], n)
        BY <4>1, <4>2, <3>1, <2>1, <1>2, AppendKeepsReader DEF g
      <4> QED
        BY <4>3, <3>4, <2>3, <1>3
           DEF ReaderOK, AtBoundary, Consumed, Size, Addressed
    <3> QED
      BY <3>2, <3>3, <3>4
  <2> QED
    BY <2>4, <2>5, <2>6, <1>5 DEF IInv
<1> QED
  BY <1>1, <1>6, <1>7, CallEffect

\* The line a receive takes extends what the process consumed.
LEMMA TakeLine ==
  ASSUME NEW f \in Seq(Lines), FileOK(f), NEW q \in Nat, AtBoundary(f, q),
         NEW n \in Int,
         NEW b \in Seq(Receipts), Consumed(b, f, q, n),
         NEW r \in Found(f, q, n), NEW e \in Receipts,
         e.line = r.line, e.ret = r.ret
  PROVE  AtBoundary(f, r.pos) /\ Consumed(Append(b, e), f, r.pos, n)
<1> DEFINE h == r.line
           c == Append(b, e)
<1>1. /\ h \in Addressed(f, n)
      /\ f[h].end > q
      /\ r.ret = ToWord(f[h].data)
      /\ r.pos = f[h].end
      /\ \A i \in Addressed(f, n) : i < h => f[i].end <= q
  BY FoundLine
<1>2. h \in DOMAIN f /\ DOMAIN f = 1..Len(f) /\ Len(f) \in Nat
  BY <1>1 DEF Addressed
<1>3. \A i \in DOMAIN f : f[i].at \in Nat /\ f[i].width \in Nat /\ f[i].end \in Nat
  BY LineFields
<1>4. \A i \in DOMAIN f :
        /\ f[i].at < f[i].end
        /\ i < h => f[i].end <= f[h].at
        /\ h < i => f[h].end <= f[i].at
  <2>1. ASSUME NEW i \in DOMAIN f PROVE f[i].at < f[i].end
    <3>1. f[i].width > 0 /\ f[i].end = f[i].at + f[i].width + 3
      BY DEF FileOK
    <3> QED
      BY <3>1, <1>3
  <2> QED
    BY <2>1, <1>2 DEF FileOK
<1>5. /\ DOMAIN c = 1..(Len(b) + 1)
      /\ DOMAIN b = 1..Len(b)
      /\ Len(b) \in Nat
      /\ \A k \in DOMAIN b : c[k] = b[k]
      /\ c[Len(b) + 1] = e
  OBVIOUS
<1> HIDE DEF h, c
<1>6. AtBoundary(f, r.pos)
  BY FoundBoundary
<1>7. ASSUME NEW k \in DOMAIN b
      PROVE  /\ b[k].line \in Addressed(f, n)
             /\ b[k].ret = ToWord(f[b[k].line].data)
             /\ f[b[k].line].end <= q
             /\ b[k].line < h
             /\ \A j \in DOMAIN b : j < k => b[j].line < b[k].line
  <2>1. /\ b[k].line \in Addressed(f, n)
        /\ b[k].ret = ToWord(f[b[k].line].data)
        /\ f[b[k].line].end <= q
        /\ \A j \in DOMAIN b : j < k => b[j].line < b[k].line
    BY DEF Consumed
  <2>2. b[k].line \in DOMAIN f
    BY <2>1 DEF Addressed
  <2>3. q < f[h].end
    BY <1>1, <1>2, <1>3
  <2>4. b[k].line < h
    BY <2>1, <2>2, <2>3, <1>2, LineBefore
  <2> QED
    BY <2>1, <2>4
<1>8. ASSUME NEW k \in DOMAIN c
      PROVE  /\ c[k].line \in Addressed(f, n)
             /\ c[k].ret = ToWord(f[c[k].line].data)
             /\ f[c[k].line].end <= r.pos
             /\ \A j \in DOMAIN c : j < k => c[j].line < c[k].line
  <2>1. CASE k \in DOMAIN b
    <3>1. b[k].line \in DOMAIN f
      BY <2>1, <1>7 DEF Addressed
    <3>2. f[b[k].line].end <= r.pos
      <4>1. f[b[k].line].end <= q
        BY <2>1, <1>7
      <4>2. q < f[h].end
        BY <1>1, <1>2, <1>3
      <4> QED
        BY <4>1, <4>2, <3>1, <1>1, <1>2, LineBefore
    <3>3. \A j \in DOMAIN c : j < k => j \in DOMAIN b
      BY <2>1, <1>5
    <3> QED
      BY <3>2, <3>3, <2>1, <1>5, <1>7
  <2>2. CASE k = Len(b) + 1
    <3>1. c[k].line = h /\ c[k].ret = r.ret
      BY <2>2, <1>5 DEF h
    <3>2. \A j \in DOMAIN c : j < k => j \in DOMAIN b
      BY <2>2, <1>5
    <3>3. f[h].end <= r.pos
      BY <1>1, <1>2, <1>3
    <3> QED
      BY <3>1, <3>2, <3>3, <1>1, <1>5, <1>7
  <2> QED
    BY <2>1, <2>2, <1>5
<1>9. ASSUME NEW i \in Addressed(f, n), f[i].end <= r.pos
      PROVE  \E k \in DOMAIN c : c[k].line = i
  <2>1. i \in DOMAIN f
    BY DEF Addressed
  <2>2. i < h \/ i = h
    <3>1. /\ f[i].at \in Nat /\ f[i].end \in Nat /\ f[h].end \in Nat
          /\ f[i].at < f[i].end
      BY <2>1, <1>2, <1>3, <1>4
    <3>2. ~(h < i)
      BY <3>1, <2>1, <1>1, <1>4, <1>9
    <3> QED
      BY <3>2, <2>1, <1>2
  <2>3. CASE i = h
    BY <2>3, <1>5 DEF h
  <2>4. CASE i < h
    <3>1. f[i].end <= q
      BY <2>4, <1>1
    <3>2. PICK k \in DOMAIN b : b[k].line = i
      BY <3>1 DEF Consumed
    <3> QED
      BY <3>2, <1>5
  <2> QED
    BY <2>2, <2>3, <2>4
<1> QED
  BY <1>6, <1>8, <1>9 DEF Consumed, c

\* A gadia_receive preserves the invariant.
LEMMA ReceiveIInv ==
  ASSUME OneFile, IInv, NEW p \in Chiplets, NEW n \in Reads[p], gadia_receive(p, n)
  PROVE  IInv'
<1>1. /\ TypeOK
      /\ FilesOK
      /\ InboxSource
      /\ \A r \in Chiplets : \A m \in Reads[r] : ReaderOK(r, m)
  BY DEF IInv
<1>2. PICK r \in Results(files, pos[p], ToWord(n)) :
        /\ pos' = [pos EXCEPT ![p] = r.pos]
        /\ reg' = [reg EXCEPT ![p] = r.ret]
        /\ inbox' = IF r.line = 0 THEN inbox
                    ELSE [inbox EXCEPT ![p] =
                            Append(@, [from |-> n, line |-> r.line, ret |-> r.ret])]
        /\ UNCHANGED <<files, calls>>
  BY Zenon DEF gadia_receive
<1>3. n \in Numbers /\ n \in Int
  BY SizesAssumption, NumbersAssumption
<1>4. FilesOK'
  BY <1>1, <1>2 DEF FilesOK, FileOK
<1>5. CASE r.line = 0 /\ r.pos = pos[p] /\ r.ret \in Nat
  <2>1. pos' = pos /\ inbox' = inbox
    BY <1>1, <1>2, <1>5 DEF TypeOK
  <2>2. TypeOK'
    <3>1. reg' \in [Chiplets -> Nat]
      BY <1>1, <1>2, <1>5 DEF TypeOK
    <3>2. files' = files /\ calls' = calls
      BY <1>2
    <3> QED
      BY <3>1, <3>2, <2>1, <1>1 DEF TypeOK
  <2>3. InboxSource'
    BY <2>1, <1>1 DEF InboxSource
  <2>4. ASSUME NEW s \in Chiplets, NEW m \in Reads[s] PROVE ReaderOK(s, m)'
    <3>1. files' = files /\ pos'[s] = pos[s] /\ inbox'[s] = inbox[s]
      BY <1>2, <2>1
    <3>2. ReaderOK(s, m)
      BY <1>1
    <3> QED
      BY <3>1, <3>2, ReaderFrame
  <2> QED
    BY <2>2, <2>3, <2>4, <1>4 DEF IInv
<1>6. CASE Name(n) \in FileNames /\ r \in Found(files[Name(n)], pos[p], n)
  <2> DEFINE f == files[Name(n)]
             e == [from |-> n, line |-> r.line, ret |-> r.ret]
  <2>1. f \in Seq(Lines) /\ FileOK(f) /\ Name(n) # Slash
    BY <1>1, <1>6, Zenon DEF TypeOK, FilesOK, FileNames
  <2>2. /\ pos[p] \in Nat
        /\ inbox[p] \in Seq(Receipts)
        /\ AtBoundary(f, pos[p])
        /\ Consumed(inbox[p], f, pos[p], n)
    BY <2>1, <1>1 DEF TypeOK, ReaderOK
  <2>3. /\ r.line \in Addressed(f, n)
        /\ r.ret = ToWord(f[r.line].data)
        /\ r.pos = f[r.line].end
    BY <2>1, <2>2, <1>3, <1>6, FoundLine
  <2>4. r.line \in DOMAIN f /\ f[r.line] \in Lines /\ r.line \in Nat /\ r.line # 0
    BY <2>1, <2>3 DEF Addressed
  <2>5. r.pos \in Nat /\ r.ret \in Nat
    BY <2>3, <2>4, LineFields, Casts
  <2>6. e \in Receipts
    BY <2>4, <2>5, <1>3 DEF Receipts
  <2>7. AtBoundary(f, r.pos) /\ Consumed(Append(inbox[p], e), f, r.pos, n)
    BY <2>1, <2>2, <2>6, <1>3, <1>6, TakeLine
  <2>8. inbox' = [inbox EXCEPT ![p] = Append(@, e)]
    BY <1>2, <2>4
  <2> HIDE DEF e
  <2>9. TypeOK'
    <3>1. Append(inbox[p], e) \in Seq(Receipts)
      BY <2>2, <2>6
    <3>2. inbox' \in [Chiplets -> Seq(Receipts)]
      BY <3>1, <2>8, <1>1 DEF TypeOK
    <3>3. pos' \in [Chiplets -> Nat] /\ reg' \in [Chiplets -> Nat]
      BY <2>5, <1>1, <1>2 DEF TypeOK
    <3> QED
      BY <3>2, <3>3, <1>1, <1>2 DEF TypeOK
  <2>10. InboxSource'
    <3>1. ASSUME NEW s \in Chiplets, NEW k \in DOMAIN inbox'[s]
          PROVE  inbox'[s][k].from \in Reads[s]
      <4>1. CASE s # p
        BY <4>1, <2>8, <1>1 DEF InboxSource, TypeOK
      <4>2. CASE s = p
        <5>1. inbox'[s] = Append(inbox[p], e)
          BY <4>2, <2>8, <1>1 DEF TypeOK
        <5>2. k \in DOMAIN inbox[p] \/ k = Len(inbox[p]) + 1
          BY <5>1, <2>2, <2>6
        <5>3. CASE k \in DOMAIN inbox[p]
          BY <5>1, <5>3, <4>2, <2>2, <2>6, <1>1 DEF InboxSource
        <5>4. CASE k = Len(inbox[p]) + 1
          BY <5>1, <5>4, <4>2, <2>2, <2>6 DEF e
        <5> QED
          BY <5>2, <5>3, <5>4
      <4> QED
        BY <4>1, <4>2
    <3> QED
      BY <3>1 DEF InboxSource
  <2>11. ASSUME NEW s \in Chiplets, NEW m \in Reads[s] PROVE ReaderOK(s, m)'
    <3>1. CASE s # p
      <4>1. pos'[s] = pos[s] /\ inbox'[s] = inbox[s] /\ files' = files
        BY <3>1, <2>8, <1>1, <1>2 DEF TypeOK
      <4> QED
        BY <4>1, <1>1, ReaderFrame
    <3>2. CASE s = p
      <4>1. m = n
        BY <3>2 DEF OneFile
      <4>2. pos'[p] = r.pos /\ inbox'[p] = Append(inbox[p], e) /\ files' = files
        BY <2>8, <1>1, <1>2 DEF TypeOK
      <4> QED
        BY <4>1, <4>2, <3>2, <2>1, <2>7, Zenon
           DEF ReaderOK, AtBoundary, Consumed, Size, Addressed, e
    <3> QED
      BY <3>1, <3>2
  <2> QED
    BY <2>9, <2>10, <2>11, <1>4 DEF IInv
<1> QED
  BY <1>2, <1>5, <1>6, ReceiveResult

----------------------------------------------------------------------------
(* The theorems *)

\* The inductive invariant holds: files are contiguous, every position is a
\* line boundary, and what a process received is what lies before it.
THEOREM Invariance ==
  ASSUME OneFile PROVE Spec => []IInv
<1>1. Init => IInv
  BY InitIInv
<1>2. IInv /\ [Next]_vars => IInv'
  <2> SUFFICES ASSUME IInv, [Next]_vars PROVE IInv'
    OBVIOUS
  <2>1. ASSUME NEW p \in Chiplets, Call(p) PROVE IInv'
    <3>1. Sends[p] \subseteq Numbers
      BY NumbersAssumption
    <3> QED
      BY <2>1, <3>1, CallIInv DEF Call
  <2>2. ASSUME NEW p \in Chiplets, Receive(p) PROVE IInv'
    BY <2>2, ReceiveIInv DEF Receive
  <2>3. CASE UNCHANGED vars
    <3>1. /\ files' = files /\ pos' = pos /\ reg' = reg
          /\ calls' = calls /\ inbox' = inbox
      BY <2>3 DEF vars
    <3>2. TypeOK' /\ FilesOK' /\ InboxSource'
      BY <3>1 DEF IInv, TypeOK, FilesOK, FileOK, InboxSource
    <3>3. ASSUME NEW p \in Chiplets, NEW n \in Reads[p] PROVE ReaderOK(p, n)'
      <4>1. ReaderOK(p, n)
        BY DEF IInv
      <4> QED
        BY <4>1, <3>1, ReaderFrame
    <3> QED
      BY <3>2, <3>3 DEF IInv
  <2> QED
    BY <2>1, <2>2, <2>3 DEF Next
<1> QED
  BY <1>1, <1>2, PTL DEF Spec

\* Every variable keeps its type.
THEOREM TypeCorrect ==
  ASSUME OneFile PROVE Spec => []TypeOK
<1>1. IInv => TypeOK
  BY DEF IInv
<1> QED
  BY <1>1, Invariance, PTL

\* A line is in the file of its target, which its sender sends to.
Origins ==
  /\ \A x \in FileNames : \A i \in DOMAIN files[x] :
       Name(files[x][i].dst) = x /\ files[x][i].dst \in Sends[files[x][i].src]
  /\ \A i \in DOMAIN calls : calls[i].dst \in Sends[calls[i].src]

\* gadia_call writes its own number and its target into the line.
LEMMA CallOrigins ==
  ASSUME TypeOK, Origins, NEW p \in Chiplets, NEW t \in Sends[p], NEW d \in Data,
         NEW i \in {0, 1}, gadia_call(p, t, d, i)
  PROVE  Origins'
<1> DEFINE e == [src |-> p, dst |-> t, data |-> d, init |-> i]
           l == LineAt(Size(files[Name(t)]), TickWidth[p], p, t, ToInt(d))
<1>1. t \in Numbers
  BY NumbersAssumption
<1>2. calls' = Append(calls, e)
  BY DEF gadia_call
<1>3. ASSUME NEW j \in DOMAIN calls' PROVE calls'[j].dst \in Sends[calls'[j].src]
  <2>1. \/ j \in DOMAIN calls /\ calls'[j] = calls[j]
        \/ calls'[j] = e
    BY <1>2 DEF TypeOK
  <2> QED
    BY <2>1 DEF Origins
<1>4. \/ files' = files
      \/ /\ Name(t) \in FileNames
         /\ files' = [files EXCEPT ![Name(t)] = Append(files[Name(t)], l)]
  BY <1>1, CallEffect
<1>5. l.dst = t /\ l.src = p
  BY DEF LineAt
<1> HIDE DEF l
<1>6. ASSUME NEW x \in FileNames, NEW j \in DOMAIN files'[x]
      PROVE  /\ Name(files'[x][j].dst) = x
             /\ files'[x][j].dst \in Sends[files'[x][j].src]
  <2>1. files[x] \in Seq(Lines)
    BY DEF TypeOK
  <2>2. \/ files'[x] = files[x]
        \/ x = Name(t) /\ files'[x] = Append(files[x], l)
    BY <1>4 DEF TypeOK
  <2>3. \/ j \in DOMAIN files[x] /\ files'[x][j] = files[x][j]
        \/ x = Name(t) /\ files'[x][j] = l
    BY <1>6, <2>1, <2>2
  <2> QED
    BY <1>5, <2>3 DEF Origins
<1> QED
  BY <1>3, <1>6 DEF Origins

\* Every line and every call has a sender that sends to its target.
LEMMA OriginsInvariant ==
  ASSUME OneFile PROVE Spec => []Origins
<1>1. Init => Origins
  BY DEF Init, Origins
<1>2. IInv /\ Origins /\ [Next]_vars => Origins'
  <2> SUFFICES ASSUME IInv, Origins, [Next]_vars PROVE Origins'
    OBVIOUS
  <2>1. ASSUME NEW p \in Chiplets, Call(p) PROVE Origins'
    BY <2>1, CallOrigins DEF Call, IInv
  <2>2. CASE files' = files /\ calls' = calls
    BY <2>2 DEF Origins
  <2> QED
    BY <2>1, <2>2, Zenon DEF Next, Receive, gadia_receive, vars
<1> QED
  BY <1>1, <1>2, Invariance, PTL DEF Spec

\* When nobody sends to a number it reads, others sent all a reader is sent.
LEMMA OthersSentAll ==
  ASSUME NoOwnLines, TypeOK, Origins, NEW p \in Chiplets, NEW n \in Reads[p]
  PROVE  /\ Name(n) # Slash
              => ForReader(p, files[Name(n)], n) = Addressed(files[Name(n)], n)
         /\ SentTo(p, n) = {i \in DOMAIN calls : calls[i].init = 0 /\ calls[i].dst = n}
<1>1. n \in Numbers /\ n \notin Sends[p]
  BY NumbersAssumption DEF NoOwnLines
<1>2. ASSUME Name(n) # Slash
      PROVE  ForReader(p, files[Name(n)], n) = Addressed(files[Name(n)], n)
  <2>1. Name(n) \in FileNames
    BY <1>1, <1>2 DEF FileNames
  <2>2. Name(-1) = Slash
    BY DEF Name, Slash
  <2>3. ASSUME NEW i \in Addressed(files[Name(n)], n)
        PROVE  files[Name(n)][i].src # p
    <3>1. i \in DOMAIN files[Name(n)] /\ files[Name(n)][i].dst \in {n, -1}
      BY DEF Addressed, Matches, Whole
    <3>2. /\ Name(files[Name(n)][i].dst) = Name(n)
          /\ files[Name(n)][i].dst \in Sends[files[Name(n)][i].src]
      BY <2>1, <3>1 DEF Origins
    <3> QED
      BY <1>1, <1>2, <2>2, <3>1, <3>2
  <2> QED
    BY <2>3 DEF ForReader
<1>3. \A i \in DOMAIN calls : calls[i].dst = n => calls[i].src # p
  BY <1>1 DEF Origins
<1> QED
  BY <1>2, <1>3 DEF SentTo

\* A process that reads one number, and does not send to it, receives the lines
\* addressed to it oldest first, each once, with the data written:
\* gadia_receive's contract.
THEOREM ReceivesOldestUnread ==
  ASSUME OneFile, NoOwnLines PROVE Spec => []OldestUnread
<1>1. IInv /\ Origins => OldestUnread
  <2> SUFFICES ASSUME IInv, Origins, NEW p \in Chiplets, NEW k \in DOMAIN inbox[p]
               PROVE  LET m == inbox[p][k]
                          f == files[Name(m.from)]
                      IN  /\ m.line \in ForReader(p, f, m.from)
                          /\ m.ret = ToWord(f[m.line].data)
                          /\ ~ReturnedBefore(p, m.from, m.line, k)
                          /\ \A i \in ForReader(p, f, m.from) :
                               i < m.line => ReturnedBefore(p, m.from, i, k)
    BY DEF OldestUnread
  <2> DEFINE b == inbox[p]
             n == inbox[p][k].from
             f == files[Name(n)]
             h == inbox[p][k].line
  <2>1. n \in Reads[p] /\ ReaderOK(p, n) /\ n \in Numbers
    BY NumbersAssumption DEF IInv, InboxSource
  <2>2. b \in Seq(Receipts) /\ pos[p] \in Nat
    BY DEF IInv, TypeOK
  <2>3. Name(n) # Slash
    BY <2>1, <2>2 DEF ReaderOK
  <2>4. Consumed(b, f, pos[p], n) /\ f \in Seq(Lines) /\ FileOK(f)
    BY <2>1, <2>3, Zenon DEF ReaderOK, IInv, TypeOK, FilesOK, FileNames
  <2>5. \A j \in DOMAIN b : b[j].from = n /\ b[j].line \in Nat /\ j \in Nat
    <3>1. \A j \in DOMAIN b : b[j].from \in Reads[p]
      BY DEF IInv, InboxSource
    <3>2. \A j \in DOMAIN b : b[j].from = n
      BY <3>1, <2>1 DEF OneFile
    <3>3. \A j \in DOMAIN b : b[j] \in Receipts /\ j \in Nat
      BY <2>2, SeqElements
    <3>4. \A e \in Receipts : e.line \in Nat
      BY DEF Receipts
    <3> HIDE DEF b
    <3> QED
      BY <3>2, <3>3, <3>4
  <2>6. /\ h \in Addressed(f, n)
        /\ b[k].ret = ToWord(f[h].data)
        /\ f[h].end <= pos[p]
        /\ \A i, j \in DOMAIN b : i < j => b[i].line < b[j].line
        /\ \A i \in Addressed(f, n) :
             f[i].end <= pos[p] => \E j \in DOMAIN b : b[j].line = i
    BY <2>4, Zenon DEF Consumed
  <2>7. ~ReturnedBefore(p, n, h, k)
    <3>1. ASSUME NEW j \in DOMAIN b, j < k, b[j].line = h PROVE FALSE
      <4>1. b[j].line < b[k].line
        BY <3>1, <2>6, Zenon
      <4>2. b[k].line \in Nat
        BY <2>5
      <4> QED
        BY <4>1, <4>2, <3>1
    <3> QED
      BY <3>1 DEF ReturnedBefore
  <2>8. ASSUME NEW i \in Addressed(f, n), i < h PROVE ReturnedBefore(p, n, i, k)
    <3>1. i \in DOMAIN f /\ h \in DOMAIN f
      BY <2>6, Zenon DEF Addressed
    <3>2. f[i].end < f[h].end
      BY <3>1, <2>4, <2>8, LineOrder
    <3>3. f[i].end \in Nat /\ f[h].end \in Nat
      <4>1. f[i] \in Lines /\ f[h] \in Lines
        BY <3>1, <2>4, SeqElements, Zenon
      <4> QED
        BY <4>1, LineFields, Zenon
    <3>4. f[i].end <= pos[p]
      <4> HIDE DEF f, h
      <4> QED
        BY <3>2, <3>3, <2>2, <2>6
    <3>5. PICK j \in DOMAIN b : b[j].line = i
      BY <3>4, <2>6, Zenon
    <3>6. j < k
      <4>1. j # k
        BY <3>5, <2>5, <2>8
      <4>2. ~(k < j)
        <5>1. k < j => b[k].line < b[j].line
          BY <2>6, Zenon
        <5> QED
          BY <5>1, <3>5, <2>5, <2>8
      <4> QED
        BY <4>1, <4>2, <2>5
    <3> QED
      BY <3>5, <3>6, <2>5 DEF ReturnedBefore
  <2>9. ForReader(p, f, n) = Addressed(f, n)
    BY <2>1, <2>3, OthersSentAll DEF IInv
  <2> QED
    BY <2>6, <2>7, <2>8, <2>9, Zenon
<1> QED
  BY <1>1, Invariance, OriginsInvariant, PTL

----------------------------------------------------------------------------
(* From the sender's register to the reader's *)

\* A program passes ints: a register holds one sign-extended.
DataAreInts == \A d \in Data : ToWord(ToInt(d)) = d

CallRecords == [src : Chiplets, dst : Numbers, data : Data, init : {0, 1}]

\* Call i of cs wrote to the file x.
WroteTo(cs, i, x) == cs[i].init = 0 /\ Name(cs[i].dst) = x

\* Line i of f was written by call g[i] of cs, and f holds every call to x.
Writes(g, f, cs, x) ==
  /\ \A i \in DOMAIN f :
       /\ WroteTo(cs, g[i], x)
       /\ f[i].dst = cs[g[i]].dst
       /\ f[i].data = ToInt(cs[g[i]].data)
       /\ \A j \in DOMAIN f : i < j => g[i] < g[j]
  /\ \A k \in DOMAIN cs : WroteTo(cs, k, x) => \E i \in DOMAIN f : g[i] = k

CallsInv ==
  \A x \in FileNames :
    \E g \in [DOMAIN files[x] -> DOMAIN calls] : Writes(g, files[x], calls, x)

\* A call that writes elsewhere, or nowhere.
LEMMA WritesElsewhere ==
  ASSUME NEW f \in Seq(Lines), NEW cs \in Seq(CallRecords), NEW x,
         NEW e \in CallRecords, ~(e.init = 0 /\ Name(e.dst) = x),
         NEW g \in [DOMAIN f -> DOMAIN cs], Writes(g, f, cs, x),
         NEW ds, ds = Append(cs, e)
  PROVE  g \in [DOMAIN f -> DOMAIN ds] /\ Writes(g, f, ds, x)
<1>1. /\ DOMAIN cs = 1 .. Len(cs) /\ Len(cs) \in Nat
      /\ DOMAIN ds = 1 .. (Len(cs) + 1)
      /\ \A k \in DOMAIN cs : ds[k] = cs[k]
      /\ ds[Len(cs) + 1] = e
  BY Appended
<1>2. DOMAIN cs \subseteq DOMAIN ds
  BY <1>1
<1>3. g \in [DOMAIN f -> DOMAIN ds]
  BY <1>2
<1>4. \A i \in DOMAIN f : ds[g[i]] = cs[g[i]]
  BY <1>1
<1>5. ASSUME NEW i \in DOMAIN f
      PROVE  /\ WroteTo(ds, g[i], x)
             /\ f[i].dst = ds[g[i]].dst
             /\ f[i].data = ToInt(ds[g[i]].data)
             /\ \A j \in DOMAIN f : i < j => g[i] < g[j]
  BY <1>4 DEF Writes, WroteTo
<1>6. ASSUME NEW k \in DOMAIN ds, WroteTo(ds, k, x)
      PROVE  \E i \in DOMAIN f : g[i] = k
  <2>1. k # Len(cs) + 1
    BY <1>1, <1>6 DEF WroteTo
  <2>2. k \in DOMAIN cs /\ WroteTo(cs, k, x)
    BY <1>1, <1>6, <2>1 DEF WroteTo
  <2> QED
    BY <2>2 DEF Writes
<1> QED
  BY <1>3, <1>5, <1>6 DEF Writes

\* A call that appends a line to the file.
LEMMA WritesHere ==
  ASSUME NEW f \in Seq(Lines), NEW cs \in Seq(CallRecords), NEW x,
         NEW e \in CallRecords, e.init = 0, Name(e.dst) = x,
         NEW l \in Lines, l.dst = e.dst, l.data = ToInt(e.data),
         NEW g \in [DOMAIN f -> DOMAIN cs], Writes(g, f, cs, x),
         NEW ds, ds = Append(cs, e), NEW f1, f1 = Append(f, l)
  PROVE  \E h \in [DOMAIN f1 -> DOMAIN ds] : Writes(h, f1, ds, x)
<1>1. /\ DOMAIN cs = 1 .. Len(cs) /\ Len(cs) \in Nat
      /\ DOMAIN ds = 1 .. (Len(cs) + 1)
      /\ \A k \in DOMAIN cs : ds[k] = cs[k]
      /\ ds[Len(cs) + 1] = e
  BY Appended
<1>2. /\ DOMAIN f = 1 .. Len(f) /\ Len(f) \in Nat
      /\ DOMAIN f1 = 1 .. (Len(f) + 1)
      /\ \A i \in DOMAIN f : f1[i] = f[i]
      /\ f1[Len(f) + 1] = l
  BY Appended
<1> DEFINE h == [i \in DOMAIN f1 |-> IF i \in DOMAIN f THEN g[i] ELSE Len(cs) + 1]
<1>3. /\ h \in [DOMAIN f1 -> DOMAIN ds]
      /\ \A i \in DOMAIN f : h[i] = g[i] /\ h[i] \in DOMAIN cs
      /\ h[Len(f) + 1] = Len(cs) + 1
  BY <1>1, <1>2
<1> HIDE DEF h
<1>4. ASSUME NEW i \in DOMAIN f1
      PROVE  /\ WroteTo(ds, h[i], x)
             /\ f1[i].dst = ds[h[i]].dst
             /\ f1[i].data = ToInt(ds[h[i]].data)
             /\ \A j \in DOMAIN f1 : i < j => h[i] < h[j]
  <2>1. CASE i \in DOMAIN f
    <3>1. /\ WroteTo(cs, g[i], x)
          /\ f[i].dst = cs[g[i]].dst
          /\ f[i].data = ToInt(cs[g[i]].data)
          /\ \A j \in DOMAIN f : i < j => g[i] < g[j]
      BY <2>1 DEF Writes
    <3>2. f1[i] = f[i] /\ h[i] = g[i] /\ ds[h[i]] = cs[g[i]]
      BY <1>1, <1>2, <1>3, <2>1
    <3>3. ASSUME NEW j \in DOMAIN f1, i < j
          PROVE  h[i] < h[j]
      <4>1. CASE j \in DOMAIN f
        BY <1>3, <3>1, <3>2, <3>3, <4>1
      <4>2. CASE j = Len(f) + 1
        BY <1>1, <1>3, <2>1, <4>2
      <4> QED
        BY <1>2, <4>1, <4>2
    <3> QED
      BY <3>1, <3>2, <3>3 DEF WroteTo
  <2>2. CASE i = Len(f) + 1
    <3>1. f1[i] = l /\ h[i] = Len(cs) + 1 /\ ds[h[i]] = e
      BY <1>1, <1>2, <1>3, <2>2
    <3>2. \A j \in DOMAIN f1 : ~(i < j)
      BY <1>2, <2>2
    <3> QED
      BY <3>1, <3>2 DEF WroteTo
  <2>3. i \in DOMAIN f \/ i = Len(f) + 1
    BY <1>2
  <2> QED
    BY <2>1, <2>2, <2>3, Zenon
<1>5. ASSUME NEW k \in DOMAIN ds, WroteTo(ds, k, x)
      PROVE  \E i \in DOMAIN f1 : h[i] = k
  <2>1. CASE k = Len(cs) + 1
    <3>1. Len(f) + 1 \in DOMAIN f1
      BY <1>2
    <3> QED
      BY <1>3, <2>1, <3>1
  <2>2. CASE k \in DOMAIN cs
    <3>1. WroteTo(cs, k, x)
      BY <1>1, <1>5, <2>2 DEF WroteTo
    <3>2. PICK i \in DOMAIN f : g[i] = k
      BY <2>2, <3>1 DEF Writes
    <3>3. i \in DOMAIN f1 /\ h[i] = k
      BY <1>2, <1>3, <3>2
    <3> QED
      BY <3>3
  <2> QED
    BY <1>1, <2>1, <2>2
<1>6. Writes(h, f1, ds, x)
  BY <1>4, <1>5, Zenon DEF Writes
<1> QED
  BY <1>3, <1>6

\* The calls and the lines they wrote correspond.
LEMMA CallCallsInv ==
  ASSUME TypeOK, CallsInv, NEW p \in Chiplets, NEW t \in Numbers, NEW d \in Data,
         NEW i \in {0, 1}, gadia_call(p, t, d, i)
  PROVE  CallsInv'
<1> DEFINE e == [src |-> p, dst |-> t, data |-> d, init |-> i]
           l == LineAt(Size(files[Name(t)]), TickWidth[p], p, t, ToInt(d))
<1>1. e \in CallRecords /\ e.dst = t /\ e.data = d /\ e.init = i
  BY DEF CallRecords
<1>2. calls' = Append(calls, e) /\ calls \in Seq(CallRecords)
  BY DEF gadia_call, TypeOK, CallRecords
<1> HIDE DEF e
<1>3. p \in Int /\ t \in Int /\ ToInt(d) \in Int /\ TickWidth[p] \in Nat \ {0}
  BY SizesAssumption, NumbersAssumption, Casts
<1>4. ToInt(ToWord(t)) = t /\ ToInt(ToWord(p)) = p
  BY SizesAssumption, NumbersAssumption, NumbersFit
<1>5. files' = IF i = 0 /\ Name(t) # Slash
               THEN [files EXCEPT ![Name(t)] = Append(files[Name(t)], l)] ELSE files
  BY <1>4 DEF gadia_call, AfterCall
<1>6. Name(t) \in FileNames => files[Name(t)] \in Seq(Lines) /\ l \in Lines /\ l.dst = t /\ l.data = ToInt(d)
  <2>1. SUFFICES ASSUME Name(t) \in FileNames
                 PROVE  /\ files[Name(t)] \in Seq(Lines) /\ l \in Lines
                        /\ l.dst = t /\ l.data = ToInt(d)
    OBVIOUS
  <2>2. files[Name(t)] \in Seq(Lines)
    BY <2>1 DEF TypeOK
  <2>3. Size(files[Name(t)]) \in Nat
    BY <2>2, SizeIsEnd
  <2> QED
    BY <1>3, <2>2, <2>3 DEF LineAt, Lines
<1> HIDE DEF l
<1>7. ASSUME NEW x \in FileNames
      PROVE  \E g \in [DOMAIN files'[x] -> DOMAIN calls'] : Writes(g, files'[x], calls', x)
  <2>1. PICK g \in [DOMAIN files[x] -> DOMAIN calls] : Writes(g, files[x], calls, x)
    BY DEF CallsInv
  <2>2. files[x] \in Seq(Lines) /\ x # Slash
    BY DEF TypeOK, FileNames
  <2>3. CASE i = 0 /\ Name(t) = x
    <3>1. files'[x] = Append(files[x], l)
      BY <1>5, <2>2, <2>3 DEF TypeOK
    <3>2. l \in Lines /\ l.dst = e.dst /\ l.data = ToInt(e.data)
      BY <1>1, <1>6, <2>3
    <3>3. e \in CallRecords /\ e.init = 0 /\ Name(e.dst) = x
      BY <1>1, <2>3
    <3> QED
      BY <1>2, <2>1, <2>2, <3>1, <3>2, <3>3, WritesHere, Zenon
  <2>4. CASE ~(i = 0 /\ Name(t) = x)
    <3>1. files'[x] = files[x]
      BY <1>5, <2>4 DEF TypeOK
    <3> QED
      BY <1>1, <1>2, <2>1, <2>2, <2>4, <3>1, WritesElsewhere, Zenon
  <2> QED
    BY <2>3, <2>4
<1> QED
  BY <1>7 DEF CallsInv, Writes, WroteTo

\* The gadia_call instructions that send to number n.
CallsTo(n) == {i \in DOMAIN calls : calls[i].init = 0 /\ calls[i].dst = n}

\* What was sent to a number and what its reader received.
LEMMA ReaderGetsSent ==
  ASSUME IInv, CallsInv, DataAreInts, NEW p \in Chiplets, NEW n \in Reads[p]
  PROVE  \E sent \in [DOMAIN inbox[p] -> CallsTo(n)] :
           \A k \in DOMAIN inbox[p] :
             /\ inbox[p][k].ret = calls[sent[k]].data
             /\ \A i \in CallsTo(n) :
                  i < sent[k] <=> \E j \in DOMAIN inbox[p] : j < k /\ sent[j] = i
<1>1. n \in Numbers /\ n \in Int /\ ReaderOK(p, n)
  BY SizesAssumption, NumbersAssumption DEF IInv
<1>2. CASE Name(n) = Slash
  <2>1. inbox[p] = << >>
    BY <1>1, <1>2 DEF ReaderOK
  <2> DEFINE sent == [k \in {} |-> 0]
  <2>2. DOMAIN inbox[p] = {} /\ sent \in [DOMAIN inbox[p] -> CallsTo(n)]
    BY <2>1
  <2> QED
    BY <2>2, Zenon
<1>3. CASE Name(n) # Slash
  <2>1. Name(n) \in FileNames
    BY <1>1, <1>3 DEF FileNames
  <2> DEFINE f == files[Name(n)]
             b == inbox[p]
             q == pos[p]
  <2>2. /\ f \in Seq(Lines) /\ FileOK(f) /\ AtBoundary(f, q) /\ Consumed(b, f, q, n)
        /\ q \in Nat /\ b \in Seq(Receipts) /\ calls \in Seq(CallRecords)
    BY <1>1, <1>3, <2>1 DEF IInv, TypeOK, FilesOK, ReaderOK, CallRecords
  <2>3. PICK g \in [DOMAIN f -> DOMAIN calls] : Writes(g, f, calls, Name(n))
    BY <2>1 DEF CallsInv
  <2> HIDE DEF f, b, q
  <2>4. Name(-1) = Slash
    BY DEF Name, Slash
  <2>5. ASSUME NEW i \in DOMAIN f
        PROVE  /\ g[i] \in DOMAIN calls /\ g[i] \in Nat /\ i \in Nat
               /\ calls[g[i]] \in CallRecords
               /\ calls[g[i]].init = 0 /\ f[i].dst = calls[g[i]].dst
               /\ Name(f[i].dst) = Name(n)
               /\ f[i].data = ToInt(calls[g[i]].data)
               /\ \A j \in DOMAIN f : i < j => g[i] < g[j]
    <3>1. g[i] \in DOMAIN calls
      OBVIOUS
    <3>2. g[i] \in Nat /\ i \in Nat /\ calls[g[i]] \in CallRecords
      BY <2>2, <3>1, SeqElements
    <3> QED
      BY <2>3, <3>1, <3>2 DEF Writes, WroteTo
  <2>6. ASSUME NEW i \in DOMAIN f
        PROVE  i \in Addressed(f, n) <=> g[i] \in CallsTo(n)
    <3>1. f[i].dst # -1
      BY <1>3, <2>4, <2>5
    <3> QED
      BY <2>5, <3>1 DEF Addressed, Matches, Whole, CallsTo
  <2>7. ASSUME NEW c \in CallsTo(n)
        PROVE  \E i \in DOMAIN f : g[i] = c
    BY <2>3 DEF Writes, WroteTo, CallsTo
  <2>8. ASSUME NEW k \in DOMAIN b
        PROVE  /\ b[k].line \in DOMAIN f /\ g[b[k].line] \in CallsTo(n)
               /\ b[k].ret = calls[g[b[k].line]].data
               /\ f[b[k].line].end <= q
               /\ \A j \in DOMAIN b : j < k => b[j].line < b[k].line
               /\ k \in Nat
    <3>1. /\ b[k].line \in Addressed(f, n)
          /\ b[k].ret = ToWord(f[b[k].line].data)
          /\ f[b[k].line].end <= q
          /\ \A j \in DOMAIN b : j < k => b[j].line < b[k].line
      BY <2>2 DEF Consumed
    <3>2. b[k].line \in DOMAIN f
      BY <3>1 DEF Addressed
    <3>3. calls[g[b[k].line]].data \in Data
      BY <2>5, <3>2 DEF CallRecords
    <3>4. b[k].ret = calls[g[b[k].line]].data
      BY <2>5, <3>1, <3>2, <3>3 DEF DataAreInts
    <3>5. k \in Nat
      BY <2>2, SeqElements
    <3> QED
      BY <2>6, <3>1, <3>2, <3>4, <3>5
  <2> DEFINE sent == [k \in DOMAIN b |-> g[b[k].line]]
  <2>9. sent \in [DOMAIN b -> CallsTo(n)]
    BY <2>8
  <2>10. \A k \in DOMAIN b : sent[k] = g[b[k].line]
    OBVIOUS
  <2> HIDE DEF sent
  <2>11. ASSUME NEW k \in DOMAIN b, NEW j \in DOMAIN b, j < k
         PROVE  sent[j] < sent[k]
    BY <2>5, <2>8, <2>10, <2>11
  <2>12. ASSUME NEW k \in DOMAIN b, NEW i \in CallsTo(n), i < sent[k]
         PROVE  \E j \in DOMAIN b : j < k /\ sent[j] = i
    <3>1. PICK m \in DOMAIN f : g[m] = i
      BY <2>7
    <3> DEFINE h == b[k].line
    <3>2. h \in DOMAIN f /\ sent[k] = g[h] /\ f[h].end <= q
      BY <2>8, <2>10
    <3> HIDE DEF h
    <3>3. m < h
      <4>1. /\ m \in Nat /\ h \in Nat /\ g[m] \in Nat /\ g[h] \in Nat /\ g[m] < g[h]
            /\ h < m => g[h] < g[m]
        BY <2>5, <2>12, <3>1, <3>2
      <4>2. m # h
        BY <4>1
      <4> QED
        BY <4>1, <4>2
    <3>4. f[m].end <= q
      <4>1. f[m].end < f[h].end
        BY <2>2, <3>2, <3>3, LineOrder
      <4>2. f[m].end \in Nat /\ f[h].end \in Nat
        BY <2>2, <3>2, LineFields
      <4> QED
        BY <2>2, <3>2, <4>1, <4>2
    <3>5. m \in Addressed(f, n)
      BY <2>6, <3>1
    <3>6. PICK j \in DOMAIN b : b[j].line = m
      BY <2>2, <3>4, <3>5 DEF Consumed
    <3>7. j < k
      <4>1. /\ j \in Nat /\ k \in Nat /\ j # k
            /\ k < j => b[k].line < b[j].line
        BY <2>5, <2>8, <3>2, <3>3, <3>6 DEF h
      <4>2. ~(k < j)
        BY <2>5, <3>2, <3>3, <3>6, <4>1 DEF h
      <4> QED
        BY <4>1, <4>2
    <3> QED
      BY <2>10, <3>1, <3>6, <3>7
  <2>13. ASSUME NEW k \in DOMAIN b
         PROVE  /\ b[k].ret = calls[sent[k]].data
                /\ \A i \in CallsTo(n) :
                     i < sent[k] <=> \E j \in DOMAIN b : j < k /\ sent[j] = i
    BY <2>8, <2>10, <2>11, <2>12
  <2> QED
    BY <2>9, <2>13 DEF b
<1> QED
  BY <1>2, <1>3

\* What a reader receives is what others sent to its number, from the first call
\* on, in order and without loss: the casts and the text lose nothing.
THEOREM DeliversWhatWasSent ==
  ASSUME OneFile, NoOwnLines, DataAreInts PROVE Spec => []EndToEnd
<1>1. Init => CallsInv
  <2> SUFFICES ASSUME Init, NEW x \in FileNames
               PROVE  \E g \in [DOMAIN files[x] -> DOMAIN calls] :
                        Writes(g, files[x], calls, x)
    BY DEF CallsInv
  <2>1. files[x] = << >> /\ calls = << >>
    BY DEF Init
  <2> DEFINE g == [k \in {} |-> 0]
  <2>2. g \in [DOMAIN files[x] -> DOMAIN calls] /\ Writes(g, files[x], calls, x)
    BY <2>1 DEF Writes
  <2> QED
    BY <2>2, Zenon
<1>2. IInv /\ CallsInv /\ [Next]_vars => CallsInv'
  <2> SUFFICES ASSUME IInv, CallsInv, [Next]_vars PROVE CallsInv'
    OBVIOUS
  <2>1. ASSUME NEW p \in Chiplets, Call(p) PROVE CallsInv'
    <3>1. Sends[p] \subseteq Numbers
      BY NumbersAssumption
    <3> QED
      BY <2>1, <3>1, CallCallsInv DEF Call, IInv
  <2>2. CASE files' = files /\ calls' = calls
    BY <2>2 DEF CallsInv, Writes, WroteTo
  <2> QED
    BY <2>1, <2>2, Zenon DEF Next, Receive, gadia_receive, vars
<1>3. IInv /\ Origins /\ CallsInv => EndToEnd
  <2> SUFFICES ASSUME IInv, Origins, CallsInv, NEW p \in Chiplets, NEW n \in Reads[p]
               PROVE  \E sent \in [DOMAIN inbox[p] -> SentTo(p, n)] :
                        \A k \in DOMAIN inbox[p] :
                          /\ inbox[p][k].ret = calls[sent[k]].data
                          /\ \A i \in SentTo(p, n) :
                               i < sent[k] <=> \E j \in DOMAIN inbox[p] : j < k /\ sent[j] = i
    BY DEF EndToEnd
  <2>1. SentTo(p, n) = CallsTo(n)
    BY OthersSentAll DEF IInv, CallsTo
  <2> QED
    BY <2>1, ReaderGetsSent
<1> QED
  BY <1>1, <1>2, <1>3, Invariance, OriginsInvariant, PTL DEF Spec

=============================================================================
