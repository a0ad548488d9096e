-------------------------- MODULE MIExampleProofs --------------------------
(***************************************************************************)
(* The MI protocol with any number of caches, lines, directories, words    *)
(* and values: one writer at a time, whatever the races of requests,       *)
(* forwards, writebacks and invalidations.                                 *)
(***************************************************************************)
EXTENDS MIExample, Functions, TLAPS

States == Busy \cup {"I", "M"}
Waiting == {"IS", "IM"}

\* What is on its way for line a.  A forwarded request: x shall give a to c.
Asks(x, a, c) == Forward("GETX", a, c) \in Range(fwd[x])
Acked(c, a) == Forward("WB_ACK", a, c) \in Range(fwd[c])
Nacked(c, a) == Forward("WB_NACK", a, c) \in Range(fwd[c])
Requested(type, c, a) == \E m \in reqs : m.type = type /\ m.from = c /\ m.addr = a
Getting(c, a) == Requested("GETX", c, a)
Putting(c, a) == Requested("PUTX", c, a)
InMemory(type, c, a) == memq[a] # None /\ memq[a].type = type /\ memq[a].sender = c
Fetching(c, a) == InMemory("READ", c, a)
Storing(c, a) == InMemory("WB", c, a)
Sent(c, a) == \E m \in resps : m.to = c /\ m.addr = a

\* A queue of forward messages: invalidations apart, one of each type and line.
Queue(q) ==
  /\ q \in Seq(Forwards)
  /\ \A i, j \in DOMAIN q :
       q[i].type # "INV" /\ q[i].type = q[j].type /\ q[i].addr = q[j].addr => i = j

\* The forward messages to a cache that ask it for a line name the requestor,
\* and answers to writebacks name the cache itself.
MailInv ==
  \A c \in Caches :
    /\ Queue(fwd[c])
    /\ \A m \in Range(fwd[c]) :
         /\ m.type = "GETX" => m.req \in Caches
         /\ m.type \in {"WB_ACK", "WB_NACK"} => m.req = c

\* A cache has one request per line on its way, and a line one data message.
NetInv ==
  /\ \A m, n \in reqs : m.from = n.from /\ m.addr = n.addr => m = n
  /\ \A m, n \in resps : m.addr = n.addr => m = n

\* Directory state, owner and memory access go together.
DirLine(a) ==
  /\ dir[a] \in {"M", "M_DRD", "M_DWR", "IM"} <=> owner[a] # None
  /\ dir[a] \in {"I", "M", "M_DRD", "M_DWR"} <=> memq[a] = None
  /\ dir[a] \in {"IM", "ID"} => memq[a].type = "READ"
  /\ dir[a] \in {"MI", "M_DRDI", "M_DWRI", "ID_W"} => memq[a].type = "WB"
  /\ dir[a] = "IM" => memq[a].sender = owner[a]
  /\ dir[a] \in {"MI", "M_DRDI", "M_DWRI"} => memq[a].sender \in Caches
  /\ dir[a] \in {"ID", "ID_W"} => memq[a].sender = None
  /\ dir[a] \in {"M_DWR", "M_DWRI", "ID_W"} => tbe[a] # None
DirInv == \A a \in Addrs : DirLine(a)

\* A cache that waits for a line is granted it at most once.
GetInv ==
  \A c \in Caches, a \in Addrs :
    /\ Getting(c, a) =>
         /\ l1[c][a] \in Waiting /\ owner[a] # c
         /\ ~Sent(c, a) /\ ~Fetching(c, a)
         /\ \A x \in Caches : ~Asks(x, a, c) /\ ~Asks(c, a, x)
    /\ Sent(c, a) => l1[c][a] \in Waiting /\ ~Fetching(c, a)
    /\ Fetching(c, a) => l1[c][a] \in Waiting
    /\ \A x \in Caches : Asks(x, a, c) =>
         /\ l1[c][a] \in Waiting /\ ~Sent(c, a) /\ ~Fetching(c, a)
         /\ owner[a] # x
         /\ l1[x][a] \notin {"I", "II"}
         /\ \A y \in Caches : Asks(y, a, c) => x = y
    /\ l1[c][a] \in {"I", "II", "MII"} => owner[a] # c

\* A writeback is answered once; the directory no longer counts on a cache
\* whose writeback it has taken.
PutInv ==
  \A c \in Caches, a \in Addrs :
    /\ Putting(c, a) =>
         l1[c][a] \in {"MI", "II"} /\ ~Storing(c, a) /\ ~Acked(c, a) /\ ~Nacked(c, a)
    /\ Storing(c, a) \/ Acked(c, a) =>
         /\ l1[c][a] = "MI" /\ owner[a] # c /\ ~Nacked(c, a)
         /\ \A x \in Caches : ~Asks(c, a, x)
    /\ ~(Storing(c, a) /\ Acked(c, a))
    /\ Nacked(c, a) => l1[c][a] \in {"MI", "II"} /\ owner[a] # c

\* Where the line is: in a cache, in a data message or at the directory.
Holds(c, a) ==
  \/ l1[c][a] \in {"M", "MII"}
  \/ l1[c][a] = "MI" /\ ~Storing(c, a) /\ ~Acked(c, a)
AtDir(a) == dir[a] \notin {"M", "M_DRD", "M_DWR"}
OneCopy ==
  \A a \in Addrs, c, d \in Caches :
    /\ Holds(c, a) /\ Holds(d, a) => c = d
    /\ ~(Holds(c, a) /\ Sent(d, a))
    /\ AtDir(a) => ~Holds(c, a) /\ ~Sent(c, a)

\* No cache comes to hold a line.
NoNewHolder == \A c \in Caches, a \in Addrs : Holds(c, a)' => Holds(c, a)

CohInv == MailInv /\ NetInv /\ DirInv /\ GetInv /\ PutInv /\ OneCopy

IInv == TypeOK /\ CohInv

----------------------------------------------------------------------------
(* Queues of forward messages *)

\* What a concatenation holds.
LEMMA Concatenation ==
  ASSUME NEW S, NEW s \in Seq(S), NEW t \in Seq(S)
  PROVE  /\ s \o t \in Seq(S) /\ Len(s \o t) = Len(s) + Len(t)
         /\ \A i \in 1 .. Len(s) + Len(t) :
              (s \o t)[i] = IF i <= Len(s) THEN s[i] ELSE t[i - Len(s)]
OBVIOUS

\* A message that arrives joins the others, wherever it is inserted.
LEMMA Insertion ==
  ASSUME NEW q \in Seq(Forwards), NEW m \in Forwards, NEW r \in Arrivals(q, m)
  PROVE  /\ r \in Seq(Forwards) /\ Len(r) = Len(q) + 1 /\ Range(r) = Range(q) \cup {m}
         /\ \E k \in 1 .. Len(q) + 1 : \A i \in 1 .. Len(q) + 1 :
              r[i] = IF i < k THEN q[i] ELSE IF i = k THEN m ELSE q[i - 1]
<1>1. q \in Seq(Forwards)
  BY Zenon
<1>2. PICK k \in 1 .. Len(q) + 1 : r = SubSeq(q, 1, k - 1) \o <<m>> \o SubSeq(q, k, Len(q))
  BY Zenon DEF Arrivals
<1> DEFINE f == SubSeq(q, 1, k - 1)
           b == SubSeq(q, k, Len(q))
<1>3. /\ f \in Seq(Forwards) /\ Len(f) = k - 1
      /\ \A i \in 1 .. k - 1 : f[i] = q[i]
  BY <1>1
<1>4. /\ b \in Seq(Forwards) /\ Len(b) = Len(q) - k + 1
      /\ \A i \in 1 .. Len(q) - k + 1 : b[i] = q[k + i - 1]
  BY <1>1
<1>5. r = f \o <<m>> \o b
  BY <1>2, Zenon
<1>6. f \o <<m>> \in Seq(Forwards) /\ Len(f \o <<m>>) = k
      /\ \A i \in 1 .. k : (f \o <<m>>)[i] = IF i < k THEN q[i] ELSE m
  BY <1>3
<1>7. /\ r \in Seq(Forwards) /\ Len(r) = Len(q) + 1
      /\ \A i \in 1 .. Len(q) + 1 :
           r[i] = IF i < k THEN q[i] ELSE IF i = k THEN m ELSE q[i - 1]
  <2> DEFINE g == f \o <<m>>
  <2>1. g \in Seq(Forwards) /\ Len(g) = k /\ r = g \o b
    BY <1>5, <1>6, Zenon
  <2>2. \A i \in 1 .. k : g[i] = IF i < k THEN q[i] ELSE m
    BY <1>6, Zenon
  <2> HIDE DEF f, b, g
  <2>3. /\ r \in Seq(Forwards) /\ Len(r) = k + Len(b)
        /\ \A i \in 1 .. k + Len(b) : r[i] = IF i <= k THEN g[i] ELSE b[i - k]
    <3>1. b \in Seq(Forwards)
      BY <1>4, Zenon
    <3> QED  BY <2>1, <3>1, Concatenation, Zenon
  <2>4. Len(q) \in Nat /\ k + Len(b) = Len(q) + 1
    BY <1>1, <1>4
  <2>5. ASSUME NEW i \in 1 .. Len(q) + 1, i > k  PROVE r[i] = q[i - 1]
    <3>1. i - k \in 1 .. Len(q) - k + 1 /\ k + (i - k) - 1 = i - 1
      BY <2>4, <2>5
    <3> QED  BY <3>1, <2>3, <2>4, <2>5, <1>4
  <2>6. \A i \in 1 .. k : i \in 1 .. k + Len(b) /\ r[i] = g[i]
    BY <2>3, <2>4
  <2>7. ASSUME NEW i \in 1 .. Len(q) + 1
        PROVE  r[i] = IF i < k THEN q[i] ELSE IF i = k THEN m ELSE q[i - 1]
    <3>1. CASE i <= k  BY <3>1, <2>2, <2>6
    <3>2. CASE i > k  BY <3>2, <2>5
    <3> QED  BY <3>1, <3>2, <2>4
  <2> QED  BY <2>3, <2>4, <2>7, Zenon
<1>8. DOMAIN q = 1 .. Len(q) /\ DOMAIN r = 1 .. Len(q) + 1 /\ Len(q) \in Nat
  BY <1>1, <1>7
<1> HIDE DEF f, b
<1>9. Range(r) = Range(q) \cup {m}
  <2>1. ASSUME NEW i \in DOMAIN r  PROVE r[i] \in Range(q) \cup {m}
    BY <1>7, <1>8 DEF Range
  <2>2. ASSUME NEW i \in DOMAIN q  PROVE q[i] \in Range(r)
    <3>1. CASE i < k  BY <3>1, <1>7, <1>8 DEF Range
    <3>2. CASE i >= k
      <4>1. i + 1 \in DOMAIN r /\ r[i + 1] = q[i]
        BY <3>2, <1>7, <1>8
      <4> QED  BY <4>1, Zenon DEF Range
    <3> QED  BY <3>1, <3>2, <1>8
  <2>3. m \in Range(r)
    BY <1>7, <1>8 DEF Range
  <2> QED  BY <2>1, <2>2, <2>3, Zenon DEF Range
<1> QED  BY <1>7, <1>9, Zenon

\* A queue stays one when a message of a new type and line arrives.
LEMMA InsertQueue ==
  ASSUME NEW q, Queue(q), NEW m \in Forwards, NEW r \in Arrivals(q, m),
         m.type # "INV" => \A n \in Range(q) : ~(n.type = m.type /\ n.addr = m.addr)
  PROVE  Queue(r) /\ Range(r) = Range(q) \cup {m}
<1>1. /\ q \in Seq(Forwards) /\ r \in Seq(Forwards) /\ Len(r) = Len(q) + 1
      /\ Range(r) = Range(q) \cup {m}
  BY Insertion, Zenon DEF Queue
<1>2. PICK k \in 1 .. Len(q) + 1 : \A i \in 1 .. Len(q) + 1 :
        r[i] = IF i < k THEN q[i] ELSE IF i = k THEN m ELSE q[i - 1]
  BY Insertion DEF Queue
<1>3. DOMAIN q = 1 .. Len(q) /\ DOMAIN r = 1 .. Len(q) + 1 /\ Len(q) \in Nat
  BY <1>1
<1>4. ASSUME NEW i \in DOMAIN r, NEW j \in DOMAIN r,
              r[i].type # "INV", r[i].type = r[j].type, r[i].addr = r[j].addr
       PROVE  i = j
  <2>1. \A x, y \in DOMAIN q :
          q[x].type # "INV" /\ q[x].type = q[y].type /\ q[x].addr = q[y].addr => x = y
    BY Zenon DEF Queue
  <2>2. \A x \in DOMAIN q : m.type # "INV" => ~(q[x].type = m.type /\ q[x].addr = m.addr)
    BY Zenon DEF Range
  <2> DEFINE p(x) == IF x < k THEN x ELSE x - 1
  <2>3. \A x \in DOMAIN r : x # k => p(x) \in DOMAIN q /\ r[x] = q[p(x)]
    BY <1>2, <1>3
  <2>4. r[k] = m
    BY <1>2, <1>3
  <2>5. CASE i = k /\ j # k
    BY <2>2, <2>3, <2>4, <2>5, <1>4, Zenon
  <2>6. CASE i # k /\ j = k
    BY <2>2, <2>3, <2>4, <2>6, <1>4, Zenon
  <2>7. CASE i # k /\ j # k
    <3>1. p(i) = p(j)
      BY <2>1, <2>3, <2>7, <1>4
    <3> QED  BY <3>1, <2>7, <1>3
  <2> QED  BY <2>5, <2>6, <2>7, Zenon
<1> QED  BY <1>1, <1>4, Zenon DEF Queue

\* Consuming the head removes it and nothing else.
LEMMA PopQueue ==
  ASSUME NEW q, Queue(q), q # << >>
  PROVE  /\ Queue(Tail(q)) /\ Head(q) \in Forwards /\ Head(q) \in Range(q)
         /\ \A m \in Range(Tail(q)) : m \in Range(q)
         /\ \A m \in Range(q) : m # Head(q) => m \in Range(Tail(q))
         /\ Head(q).type # "INV" =>
              \A m \in Range(Tail(q)) : ~(m.type = Head(q).type /\ m.addr = Head(q).addr)
<1>1. q \in Seq(Forwards)
  BY Zenon DEF Queue
<1>2. /\ Tail(q) \in Seq(Forwards) /\ Len(Tail(q)) = Len(q) - 1
      /\ \A i \in 1 .. Len(q) - 1 : Tail(q)[i] = q[i + 1]
      /\ Len(q) \in Nat \ {0} /\ Head(q) = q[1]
  BY <1>1
<1>3. DOMAIN q = 1 .. Len(q) /\ DOMAIN Tail(q) = 1 .. Len(q) - 1
  BY <1>1, <1>2
<1>4. \A x, y \in DOMAIN q :
        q[x].type # "INV" /\ q[x].type = q[y].type /\ q[x].addr = q[y].addr => x = y
  BY Zenon DEF Queue
<1>5. \A i \in DOMAIN Tail(q) : i + 1 \in DOMAIN q /\ Tail(q)[i] = q[i + 1] /\ i + 1 # 1
  BY <1>2, <1>3
<1>6. Queue(Tail(q))
  <2>1. ASSUME NEW i \in DOMAIN Tail(q), NEW j \in DOMAIN Tail(q),
               Tail(q)[i].type # "INV", Tail(q)[i].type = Tail(q)[j].type,
               Tail(q)[i].addr = Tail(q)[j].addr
        PROVE  i = j
    <3>1. i + 1 = j + 1
      BY <2>1, <1>4, <1>5
    <3> QED  BY <3>1, <1>2, <1>3
  <2> QED  BY <2>1, <1>2, Zenon DEF Queue
<1>7. Head(q) \in Forwards /\ Head(q) \in Range(q)
  BY <1>1, <1>2, <1>3 DEF Range
<1>8. \A m \in Range(Tail(q)) : m \in Range(q)
  BY <1>5, Zenon DEF Range
<1>9. ASSUME NEW i \in DOMAIN q, q[i] # Head(q)  PROVE q[i] \in Range(Tail(q))
  <2>1. i - 1 \in DOMAIN Tail(q) /\ Tail(q)[i - 1] = q[i]
    BY <1>9, <1>2, <1>3
  <2> QED  BY <2>1, Zenon DEF Range
<1>10. ASSUME Head(q).type # "INV", NEW i \in DOMAIN Tail(q)
       PROVE  ~(Tail(q)[i].type = Head(q).type /\ Tail(q)[i].addr = Head(q).addr)
  <2>1. 1 \in DOMAIN q
    BY <1>2, <1>3
  <2> QED  BY <2>1, <1>10, <1>2, <1>4, <1>5, Zenon
<1> QED  BY <1>6, <1>7, <1>8, <1>9, <1>10, Zenon DEF Range

----------------------------------------------------------------------------
(* What a step does to the messages *)

\* A forward message of type t about line a, naming d, is sent to c.
LEMMA SendEffect ==
  ASSUME TypeOK, MailInv, NEW c \in Caches, NEW a \in Addrs, NEW d \in Nodes,
         NEW t \in {"GETX", "INV", "WB_ACK", "WB_NACK"},
         Send(c, Forward(t, a, d)),
         t = "GETX" => d \in Caches /\ \A y \in Caches : ~Asks(c, a, y),
         t = "WB_ACK" => d = c /\ ~Acked(c, a),
         t = "WB_NACK" => d = c /\ ~Nacked(c, a)
  PROVE  /\ fwd' \in [Caches -> Seq(Forwards)]
         /\ MailInv'
         /\ \A x \in Caches : Range(fwd'[x]) =
              IF x = c THEN Range(fwd[x]) \cup {Forward(t, a, d)} ELSE Range(fwd[x])
         /\ \A x, y \in Caches, b \in Addrs :
              /\ Asks(x, b, y)' <=> Asks(x, b, y) \/ (t = "GETX" /\ x = c /\ b = a /\ y = d)
              /\ Acked(x, b)' <=> Acked(x, b) \/ (t = "WB_ACK" /\ x = c /\ b = a)
              /\ Nacked(x, b)' <=> Nacked(x, b) \/ (t = "WB_NACK" /\ x = c /\ b = a)
<1> DEFINE m == Forward(t, a, d)
<1>1. m \in Forwards /\ m.type = t /\ m.addr = a /\ m.req = d
  BY Zenon DEF Forward, Forwards
<1>2. fwd \in [Caches -> Seq(Forwards)] /\ Queue(fwd[c])
  BY Zenon DEF TypeOK, MailInv
<1>3. \A n \in Range(fwd[c]) : n \in Forwards
  BY <1>2 DEF Range
<1>4. ASSUME m.type # "INV", NEW n \in Range(fwd[c]), n.type = m.type, n.addr = m.addr
      PROVE  FALSE
  <2>1. n = Forward(t, a, n.req)
    BY <1>1, <1>3, <1>4, Zenon DEF Forward, Forwards
  <2>2. /\ t = "GETX" => n.req \in Caches
        /\ t \in {"WB_ACK", "WB_NACK"} => n.req = c
    BY <1>1, <1>4, Zenon DEF MailInv
  <2> QED  BY <1>1, <1>4, <2>1, <2>2, Zenon DEF Asks, Acked, Nacked
<1>5. PICK r \in Arrivals(fwd[c], m) : fwd' = [fwd EXCEPT ![c] = r]
  BY Zenon DEF Send
<1> HIDE DEF m
<1>6. Queue(r) /\ Range(r) = Range(fwd[c]) \cup {m}
  <2>1. ASSUME NEW q, q = fwd[c]  PROVE Queue(r) /\ Range(r) = Range(q) \cup {m}
    BY <2>1, <1>1, <1>2, <1>4, <1>5, InsertQueue, Zenon
  <2> QED  BY <2>1, Zenon
<1>7. fwd' \in [Caches -> Seq(Forwards)]
  BY <1>2, <1>5, <1>6, Zenon DEF Queue
<1>8. /\ \A x \in Caches : Queue(fwd'[x])
      /\ \A x \in Caches : Range(fwd'[x]) =
              IF x = c THEN Range(fwd[x]) \cup {m} ELSE Range(fwd[x])
  BY <1>2, <1>5, <1>6, Zenon DEF MailInv
<1>9. MailInv'
  <2>1. ASSUME NEW x \in Caches, NEW n \in Range(fwd'[x])
        PROVE  /\ n.type = "GETX" => n.req \in Caches
               /\ n.type \in {"WB_ACK", "WB_NACK"} => n.req = x
    <3>1. CASE n \in Range(fwd[x])
      BY <3>1, Zenon DEF MailInv
    <3>2. CASE x = c /\ n = m
      BY <3>2, <1>1, Zenon
    <3> QED  BY <3>1, <3>2, <1>8, Zenon
  <2> QED  BY <1>8, <2>1, Zenon DEF MailInv
<1>10. ASSUME NEW u \in {"GETX", "WB_ACK", "WB_NACK"}, NEW x \in Caches, NEW y \in Caches,
              NEW b \in Addrs
       PROVE  Forward(u, b, y) \in Range(fwd'[x]) <=>
                Forward(u, b, y) \in Range(fwd[x]) \/ (x = c /\ u = t /\ b = a /\ y = d)
  <2>1. Forward(u, b, y) = m <=> u = t /\ b = a /\ y = d
    BY Zenon DEF Forward, m
  <2> QED  BY <2>1, <1>8, Zenon
<1>11. \A x, y \in Caches, b \in Addrs :
         /\ Asks(x, b, y)' <=> Asks(x, b, y) \/ (t = "GETX" /\ x = c /\ b = a /\ y = d)
         /\ Acked(x, b)' <=> Acked(x, b) \/ (t = "WB_ACK" /\ x = c /\ b = a)
         /\ Nacked(x, b)' <=> Nacked(x, b) \/ (t = "WB_NACK" /\ x = c /\ b = a)
  BY <1>10 DEF Asks, Acked, Nacked
<1> QED  BY <1>7, <1>8, <1>9, <1>11, Zenon DEF m

\* Cache c consumes the message of type t about line a at the head of its queue.
LEMMA PopEffect ==
  ASSUME TypeOK, MailInv, NEW c \in Caches, NEW a \in Addrs,
         NEW t \in {"GETX", "INV", "WB_ACK", "WB_NACK"},
         AtHead(c, t, a), Pop(c)
  PROVE  /\ fwd' \in [Caches -> Seq(Forwards)]
         /\ MailInv'
         /\ \A x \in Caches : Range(fwd'[x]) \subseteq Range(fwd[x])
         /\ Head(fwd[c]) = Forward(t, a, Head(fwd[c]).req)
         /\ Head(fwd[c]) \in Range(fwd[c])
         /\ t = "GETX" => Head(fwd[c]).req \in Caches /\ Asks(c, a, Head(fwd[c]).req)
         /\ t = "WB_ACK" => Acked(c, a)
         /\ t = "WB_NACK" => Nacked(c, a)
         /\ \A x, y \in Caches, b \in Addrs :
              /\ Asks(x, b, y)' <=> Asks(x, b, y) /\ ~(t = "GETX" /\ x = c /\ b = a)
              /\ Acked(x, b)' <=> Acked(x, b) /\ ~(t = "WB_ACK" /\ x = c /\ b = a)
              /\ Nacked(x, b)' <=> Nacked(x, b) /\ ~(t = "WB_NACK" /\ x = c /\ b = a)
<1>1. fwd \in [Caches -> Seq(Forwards)] /\ Queue(fwd[c]) /\ fwd[c] # << >>
  BY Zenon DEF TypeOK, MailInv, AtHead
<1>2. fwd' = [fwd EXCEPT ![c] = Tail(fwd[c])]
  BY <1>1, Zenon DEF Pop
<1> DEFINE h == Head(fwd[c])
           q == Tail(fwd[c])
<1>3. /\ Queue(q) /\ h \in Forwards /\ h \in Range(fwd[c])
      /\ \A m \in Range(q) : m \in Range(fwd[c])
      /\ \A m \in Range(fwd[c]) : m # h => m \in Range(q)
      /\ h.type # "INV" => \A m \in Range(q) : ~(m.type = h.type /\ m.addr = h.addr)
  BY <1>1, PopQueue, Zenon
<1>4. h.type = t /\ h.addr = a
  BY Zenon DEF AtHead
<1> HIDE DEF h, q
<1>5. /\ fwd' \in [Caches -> Seq(Forwards)]
      /\ \A x \in Caches : fwd'[x] = IF x = c THEN q ELSE fwd[x]
  BY <1>1, <1>2, <1>3, Zenon DEF Queue, q
<1>6. \A x \in Caches : Range(fwd'[x]) \subseteq Range(fwd[x])
  BY <1>3, <1>5, Zenon
<1>7. MailInv'
  <2>1. \A x \in Caches : Queue(fwd'[x])
    BY <1>3, <1>5, Zenon DEF MailInv
  <2>2. ASSUME NEW x \in Caches, NEW n \in Range(fwd'[x])
        PROVE  /\ n.type = "GETX" => n.req \in Caches
               /\ n.type \in {"WB_ACK", "WB_NACK"} => n.req = x
    BY <1>6, Zenon DEF MailInv
  <2> QED  BY <2>1, <2>2, Zenon DEF MailInv
<1>8. h = Forward(t, a, h.req)
  BY <1>3, <1>4, Zenon DEF Forward, Forwards
<1>9. /\ t = "GETX" => h.req \in Caches /\ Asks(c, a, h.req)
      /\ t = "WB_ACK" => Acked(c, a)
      /\ t = "WB_NACK" => Nacked(c, a)
  BY <1>3, <1>4, <1>8, Zenon DEF MailInv, Asks, Acked, Nacked
<1>10. ASSUME NEW u \in {"GETX", "WB_ACK", "WB_NACK"}, NEW x \in Caches, NEW y \in Caches,
              NEW b \in Addrs
       PROVE  Forward(u, b, y) \in Range(fwd'[x]) <=>
                Forward(u, b, y) \in Range(fwd[x]) /\ ~(t = u /\ x = c /\ b = a)
  <2>1. CASE x # c
    BY <2>1, <1>5, Zenon
  <2>2. CASE x = c /\ t = u /\ b = a
    BY <2>2, <1>3, <1>4, <1>5 DEF Forward
  <2>3. CASE x = c /\ ~(t = u /\ b = a)
    BY <2>3, <1>3, <1>4, <1>5 DEF Forward
  <2> QED  BY <2>1, <2>2, <2>3, Zenon
<1>11. \A x, y \in Caches, b \in Addrs :
         /\ Asks(x, b, y)' <=> Asks(x, b, y) /\ ~(t = "GETX" /\ x = c /\ b = a)
         /\ Acked(x, b)' <=> Acked(x, b) /\ ~(t = "WB_ACK" /\ x = c /\ b = a)
         /\ Nacked(x, b)' <=> Nacked(x, b) /\ ~(t = "WB_NACK" /\ x = c /\ b = a)
  BY <1>10, Zenon DEF Asks, Acked, Nacked
<1> QED  BY <1>3, <1>5, <1>6, <1>7, <1>8, <1>9, <1>11, Zenon DEF h

\* The directory consumes request m.
LEMMA TakeEffect ==
  ASSUME TypeOK, NetInv, NEW m \in reqs, reqs' = reqs \ {m}
  PROVE  /\ m \in Requests /\ Requested(m.type, m.from, m.addr)
         /\ reqs' \subseteq Requests
         /\ \A x \in Caches, b \in Addrs :
              /\ Getting(x, b)' <=> Getting(x, b) /\ ~(x = m.from /\ b = m.addr)
              /\ Putting(x, b)' <=> Putting(x, b) /\ ~(x = m.from /\ b = m.addr)
<1>1. m \in Requests /\ reqs' \subseteq Requests
  BY Zenon DEF TypeOK
<1>2. ASSUME NEW u, NEW x \in Caches, NEW b \in Addrs
      PROVE  Requested(u, x, b)' <=> Requested(u, x, b) /\ ~(x = m.from /\ b = m.addr)
  BY Zenon DEF Requested, NetInv
<1> QED  BY <1>1, <1>2 DEF Requested, Getting, Putting

\* Cache c sends a request of type t for line a; it has none on its way.
LEMMA RequestEffect ==
  ASSUME TypeOK, NetInv, NEW c \in Caches, NEW a \in Addrs, NEW t \in {"GETX", "PUTX"},
         NEW v \in Block, reqs' = reqs \cup {Request(t, c, a, v)},
         ~Getting(c, a), ~Putting(c, a)
  PROVE  /\ reqs' \subseteq Requests
         /\ \A m, n \in reqs' : m.from = n.from /\ m.addr = n.addr => m = n
         /\ \A x \in Caches, b \in Addrs :
              /\ Getting(x, b)' <=> Getting(x, b) \/ (t = "GETX" /\ x = c /\ b = a)
              /\ Putting(x, b)' <=> Putting(x, b) \/ (t = "PUTX" /\ x = c /\ b = a)
<1> DEFINE r == Request(t, c, a, v)
<1>1. r \in Requests /\ r.type = t /\ r.from = c /\ r.addr = a
  BY Zenon DEF Request, Requests
<1> HIDE DEF r
<1>2. reqs' = reqs \cup {r} /\ reqs' \subseteq Requests
  BY <1>1, Zenon DEF TypeOK, r
<1>3. \A m \in reqs : ~(m.from = c /\ m.addr = a)
  BY Zenon DEF TypeOK, Requests, Getting, Putting, Requested
<1>4. \A m, n \in reqs' : m.from = n.from /\ m.addr = n.addr => m = n
  BY <1>1, <1>2, <1>3, Zenon DEF NetInv
<1>5. ASSUME NEW u, NEW x \in Caches, NEW b \in Addrs
      PROVE  Requested(u, x, b)' <=> Requested(u, x, b) \/ (t = u /\ x = c /\ b = a)
  BY <1>1, <1>2, Zenon DEF Requested
<1> QED  BY <1>2, <1>4, <1>5, Zenon DEF Getting, Putting

----------------------------------------------------------------------------
(* The steps of a cache keep the protocol invariant *)

\* A step that changes no line in a cache and grants nothing new keeps the
\* rules for lines that are waited for.  It may send the data of a fetched line.
LEMMA GetFrame ==
  ASSUME GetInv, l1' = l1,
         \A b \in Addrs : owner'[b] = owner[b] \/ owner'[b] \notin Caches,
         \A x, y \in Caches, b \in Addrs :
           /\ Asks(x, b, y)' => Asks(x, b, y)
           /\ Getting(x, b)' => Getting(x, b)
           /\ Fetching(x, b)' => Fetching(x, b)
           /\ Sent(x, b)' => Sent(x, b) \/ (Fetching(x, b) /\ ~Fetching(x, b)')
  PROVE  GetInv'
BY DEF GetInv

\* A step that changes no line that is written back and answers no writeback, or
\* tells the cache of one that is stored, keeps the rules for writebacks.  It may
\* give a line to a cache that waits for it and ask its owner for it.
LEMMA PutFrame ==
  ASSUME PutInv,
         \A x \in Caches, b \in Addrs :
           \/ l1'[x][b] = l1[x][b]
           \/ ~Putting(x, b)' /\ ~Storing(x, b)' /\ ~Acked(x, b)' /\ ~Nacked(x, b)',
         \A x \in Caches, b \in Addrs :
           owner'[b] = x => owner[b] = x \/ l1[x][b] \in Waiting,
         \A x, y \in Caches, b \in Addrs :
           /\ Asks(x, b, y)' => Asks(x, b, y) \/ owner[b] = x
           /\ Putting(x, b)' => Putting(x, b)
           /\ Nacked(x, b)' => Nacked(x, b)
           /\ Storing(x, b)' \/ Acked(x, b)' => Storing(x, b) \/ Acked(x, b)
           /\ ~(Storing(x, b)' /\ Acked(x, b)')
  PROVE  PutInv'
BY DEF PutInv, Waiting

\* A step after which a line is in no place where it was not stays in one place.
LEMMA CopyFrame ==
  ASSUME OneCopy, NoNewHolder,
         \A x \in Caches, b \in Addrs : Sent(x, b)' => Sent(x, b),
         \A b \in Addrs :
           \/ AtDir(b)' => AtDir(b)
           \/ \A x \in Caches : ~Holds(x, b)' /\ ~Sent(x, b)'
  PROVE  OneCopy'
BY Zenon DEF OneCopy, NoNewHolder

core == <<l1, fwd, reqs, resps, dir, owner, tbe, memq>>

\* Hits, replacements of invalid lines and new requests touch no line's state.
LEMMA QuietStep ==
  ASSUME CohInv, UNCHANGED core
  PROVE  CohInv' /\ NoNewHolder
<1>1. MailInv'
  BY Zenon DEF CohInv, core, MailInv
<1>2. NetInv' /\ DirInv'
  BY Zenon DEF CohInv, core, NetInv, DirInv, DirLine
<1>3. \A x, y \in Caches, b \in Addrs :
        /\ Asks(x, b, y)' <=> Asks(x, b, y)
        /\ Acked(x, b)' <=> Acked(x, b)
        /\ Nacked(x, b)' <=> Nacked(x, b)
        /\ Getting(x, b)' <=> Getting(x, b)
        /\ Putting(x, b)' <=> Putting(x, b)
        /\ Fetching(x, b)' <=> Fetching(x, b)
        /\ Storing(x, b)' <=> Storing(x, b)
        /\ Sent(x, b)' <=> Sent(x, b)
  BY DEF core, Asks, Acked, Nacked, Getting, Putting, Requested, Fetching, Storing,
         InMemory, Sent
<1>4. l1' = l1 /\ owner' = owner /\ dir' = dir
  BY Zenon DEF core
<1>5. GetInv'
  BY <1>3, <1>4, GetFrame, Zenon DEF CohInv
<1>6. PutInv'
  BY <1>3, <1>4, PutFrame, Zenon DEF CohInv, PutInv
<1>7. NoNewHolder
  BY <1>3, <1>4, Zenon DEF NoNewHolder, Holds
<1>8. OneCopy'
  BY <1>7, <1>3, <1>4, CopyFrame, Zenon DEF CohInv, AtDir
<1> QED  BY <1>1, <1>2, <1>5, <1>6, <1>7, <1>8, Zenon DEF CohInv

\* A miss asks the directory for the line.
LEMMA MissStep ==
  ASSUME IInv, NEW c \in Caches, NEW op \in Ops, NEW a \in Addrs, Miss(c, op, a)
  PROVE  CohInv' /\ NoNewHolder
<1> USE DEF IInv, CohInv
<1>1. PICK s \in Waiting : l1' = [l1 EXCEPT ![c][a] = s]
  BY Zenon DEF Miss, Waiting
<1>2. \A x \in Caches, b \in Addrs : l1'[x][b] = IF x = c /\ b = a THEN s ELSE l1[x][b]
  BY <1>1, Zenon DEF TypeOK
<1>3. /\ l1[c][a] = "I" /\ reqs' = reqs \cup {Request("GETX", c, a, Zero)}
      /\ fwd' = fwd /\ resps' = resps /\ dir' = dir /\ owner' = owner /\ tbe' = tbe
      /\ memq' = memq
  BY Zenon DEF Miss, dirVars
<1>4. ~Getting(c, a) /\ ~Putting(c, a)
  BY <1>3, Zenon DEF GetInv, PutInv, Waiting
<1>5. Zero \in Block
  BY ProtocolAssumption, Zenon DEF Zero, Block
<1>6. /\ \A m, n \in reqs' : m.from = n.from /\ m.addr = n.addr => m = n
      /\ \A x \in Caches, b \in Addrs :
           /\ Getting(x, b)' <=> Getting(x, b) \/ (x = c /\ b = a)
           /\ Putting(x, b)' <=> Putting(x, b)
  BY <1>3, <1>4, <1>5, RequestEffect
<1>7. \A x, y \in Caches, b \in Addrs :
        /\ Asks(x, b, y)' <=> Asks(x, b, y)
        /\ Acked(x, b)' <=> Acked(x, b)
        /\ Nacked(x, b)' <=> Nacked(x, b)
        /\ Fetching(x, b)' <=> Fetching(x, b)
        /\ Storing(x, b)' <=> Storing(x, b)
        /\ Sent(x, b)' <=> Sent(x, b)
  BY <1>3, Zenon DEF Asks, Acked, Nacked, Fetching, Storing, InMemory, Sent
<1>8. MailInv' /\ NetInv' /\ DirInv'
  <2>1. MailInv'  BY <1>3, Zenon DEF MailInv
  <2>2. NetInv'  BY <1>3, <1>6, Zenon DEF NetInv
  <2>3. DirInv'  BY <1>3, Zenon DEF DirInv, DirLine
  <2> QED  BY <2>1, <2>2, <2>3, Zenon
<1>9. GetInv'
  BY <1>2, <1>3, <1>6, <1>7 DEF GetInv, Waiting
<1>10. PutInv'
  BY <1>2, <1>3, <1>6, <1>7 DEF PutInv, Waiting
<1>11. NoNewHolder
  BY <1>2, <1>3, <1>7, Zenon DEF NoNewHolder, Holds, Waiting
<1>12. OneCopy'
  BY <1>11, <1>3, <1>7, CopyFrame, Zenon DEF AtDir
<1> QED  BY <1>8, <1>9, <1>10, <1>11, <1>12, Zenon

\* A cache gives up a modified line and sends its block to the directory.
LEMMA WriteBackStep ==
  ASSUME IInv, NEW c \in Caches, NEW a \in Addrs, WriteBack(c, a)
  PROVE  CohInv' /\ NoNewHolder
<1> USE DEF IInv, CohInv
<1>1. \A x \in Caches, b \in Addrs : l1'[x][b] = IF x = c /\ b = a THEN "MI" ELSE l1[x][b]
  BY Zenon DEF WriteBack, TypeOK
<1>2. /\ l1[c][a] = "M" /\ reqs' = reqs \cup {Request("PUTX", c, a, blk[c][a])}
      /\ fwd' = fwd /\ resps' = resps /\ dir' = dir /\ owner' = owner /\ tbe' = tbe
      /\ memq' = memq
  BY Zenon DEF WriteBack, dirVars
<1>3. ~Getting(c, a) /\ ~Putting(c, a) /\ ~Storing(c, a) /\ ~Acked(c, a) /\ ~Nacked(c, a)
  BY <1>2, Zenon DEF GetInv, PutInv, Waiting
<1>4. PICK v \in Block : v = blk[c][a]
  BY Zenon DEF TypeOK
<1>5. /\ \A m, n \in reqs' : m.from = n.from /\ m.addr = n.addr => m = n
      /\ \A x \in Caches, b \in Addrs :
           /\ Getting(x, b)' <=> Getting(x, b)
           /\ Putting(x, b)' <=> Putting(x, b) \/ (x = c /\ b = a)
  BY <1>2, <1>3, <1>4, RequestEffect
<1>6. \A x, y \in Caches, b \in Addrs :
        /\ Asks(x, b, y)' <=> Asks(x, b, y)
        /\ Acked(x, b)' <=> Acked(x, b)
        /\ Nacked(x, b)' <=> Nacked(x, b)
        /\ Fetching(x, b)' <=> Fetching(x, b)
        /\ Storing(x, b)' <=> Storing(x, b)
        /\ Sent(x, b)' <=> Sent(x, b)
  BY <1>2, Zenon DEF Asks, Acked, Nacked, Fetching, Storing, InMemory, Sent
<1>7. MailInv' /\ NetInv' /\ DirInv'
  <2>1. MailInv'  BY <1>2, Zenon DEF MailInv
  <2>2. NetInv'  BY <1>2, <1>5, Zenon DEF NetInv
  <2>3. DirInv'  BY <1>2, Zenon DEF DirInv, DirLine
  <2> QED  BY <2>1, <2>2, <2>3, Zenon
<1>8. GetInv'
  BY <1>1, <1>2, <1>5, <1>6 DEF GetInv, Waiting
<1>9. PutInv'
  BY <1>1, <1>2, <1>3, <1>5, <1>6 DEF PutInv
<1>10. NoNewHolder
  BY <1>1, <1>2, <1>3, <1>6, Zenon DEF NoNewHolder, Holds
<1>11. OneCopy'
  BY <1>10, <1>2, <1>6, CopyFrame, Zenon DEF AtDir
<1> QED  BY <1>7, <1>8, <1>9, <1>10, <1>11, Zenon

\* The data arrives: LoadData and StoreData.
LEMMA DataStep ==
  ASSUME IInv, NEW c \in Caches, NEW a \in Addrs, NEW m \in resps, m.to = c, m.addr = a,
         l1[c][a] \in Waiting, l1' = [l1 EXCEPT ![c][a] = "M"], resps' = resps \ {m},
         UNCHANGED <<fwd, reqs, dir, owner, tbe, memq>>
  PROVE  CohInv'
<1> USE DEF IInv, CohInv
<1>1. \A x \in Caches, b \in Addrs : l1'[x][b] = IF x = c /\ b = a THEN "M" ELSE l1[x][b]
  BY Zenon DEF TypeOK
<1>2. Sent(c, a)
  BY Zenon DEF Sent
<1>3. \A x \in Caches, b \in Addrs : Sent(x, b)' <=> Sent(x, b) /\ ~(x = c /\ b = a)
  BY Zenon DEF Sent, NetInv
<1>4. \A x \in Caches : ~Sent(x, a)'
  BY Zenon DEF Sent, NetInv
<1>5. \A x, y \in Caches, b \in Addrs :
        /\ Asks(x, b, y)' <=> Asks(x, b, y)
        /\ Acked(x, b)' <=> Acked(x, b)
        /\ Nacked(x, b)' <=> Nacked(x, b)
        /\ Getting(x, b)' <=> Getting(x, b)
        /\ Putting(x, b)' <=> Putting(x, b)
        /\ Fetching(x, b)' <=> Fetching(x, b)
        /\ Storing(x, b)' <=> Storing(x, b)
  BY DEF Asks, Acked, Nacked, Getting, Putting, Requested, Fetching, Storing, InMemory
<1>6. MailInv' /\ NetInv' /\ DirInv'
  <2>1. MailInv'  BY Zenon DEF MailInv
  <2>2. NetInv'  BY Zenon DEF NetInv
  <2>3. DirInv'  BY Zenon DEF DirInv, DirLine
  <2> QED  BY <2>1, <2>2, <2>3, Zenon
<1>7. GetInv'
  BY <1>1, <1>2, <1>3, <1>5 DEF GetInv
<1>8. PutInv'
  BY <1>1, <1>5 DEF PutInv, Waiting
<1>9. OneCopy'
  BY <1>1, <1>2, <1>3, <1>4, <1>5 DEF OneCopy, Holds, AtDir
<1> QED  BY <1>6, <1>7, <1>8, <1>9, Zenon

\* An invalidation that is ignored only leaves the queue.
LEMMA IgnoreStep ==
  ASSUME IInv, NEW c \in Caches, NEW a \in Addrs, InvalidateIgnored(c, a)
  PROVE  CohInv' /\ NoNewHolder
<1> USE DEF IInv, CohInv
<1>1. /\ AtHead(c, "INV", a) /\ Pop(c)
      /\ l1' = l1 /\ reqs' = reqs /\ resps' = resps /\ dir' = dir /\ owner' = owner
      /\ tbe' = tbe /\ memq' = memq
  BY Zenon DEF InvalidateIgnored, cacheVars, dirVars
<1>2. /\ MailInv'
      /\ \A x, y \in Caches, b \in Addrs :
           /\ Asks(x, b, y)' <=> Asks(x, b, y)
           /\ Acked(x, b)' <=> Acked(x, b)
           /\ Nacked(x, b)' <=> Nacked(x, b)
  BY <1>1, PopEffect, Zenon
<1>3. \A x \in Caches, b \in Addrs :
        /\ Getting(x, b)' <=> Getting(x, b)
        /\ Putting(x, b)' <=> Putting(x, b)
        /\ Fetching(x, b)' <=> Fetching(x, b)
        /\ Storing(x, b)' <=> Storing(x, b)
        /\ Sent(x, b)' <=> Sent(x, b)
  BY <1>1, Zenon DEF Getting, Putting, Requested, Fetching, Storing, InMemory, Sent
<1>4. NetInv' /\ DirInv'
  BY <1>1, Zenon DEF NetInv, DirInv, DirLine
<1>5. GetInv'
  BY <1>1, <1>2, <1>3, GetFrame, Zenon
<1>6. PutInv'
  BY <1>1, <1>2, <1>3, PutFrame, Zenon DEF PutInv
<1>7. NoNewHolder
  BY <1>1, <1>2, <1>3, Zenon DEF NoNewHolder, Holds
<1>8. OneCopy'
  BY <1>7, <1>1, <1>3, CopyFrame, Zenon DEF AtDir
<1> QED  BY <1>2, <1>4, <1>5, <1>6, <1>7, <1>8, Zenon

\* The holder of the line answers a forwarded request with its data.
LEMMA ForwardStep ==
  ASSUME IInv, NEW c \in Caches, NEW a \in Addrs, Fwd_GETX(c, a)
  PROVE  CohInv' /\ NoNewHolder
<1> USE DEF IInv, CohInv
<1>1. /\ AtHead(c, "GETX", a) /\ Pop(c)
      /\ l1[c][a] \in {"M", "MI", "MII"}
      /\ resps' = resps \cup {Data(Head(fwd[c]).req, a, blk[c][a])}
      /\ reqs' = reqs /\ dir' = dir /\ owner' = owner /\ tbe' = tbe /\ memq' = memq
  BY Zenon DEF Fwd_GETX, dirVars
<1>2. /\ MailInv'
      /\ Head(fwd[c]).req \in Caches /\ Asks(c, a, Head(fwd[c]).req)
      /\ \A x, y \in Caches, b \in Addrs :
           /\ Asks(x, b, y)' <=> Asks(x, b, y) /\ ~(x = c /\ b = a)
           /\ Acked(x, b)' <=> Acked(x, b)
           /\ Nacked(x, b)' <=> Nacked(x, b)
  BY <1>1, PopEffect
<1>3. PICK d \in Caches : d = Head(fwd[c]).req /\ Asks(c, a, d)
  BY <1>2, Zenon
<1>4. PICK s \in {"I", "II"} : /\ l1' = [l1 EXCEPT ![c][a] = s]
                               /\ l1[c][a] = "MI" <=> s = "II"
  BY <1>1, Zenon DEF Fwd_GETX, AfterFwd
<1>5. \A x \in Caches, b \in Addrs : l1'[x][b] = IF x = c /\ b = a THEN s ELSE l1[x][b]
  BY <1>4, Zenon DEF TypeOK
<1>6. \A x, y \in Caches, b \in Addrs :
        /\ Getting(x, b)' <=> Getting(x, b)
        /\ Putting(x, b)' <=> Putting(x, b)
        /\ Fetching(x, b)' <=> Fetching(x, b)
        /\ Storing(x, b)' <=> Storing(x, b)
        /\ Sent(x, b)' <=> Sent(x, b) \/ (x = d /\ b = a)
  <2>1. \A x \in Caches, b \in Addrs : Sent(x, b)' <=> Sent(x, b) \/ (x = d /\ b = a)
    <3> DEFINE r == Data(d, a, blk[c][a])
    <3>1. r.to = d /\ r.addr = a /\ resps' = resps \cup {r}
      BY <1>1, <1>3, Zenon DEF Data
    <3> HIDE DEF r
    <3> QED  BY <3>1, Zenon DEF Sent
  <2> QED  BY <2>1, <1>1, Zenon DEF Getting, Putting, Requested, Fetching, Storing, InMemory
<1>7. Holds(c, a)
  BY <1>1, <1>3, Zenon DEF PutInv, Holds
<1>8. \A m \in resps : m.addr # a
  BY <1>7, Zenon DEF OneCopy, Sent, TypeOK, Datas
<1>9. NetInv' /\ DirInv'
  <2>1. NetInv'  BY <1>1, <1>8 DEF NetInv, Data
  <2>2. DirInv'  BY <1>1, Zenon DEF DirInv, DirLine
  <2> QED  BY <2>1, <2>2, Zenon
<1>10. GetInv'
  BY <1>1, <1>2, <1>3, <1>5, <1>6 DEF GetInv, Waiting
<1>11. PutInv'
  BY <1>1, <1>2, <1>3, <1>4, <1>5, <1>6 DEF PutInv
<1>12. NoNewHolder
  BY <1>1, <1>2, <1>5, <1>6, <1>7, Zenon DEF NoNewHolder, Holds
<1>13. OneCopy'
  <2>1. \A x \in Caches : ~Holds(x, a)'
    BY <1>5, <1>7, <1>12, Zenon DEF OneCopy, NoNewHolder, Holds
  <2>2. ~AtDir(a) /\ \A b \in Addrs : AtDir(b)' <=> AtDir(b)
    BY <1>1, <1>7, Zenon DEF OneCopy, AtDir
  <2> QED  BY <2>1, <2>2, <1>6, <1>12 DEF OneCopy, NoNewHolder
<1> QED  BY <1>2, <1>9, <1>10, <1>11, <1>12, <1>13, Zenon

\* The directory has stored the block that the cache wrote back.
LEMMA AckStep ==
  ASSUME IInv, NEW c \in Caches, NEW a \in Addrs, Writeback_Ack(c, a)
  PROVE  CohInv' /\ NoNewHolder
<1> USE DEF IInv, CohInv
<1>1. /\ AtHead(c, "WB_ACK", a) /\ Pop(c)
      /\ l1[c][a] = "MI" /\ l1' = [l1 EXCEPT ![c][a] = "I"]
      /\ reqs' = reqs /\ resps' = resps /\ dir' = dir /\ owner' = owner
      /\ tbe' = tbe /\ memq' = memq
  BY Zenon DEF Writeback_Ack, dirVars
<1>2. /\ MailInv' /\ Acked(c, a)
      /\ \A x, y \in Caches, b \in Addrs :
           /\ Asks(x, b, y)' <=> Asks(x, b, y)
           /\ Acked(x, b)' <=> Acked(x, b) /\ ~(x = c /\ b = a)
           /\ Nacked(x, b)' <=> Nacked(x, b)
  BY <1>1, PopEffect
<1>3. \A x \in Caches, b \in Addrs : l1'[x][b] = IF x = c /\ b = a THEN "I" ELSE l1[x][b]
  BY <1>1, Zenon DEF TypeOK
<1>4. \A x \in Caches, b \in Addrs :
        /\ Getting(x, b)' <=> Getting(x, b)
        /\ Putting(x, b)' <=> Putting(x, b)
        /\ Fetching(x, b)' <=> Fetching(x, b)
        /\ Storing(x, b)' <=> Storing(x, b)
        /\ Sent(x, b)' <=> Sent(x, b)
  BY <1>1, Zenon DEF Getting, Putting, Requested, Fetching, Storing, InMemory, Sent
<1>5. NetInv' /\ DirInv'
  BY <1>1, Zenon DEF NetInv, DirInv, DirLine
<1>6. GetInv'
  BY <1>1, <1>2, <1>3, <1>4 DEF GetInv, PutInv, Waiting
<1>7. PutInv'
  <2>1. ~Putting(c, a) /\ ~Storing(c, a) /\ ~Nacked(c, a)
    BY <1>2, Zenon DEF PutInv
  <2>2. \A x \in Caches, b \in Addrs :
          \/ l1'[x][b] = l1[x][b]
          \/ ~Putting(x, b)' /\ ~Storing(x, b)' /\ ~Acked(x, b)' /\ ~Nacked(x, b)'
    BY <2>1, <1>2, <1>3, <1>4, Zenon
  <2>3. \A x \in Caches, b \in Addrs : ~(Storing(x, b)' /\ Acked(x, b)')
    BY <1>2, <1>4, Zenon DEF PutInv
  <2> QED  BY <2>2, <2>3, <1>1, <1>2, <1>4, PutFrame, Zenon
<1>8. NoNewHolder
  BY <1>1, <1>2, <1>3, <1>4 DEF NoNewHolder, Holds
<1>9. OneCopy'
  BY <1>8, <1>1, <1>4, CopyFrame, Zenon DEF AtDir
<1> QED  BY <1>2, <1>5, <1>6, <1>7, <1>8, <1>9, Zenon

\* The directory has refused the block that the cache wrote back.
LEMMA NackStep ==
  ASSUME IInv, NEW c \in Caches, NEW a \in Addrs, Writeback_Nack(c, a)
  PROVE  CohInv' /\ NoNewHolder
<1> USE DEF IInv, CohInv
<1>1. /\ AtHead(c, "WB_NACK", a) /\ Pop(c)
      /\ l1[c][a] \in {"MI", "II"}
      /\ reqs' = reqs /\ resps' = resps /\ dir' = dir /\ owner' = owner
      /\ tbe' = tbe /\ memq' = memq
  BY Zenon DEF Writeback_Nack, dirVars
<1>2. /\ MailInv' /\ Nacked(c, a)
      /\ \A x, y \in Caches, b \in Addrs :
           /\ Asks(x, b, y)' <=> Asks(x, b, y)
           /\ Acked(x, b)' <=> Acked(x, b)
           /\ Nacked(x, b)' <=> Nacked(x, b) /\ ~(x = c /\ b = a)
  BY <1>1, PopEffect
<1>3. PICK s \in {"I", "MII"} : /\ l1' = [l1 EXCEPT ![c][a] = s]
                                /\ l1[c][a] = "MI" <=> s = "MII"
  BY <1>1, Zenon DEF Writeback_Nack
<1>4. \A x \in Caches, b \in Addrs : l1'[x][b] = IF x = c /\ b = a THEN s ELSE l1[x][b]
  BY <1>3, Zenon DEF TypeOK
<1>5. \A x \in Caches, b \in Addrs :
        /\ Getting(x, b)' <=> Getting(x, b)
        /\ Putting(x, b)' <=> Putting(x, b)
        /\ Fetching(x, b)' <=> Fetching(x, b)
        /\ Storing(x, b)' <=> Storing(x, b)
        /\ Sent(x, b)' <=> Sent(x, b)
  BY <1>1, Zenon DEF Getting, Putting, Requested, Fetching, Storing, InMemory, Sent
<1>6. NetInv' /\ DirInv'
  BY <1>1, Zenon DEF NetInv, DirInv, DirLine
<1>7. ~Putting(c, a) /\ ~Storing(c, a) /\ ~Acked(c, a) /\ owner[a] # c
  BY <1>2, Zenon DEF PutInv
<1>8. GetInv'
  BY <1>1, <1>2, <1>3, <1>4, <1>5, <1>7 DEF GetInv, Waiting
<1>9. PutInv'
  <2>1. \A x \in Caches, b \in Addrs :
          \/ l1'[x][b] = l1[x][b]
          \/ ~Putting(x, b)' /\ ~Storing(x, b)' /\ ~Acked(x, b)' /\ ~Nacked(x, b)'
    BY <1>2, <1>4, <1>5, <1>7, Zenon
  <2>2. \A x \in Caches, b \in Addrs : ~(Storing(x, b)' /\ Acked(x, b)')
    BY <1>2, <1>5, Zenon DEF PutInv
  <2> QED  BY <2>1, <2>2, <1>1, <1>2, <1>5, PutFrame, Zenon
<1>10. NoNewHolder
  BY <1>1, <1>2, <1>3, <1>4, <1>5, <1>7 DEF NoNewHolder, Holds
<1>11. OneCopy'
  BY <1>10, <1>1, <1>5, CopyFrame, Zenon DEF AtDir
<1> QED  BY <1>2, <1>6, <1>8, <1>9, <1>10, <1>11, Zenon

----------------------------------------------------------------------------
(* The steps of a directory keep the protocol invariant *)

\* An access to memory is not None.
LEMMA AccessIsSome ==
  ASSUME NEW x \in Nodes
  PROVE  /\ MemoryRead(x) \in MemoryOps /\ MemoryRead(x) # None
         /\ MemoryRead(x).type = "READ" /\ MemoryRead(x).sender = x
         /\ \A v \in Block, n \in Nat :
              /\ MemoryWrite(x, v, n) \in MemoryOps /\ MemoryWrite(x, v, n) # None
              /\ MemoryWrite(x, v, n).type = "WB" /\ MemoryWrite(x, v, n).sender = x
<1>1. Zero \in Block
  BY ProtocolAssumption, Zenon DEF Zero, Block
<1>2. MemoryRead(x) \in MemoryOps
  BY <1>1, Zenon DEF MemoryRead, MemoryOps
<1>3. \A v \in Block, n \in Nat : MemoryWrite(x, v, n) \in MemoryOps
  BY Zenon DEF MemoryWrite, MemoryOps
<1> QED  BY <1>2, <1>3, NoneAssumption, Zenon DEF MemoryRead, MemoryWrite

\* A step of the directory on one line leaves what it keeps for the others.
LEMMA DirFrame ==
  ASSUME DirInv, NEW a \in Addrs, DirLine(a)',
         \A b \in Addrs : b # a =>
           /\ dir'[b] = dir[b] /\ owner'[b] = owner[b]
           /\ memq'[b] = memq[b] /\ tbe'[b] = tbe[b]
  PROVE  DirInv'
BY DEF DirInv, DirLine

\* The directory fetches an idle line for the requestor.
LEMMA GetIdleStep ==
  ASSUME IInv, NEW m \in reqs, GetIdle(m)
  PROVE  CohInv' /\ NoNewHolder
<1> USE DEF IInv, CohInv
<1> DEFINE c == m.from
           a == m.addr
           q == MemoryRead(c)
<1>1. /\ m.type = "GETX" /\ reqs' = reqs \ {m} /\ dir[a] = "I"
      /\ DirStep(a, "IM", c, None, q)
      /\ l1' = l1 /\ fwd' = fwd /\ resps' = resps
  BY Zenon DEF GetIdle, Take, cacheVars
<1>2. c \in Caches /\ a \in Addrs /\ Getting(c, a)
  BY <1>1, Zenon DEF TypeOK, Requests, Getting, Requested
<1>3. q # None /\ q.type = "READ" /\ q.sender = c
  BY <1>2, AccessIsSome, Zenon DEF Nodes
<1> HIDE DEF q
<1>4. \A b \in Addrs : /\ dir'[b] = IF b = a THEN "IM" ELSE dir[b]
                       /\ owner'[b] = IF b = a THEN c ELSE owner[b]
                       /\ tbe'[b] = IF b = a THEN None ELSE tbe[b]
                       /\ memq'[b] = IF b = a THEN q ELSE memq[b]
  BY <1>1, <1>2, Zenon DEF TypeOK, DirStep
<1>5. \A x \in Caches, b \in Addrs :
           /\ Getting(x, b)' <=> Getting(x, b) /\ ~(x = c /\ b = a)
           /\ Putting(x, b)' <=> Putting(x, b) /\ ~(x = c /\ b = a)
  BY <1>1, TakeEffect, Zenon
<1> HIDE DEF c, a
<1>6. /\ memq[a] = None /\ owner[a] = None
      /\ \A x \in Caches : ~Fetching(x, a) /\ ~Storing(x, a)
  BY <1>1, <1>2, Zenon DEF DirInv, DirLine, Fetching, Storing, InMemory
<1>7. \A x, y \in Caches, b \in Addrs :
        /\ Asks(x, b, y)' <=> Asks(x, b, y)
        /\ Acked(x, b)' <=> Acked(x, b)
        /\ Nacked(x, b)' <=> Nacked(x, b)
        /\ Sent(x, b)' <=> Sent(x, b)
        /\ Fetching(x, b)' <=> Fetching(x, b) \/ (x = c /\ b = a)
        /\ Storing(x, b)' <=> Storing(x, b)
  <2>1. \A x \in Caches, b \in Addrs :
          /\ Fetching(x, b)' <=> Fetching(x, b) \/ (x = c /\ b = a)
          /\ Storing(x, b)' <=> Storing(x, b)
    BY <1>2, <1>3, <1>4, <1>6, Zenon DEF Fetching, Storing, InMemory
  <2> QED  BY <2>1, <1>1, Zenon DEF Asks, Acked, Nacked, Sent
<1>8. MailInv' /\ NetInv'
  <2>1. MailInv'  BY <1>1, Zenon DEF MailInv
  <2>2. NetInv'  BY <1>1, Zenon DEF NetInv
  <2> QED  BY <2>1, <2>2, Zenon
<1>9. DirInv'
  <2>1. DirLine(a)'
    BY <1>2, <1>3, <1>4, ProtocolAssumption, Zenon DEF DirInv, DirLine
  <2> QED  BY <2>1, <1>2, <1>4, DirFrame, Zenon
<1>10. GetInv'
  <2>1. /\ l1[c][a] \in Waiting /\ ~Sent(c, a)
        /\ \A x \in Caches : ~Asks(x, a, c) /\ ~Asks(c, a, x)
    BY <1>2, Zenon DEF GetInv
  <2>2. ASSUME NEW x \in Caches, NEW b \in Addrs, Getting(x, b)'
        PROVE  /\ l1[x][b] \in Waiting /\ owner'[b] # x /\ ~Sent(x, b) /\ ~Fetching(x, b)'
               /\ \A y \in Caches : ~Asks(y, b, x) /\ ~Asks(x, b, y)
    BY <2>2, <1>4, <1>5, <1>7, Zenon DEF GetInv
  <2>3. ASSUME NEW x \in Caches, NEW b \in Addrs
        PROVE  /\ Sent(x, b) => l1[x][b] \in Waiting /\ ~Fetching(x, b)'
               /\ Fetching(x, b)' => l1[x][b] \in Waiting
               /\ l1[x][b] \in {"I", "II", "MII"} => owner'[b] # x
    BY <2>1, <1>4, <1>7, Zenon DEF GetInv, Waiting
  <2>4. ASSUME NEW x \in Caches, NEW y \in Caches, NEW b \in Addrs, Asks(x, b, y)
        PROVE  ~Fetching(y, b)' /\ owner'[b] # x
    BY <2>1, <2>4, <1>4, <1>7 DEF GetInv
  <2> QED  BY <2>2, <2>3, <2>4, <1>1, <1>7 DEF GetInv
<1>11. PutInv'
  <2>1. l1[c][a] \in Waiting
    BY <1>2, Zenon DEF GetInv
  <2>2. \A x \in Caches, b \in Addrs : owner'[b] = x => owner[b] = x \/ l1[x][b] \in Waiting
    BY <2>1, <1>4, Zenon
  <2>3. \A x \in Caches, b \in Addrs : ~(Storing(x, b)' /\ Acked(x, b)')
    BY <1>7, Zenon DEF PutInv
  <2> QED  BY <2>2, <2>3, <1>1, <1>5, <1>7, PutFrame, Zenon
<1>12. NoNewHolder
  BY <1>1, <1>4, <1>7, Zenon DEF NoNewHolder, Holds
<1>13. OneCopy'
  BY <1>1, <1>4, <1>7, <1>12, CopyFrame, Zenon DEF AtDir
<1> QED  BY <1>8, <1>9, <1>10, <1>11, <1>12, <1>13, Zenon

\* The directory hands an owned line over: the old owner shall send the data.
LEMMA GetOwnedStep ==
  ASSUME IInv, NEW m \in reqs, GetOwned(m)
  PROVE  CohInv' /\ NoNewHolder
<1> USE DEF IInv, CohInv
<1> DEFINE c == m.from
           a == m.addr
<1>1. /\ m.type = "GETX" /\ reqs' = reqs \ {m} /\ dir[a] = "M"
      /\ Send(owner[a], Forward("GETX", a, c))
      /\ DirStep(a, "M", c, tbe[a], memq[a])
      /\ l1' = l1 /\ resps' = resps
  BY Zenon DEF GetOwned, Take, ForwardTo, cacheVars
<1>2. c \in Caches /\ a \in Addrs /\ Getting(c, a)
  BY <1>1, Zenon DEF TypeOK, Requests, Getting, Requested
<1>3. /\ dir' = dir /\ tbe' = tbe /\ memq' = memq
      /\ \A b \in Addrs : owner'[b] = IF b = a THEN c ELSE owner[b]
  BY <1>1, <1>2, Zenon DEF TypeOK, DirStep
<1>4. \A x \in Caches, b \in Addrs :
        /\ Getting(x, b)' <=> Getting(x, b) /\ ~(x = c /\ b = a)
        /\ Putting(x, b)' <=> Putting(x, b) /\ ~(x = c /\ b = a)
  BY <1>1, TakeEffect, Zenon
<1> HIDE DEF c, a
<1>5. PICK o \in Caches : o = owner[a]
  BY <1>1, <1>2, Zenon DEF DirInv, DirLine, TypeOK, Nodes
<1>6. \A y \in Caches : ~Asks(o, a, y)
  BY <1>2, <1>5, Zenon DEF GetInv
<1>7. /\ MailInv'
      /\ \A x, y \in Caches, b \in Addrs :
           /\ Asks(x, b, y)' <=> Asks(x, b, y) \/ (x = o /\ b = a /\ y = c)
           /\ Acked(x, b)' <=> Acked(x, b)
           /\ Nacked(x, b)' <=> Nacked(x, b)
  <2>1. Send(o, Forward("GETX", a, c)) /\ c \in Nodes
    BY <1>1, <1>2, <1>5, Zenon DEF Nodes
  <2> QED  BY <2>1, <1>2, <1>6, SendEffect
<1>8. \A x \in Caches, b \in Addrs :
        /\ Sent(x, b)' <=> Sent(x, b)
        /\ Fetching(x, b)' <=> Fetching(x, b)
        /\ Storing(x, b)' <=> Storing(x, b)
  BY <1>1, <1>3, Zenon DEF Sent, Fetching, Storing, InMemory
<1>9. NetInv'
  BY <1>1, Zenon DEF NetInv
<1>10. DirInv'
  <2>1. DirLine(a)'
    BY <1>1, <1>2, <1>3, ProtocolAssumption, Zenon DEF DirInv, DirLine
  <2> QED  BY <2>1, <1>2, <1>3, DirFrame, Zenon
<1>11. GetInv'
  <2>1. /\ l1[c][a] \in Waiting /\ o # c /\ ~Sent(c, a) /\ ~Fetching(c, a)
        /\ \A x \in Caches : ~Asks(x, a, c) /\ ~Asks(c, a, x)
    BY <1>2, <1>5, Zenon DEF GetInv
  <2>2. l1[o][a] \notin {"I", "II", "MII"} /\ ~Getting(o, a)
    BY <1>2, <1>5, Zenon DEF GetInv
  <2>3. ASSUME NEW x \in Caches, NEW b \in Addrs, Getting(x, b)'
        PROVE  /\ l1[x][b] \in Waiting /\ owner'[b] # x /\ ~Sent(x, b) /\ ~Fetching(x, b)
               /\ \A y \in Caches : ~Asks(y, b, x)' /\ ~Asks(x, b, y)'
    BY <2>2, <2>3, <1>3, <1>4, <1>7 DEF GetInv
  <2>4. ASSUME NEW x \in Caches, NEW y \in Caches, NEW b \in Addrs, Asks(y, b, x)'
        PROVE  /\ l1[x][b] \in Waiting /\ ~Sent(x, b) /\ ~Fetching(x, b)
               /\ owner'[b] # y /\ l1[y][b] \notin {"I", "II"}
               /\ \A z \in Caches : Asks(z, b, x)' => y = z
    BY <2>1, <2>2, <2>4, <1>3, <1>7 DEF GetInv
  <2>5. ASSUME NEW x \in Caches, NEW b \in Addrs, l1[x][b] \in {"I", "II", "MII"}
        PROVE  owner'[b] # x
    BY <2>1, <2>5, <1>3, Zenon DEF GetInv, Waiting
  <2>6. \A x \in Caches, b \in Addrs :
          /\ Sent(x, b) => l1[x][b] \in Waiting /\ ~Fetching(x, b)
          /\ Fetching(x, b) => l1[x][b] \in Waiting
    BY Zenon DEF GetInv
  <2> QED  BY <2>3, <2>4, <2>5, <2>6, <1>1, <1>8 DEF GetInv
<1>12. PutInv'
  <2>1. l1[c][a] \in Waiting
    BY <1>2, Zenon DEF GetInv
  <2>2. \A x \in Caches, b \in Addrs : owner'[b] = x => owner[b] = x \/ l1[x][b] \in Waiting
    BY <2>1, <1>3, Zenon
  <2>3. \A x, y \in Caches, b \in Addrs :
          /\ Asks(x, b, y)' => Asks(x, b, y) \/ owner[b] = x
          /\ ~(Storing(x, b)' /\ Acked(x, b)')
    BY <1>5, <1>7, <1>8, Zenon DEF PutInv
  <2> QED  BY <2>2, <2>3, <1>1, <1>4, <1>7, <1>8, PutFrame, Zenon
<1>13. NoNewHolder
  BY <1>1, <1>3, <1>7, <1>8, Zenon DEF NoNewHolder, Holds
<1>14. OneCopy'
  BY <1>13, <1>3, <1>8, CopyFrame, Zenon DEF AtDir
<1> QED  BY <1>7, <1>9, <1>10, <1>11, <1>12, <1>13, <1>14, Zenon

\* The directory takes the owner's writeback: PutOwned, PutForDmaRead and
\* PutForDmaWrite.
LEMMA TakeOwnersStep ==
  ASSUME IInv, NEW m \in reqs, Take(m, "PUTX"), IsOwner(m),
         dir[m.addr] \in {"M", "M_DRD", "M_DWR"},
         NEW s \in {"MI", "M_DRDI", "M_DWRI"},
         dir' = [dir EXCEPT ![m.addr] = s], owner' = [owner EXCEPT ![m.addr] = None],
         s = "M_DWRI" => tbe'[m.addr] # None,
         \A b \in Addrs \ {m.addr} : memq'[b] = memq[b] /\ tbe'[b] = tbe[b],
         memq'[m.addr] # None, memq'[m.addr].type = "WB", memq'[m.addr].sender = m.from,
         UNCHANGED <<l1, fwd, resps>>
  PROVE  CohInv' /\ NoNewHolder
<1> USE DEF IInv, CohInv
<1> DEFINE c == m.from
           a == m.addr
<1>1. m.type = "PUTX" /\ reqs' = reqs \ {m} /\ owner[a] = c
  BY Zenon DEF Take, IsOwner
<1>2. c \in Caches /\ a \in Addrs /\ Putting(c, a)
  BY <1>1, Zenon DEF TypeOK, Requests, Putting, Requested
<1>3. \A b \in Addrs : /\ dir'[b] = IF b = a THEN s ELSE dir[b]
                       /\ owner'[b] = IF b = a THEN None ELSE owner[b]
  BY <1>2, Zenon DEF TypeOK
<1>4. \A x \in Caches, b \in Addrs :
        /\ Getting(x, b)' <=> Getting(x, b) /\ ~(x = c /\ b = a)
        /\ Putting(x, b)' <=> Putting(x, b) /\ ~(x = c /\ b = a)
  BY <1>1, TakeEffect, Zenon
<1>5. dir[a] \in {"M", "M_DRD", "M_DWR"} /\ memq[a] = None
  BY <1>2, Zenon DEF DirInv, DirLine
<1>6. /\ memq'[a] # None /\ memq'[a].type = "WB" /\ memq'[a].sender = c
      /\ \A b \in Addrs : b # a => memq'[b] = memq[b] /\ tbe'[b] = tbe[b]
      /\ s = "M_DWRI" => tbe'[a] # None
  BY Zenon
<1> HIDE DEF c, a
<1>7. \A x, y \in Caches, b \in Addrs :
        /\ Asks(x, b, y)' <=> Asks(x, b, y)
        /\ Acked(x, b)' <=> Acked(x, b)
        /\ Nacked(x, b)' <=> Nacked(x, b)
        /\ Sent(x, b)' <=> Sent(x, b)
        /\ Fetching(x, b)' <=> Fetching(x, b)
        /\ Storing(x, b)' <=> Storing(x, b) \/ (x = c /\ b = a)
  <2>1. \A x \in Caches, b \in Addrs :
          /\ Fetching(x, b)' <=> Fetching(x, b)
          /\ Storing(x, b)' <=> Storing(x, b) \/ (x = c /\ b = a)
    BY <1>2, <1>5, <1>6, Zenon DEF Fetching, Storing, InMemory
  <2> QED  BY <2>1, Zenon DEF Asks, Acked, Nacked, Sent
<1>8. /\ l1[c][a] = "MI" /\ Holds(c, a) /\ ~Acked(c, a) /\ ~Nacked(c, a)
      /\ \A x \in Caches : ~Asks(c, a, x)
  BY <1>1, <1>2, Zenon DEF GetInv, PutInv, Holds, a
<1>9. MailInv' /\ NetInv'
  <2>1. MailInv'  BY Zenon DEF MailInv
  <2>2. NetInv'  BY <1>1, Zenon DEF NetInv
  <2> QED  BY <2>1, <2>2, Zenon
<1>10. DirInv'
  <2>1. DirLine(a)'
    BY <1>2, <1>3, <1>6 DEF DirLine
  <2> QED  BY <2>1, <1>2, <1>3, <1>6, DirFrame
<1>11. GetInv'
  <2>1. \A b \in Addrs : owner'[b] = owner[b] \/ owner'[b] \notin Caches
    BY <1>3, ProtocolAssumption
  <2> QED  BY <2>1, <1>4, <1>7, GetFrame, Zenon
<1>12. PutInv'
  <2>1. \A x \in Caches, b \in Addrs :
          /\ owner'[a] # x
          /\ owner[b] # x => owner'[b] # x
    BY <1>2, <1>3, ProtocolAssumption
  <2>2. ASSUME NEW x \in Caches, NEW b \in Addrs, Putting(x, b)'
        PROVE  /\ l1[x][b] \in {"MI", "II"} /\ ~Storing(x, b)' /\ ~Acked(x, b)'
               /\ ~Nacked(x, b)'
    BY <2>2, <1>4, <1>7, Zenon DEF PutInv
  <2>3. ASSUME NEW x \in Caches, NEW b \in Addrs, Storing(x, b)' \/ Acked(x, b)'
        PROVE  /\ l1[x][b] = "MI" /\ owner'[b] # x /\ ~Nacked(x, b)'
               /\ \A y \in Caches : ~Asks(x, b, y)'
    <3>1. CASE x = c /\ b = a
      BY <3>1, <2>1, <1>7, <1>8, Zenon
    <3>2. CASE Storing(x, b) \/ Acked(x, b)
      BY <3>2, <2>1, <1>7, Zenon DEF PutInv
    <3> QED  BY <3>1, <3>2, <2>3, <1>7, Zenon
  <2>4. ASSUME NEW x \in Caches, NEW b \in Addrs
        PROVE  ~(Storing(x, b)' /\ Acked(x, b)')
    <3>1. /\ Acked(x, b)' => Acked(x, b) /\ ~(x = c /\ b = a)
          /\ Storing(x, b)' => Storing(x, b) \/ (x = c /\ b = a)
      BY <1>7, <1>8, Zenon
    <3>2. ~(Storing(x, b) /\ Acked(x, b))
      BY Zenon DEF PutInv
    <3> QED  BY <3>1, <3>2, Zenon
  <2>5. ASSUME NEW x \in Caches, NEW b \in Addrs, Nacked(x, b)'
        PROVE  l1[x][b] \in {"MI", "II"} /\ owner'[b] # x
    BY <2>1, <2>5, <1>7, Zenon DEF PutInv
  <2> QED  BY <2>2, <2>3, <2>4, <2>5 DEF PutInv
<1>13. NoNewHolder
  BY <1>2, <1>3, <1>5, <1>7, <1>8, Zenon DEF NoNewHolder, Holds
<1>14. OneCopy'
  <2>1. \A x \in Caches : ~Sent(x, a) /\ (Holds(x, a) => x = c)
    BY <1>2, <1>8, Zenon DEF OneCopy
  <2>2. \A x \in Caches : ~Sent(x, a)' /\ ~Holds(x, a)'
    BY <2>1, <1>2, <1>7, <1>8, <1>13, Zenon DEF NoNewHolder, Holds
  <2>3. \A b \in Addrs : b # a => (AtDir(b)' => AtDir(b))
    BY <1>3, Zenon DEF AtDir
  <2> QED  BY <2>2, <2>3, <1>7, <1>13, CopyFrame, Zenon
<1> QED  BY <1>9, <1>10, <1>11, <1>12, <1>13, <1>14, Zenon

\* The directory refuses a writeback of a cache that is not the owner.
LEMMA RefuseStep ==
  ASSUME IInv, NEW m \in reqs, PutNotOwner(m)
  PROVE  CohInv' /\ NoNewHolder
<1> USE DEF IInv, CohInv
<1> DEFINE c == m.from
           a == m.addr
<1>1. /\ m.type = "PUTX" /\ reqs' = reqs \ {m} /\ owner[a] # c
      /\ Send(c, Forward("WB_NACK", a, c))
      /\ l1' = l1 /\ resps' = resps /\ dir' = dir /\ owner' = owner /\ tbe' = tbe
      /\ memq' = memq
  BY Zenon DEF PutNotOwner, Take, IsOwner, cacheVars, dirVars
<1>2. c \in Caches /\ a \in Addrs /\ Putting(c, a)
  BY <1>1, Zenon DEF TypeOK, Requests, Putting, Requested
<1>3. \A x \in Caches, b \in Addrs :
        /\ Getting(x, b)' <=> Getting(x, b) /\ ~(x = c /\ b = a)
        /\ Putting(x, b)' <=> Putting(x, b) /\ ~(x = c /\ b = a)
  BY <1>1, TakeEffect, Zenon
<1> HIDE DEF c, a
<1>4. /\ l1[c][a] \in {"MI", "II"}
      /\ ~Storing(c, a) /\ ~Acked(c, a) /\ ~Nacked(c, a)
  BY <1>2, Zenon DEF PutInv
<1>5. /\ MailInv'
      /\ \A x, y \in Caches, b \in Addrs :
           /\ Asks(x, b, y)' <=> Asks(x, b, y)
           /\ Acked(x, b)' <=> Acked(x, b)
           /\ Nacked(x, b)' <=> Nacked(x, b) \/ (x = c /\ b = a)
  BY <1>1, <1>2, <1>4, SendEffect DEF Nodes
<1>6. \A x \in Caches, b \in Addrs :
        /\ Sent(x, b)' <=> Sent(x, b)
        /\ Fetching(x, b)' <=> Fetching(x, b)
        /\ Storing(x, b)' <=> Storing(x, b)
  BY <1>1, Zenon DEF Sent, Fetching, Storing, InMemory
<1>7. NetInv' /\ DirInv'
  BY <1>1, Zenon DEF NetInv, DirInv, DirLine
<1>8. GetInv'
  BY <1>1, <1>3, <1>5, <1>6, GetFrame, Zenon
<1>9. PutInv'
  <2>1. ASSUME NEW x \in Caches, NEW b \in Addrs, Putting(x, b)'
        PROVE  /\ l1[x][b] \in {"MI", "II"} /\ ~Storing(x, b) /\ ~Acked(x, b)
               /\ ~Nacked(x, b)'
    BY <2>1, <1>3, <1>5, Zenon DEF PutInv
  <2>2. ASSUME NEW x \in Caches, NEW b \in Addrs, Storing(x, b) \/ Acked(x, b)
        PROVE  ~Nacked(x, b)'
    BY <2>2, <1>4, <1>5, Zenon DEF PutInv
  <2>3. ASSUME NEW x \in Caches, NEW b \in Addrs, Nacked(x, b)'
        PROVE  l1[x][b] \in {"MI", "II"} /\ owner[b] # x
    BY <2>3, <1>1, <1>4, <1>5, Zenon DEF PutInv, a, c
  <2> QED  BY <2>1, <2>2, <2>3, <1>1, <1>5, <1>6, Zenon DEF PutInv
<1>10. NoNewHolder
  BY <1>1, <1>5, <1>6, Zenon DEF NoNewHolder, Holds
<1>11. OneCopy'
  BY <1>10, <1>1, <1>6, CopyFrame, Zenon DEF AtDir
<1> QED  BY <1>5, <1>7, <1>8, <1>9, <1>10, <1>11, Zenon

\* The directory serves a device from memory: DmaReadIdle and DmaWriteIdle, and
\* the answers DmaDataFetched and DmaWriteDone.
LEMMA DmaIdleStep ==
  ASSUME IInv, NEW a \in Addrs,
         dir[a] \in {"I", "ID", "ID_W"}, NEW s \in {"I", "ID", "ID_W"},
         dir' = [dir EXCEPT ![a] = s], owner' = owner,
         \A b \in Addrs \ {a} : memq'[b] = memq[b] /\ tbe'[b] = tbe[b],
         s = "I" <=> memq'[a] = None,
         s # "I" => memq'[a].sender = None /\ tbe'[a] # None,
         s = "ID" => memq'[a].type = "READ",
         s = "ID_W" => memq'[a].type = "WB",
         UNCHANGED <<l1, fwd, reqs, resps>>
  PROVE  CohInv' /\ NoNewHolder
<1> USE DEF IInv, CohInv
<1>1. \A b \in Addrs : dir'[b] = IF b = a THEN s ELSE dir[b]
  BY Zenon DEF TypeOK
<1>2. \A x \in Caches : ~Fetching(x, a) /\ ~Storing(x, a)
  BY ProtocolAssumption, Zenon DEF DirInv, DirLine, Fetching, Storing, InMemory
<1>3. \A x \in Caches : ~Fetching(x, a)' /\ ~Storing(x, a)'
  BY ProtocolAssumption, Zenon DEF Fetching, Storing, InMemory
<1>4. \A x, y \in Caches, b \in Addrs :
        /\ Asks(x, b, y)' <=> Asks(x, b, y)
        /\ Acked(x, b)' <=> Acked(x, b)
        /\ Nacked(x, b)' <=> Nacked(x, b)
        /\ Getting(x, b)' <=> Getting(x, b)
        /\ Putting(x, b)' <=> Putting(x, b)
        /\ Sent(x, b)' <=> Sent(x, b)
  BY Zenon DEF Asks, Acked, Nacked, Getting, Putting, Requested, Sent
<1>5. \A x \in Caches, b \in Addrs :
        /\ Fetching(x, b)' <=> Fetching(x, b)
        /\ Storing(x, b)' <=> Storing(x, b)
  BY <1>2, <1>3, Zenon DEF Fetching, Storing, InMemory
<1>6. MailInv' /\ NetInv'
  <2>1. MailInv'  BY Zenon DEF MailInv
  <2>2. NetInv'  BY Zenon DEF NetInv
  <2> QED  BY <2>1, <2>2, Zenon
<1>7. DirInv'
  <2>1. DirLine(a)'
    BY <1>1, Zenon DEF DirInv, DirLine
  <2> QED  BY <2>1, <1>1, DirFrame, Zenon
<1>8. GetInv'
  BY <1>4, <1>5, GetFrame, Zenon
<1>9. PutInv'
  BY <1>4, <1>5, PutFrame, Zenon DEF PutInv
<1>10. NoNewHolder
  BY <1>1, <1>4, <1>5, Zenon DEF NoNewHolder, Holds
<1>11. OneCopy'
  BY <1>10, <1>1, <1>4, CopyFrame, Zenon DEF AtDir
<1> QED  BY <1>6, <1>7, <1>8, <1>9, <1>10, <1>11, Zenon

\* A device wants an owned line: the owner is told to give it up.
LEMMA DmaOwnedStep ==
  ASSUME IInv, NEW a \in Addrs, NEW s \in {"M_DRD", "M_DWR"}, NEW type, DmaOwned(a, type, s)
  PROVE  CohInv' /\ NoNewHolder
<1> USE DEF IInv, CohInv
<1>1. /\ dir[a] = "M" /\ Send(owner[a], Forward("INV", a, None))
      /\ DirStep(a, s, owner[a], dmaReq[a], memq[a]) /\ dmaReq[a] # None
      /\ l1' = l1 /\ reqs' = reqs /\ resps' = resps
  BY Zenon DEF DmaOwned, TakeDma, cacheVars
<1>2. /\ owner' = owner /\ memq' = memq /\ tbe'[a] # None
      /\ \A b \in Addrs : dir'[b] = IF b = a THEN s ELSE dir[b]
      /\ \A b \in Addrs : b # a => tbe'[b] = tbe[b]
  BY <1>1, Zenon DEF DirStep, TypeOK
<1>3. PICK o \in Caches : o = owner[a]
  BY <1>1 DEF DirInv, DirLine, TypeOK, Nodes
<1>4. /\ MailInv'
      /\ \A x, y \in Caches, b \in Addrs :
           /\ Asks(x, b, y)' <=> Asks(x, b, y)
           /\ Acked(x, b)' <=> Acked(x, b)
           /\ Nacked(x, b)' <=> Nacked(x, b)
  <2>1. Send(o, Forward("INV", a, None)) /\ None \in Nodes
    BY <1>1, <1>3, Zenon DEF Nodes
  <2> QED  BY <2>1, SendEffect
<1>5. \A x \in Caches, b \in Addrs :
        /\ Getting(x, b)' <=> Getting(x, b)
        /\ Putting(x, b)' <=> Putting(x, b)
        /\ Fetching(x, b)' <=> Fetching(x, b)
        /\ Storing(x, b)' <=> Storing(x, b)
        /\ Sent(x, b)' <=> Sent(x, b)
  BY <1>1, <1>2, Zenon DEF Getting, Putting, Requested, Fetching, Storing, InMemory, Sent
<1>6. NetInv' /\ DirInv'
  <2>1. NetInv'
    BY <1>1, Zenon DEF NetInv
  <2>2. DirLine(a)'
    BY <1>1, <1>2, Zenon DEF DirInv, DirLine
  <2> QED  BY <2>1, <2>2, <1>2, DirFrame, Zenon
<1>7. l1' = l1 /\ owner' = owner /\ \A b \in Addrs : AtDir(b)' => AtDir(b)
  BY <1>1, <1>2, Zenon DEF AtDir
<1>8. GetInv'
  BY <1>4, <1>5, <1>7, GetFrame, Zenon
<1>9. PutInv'
  BY <1>4, <1>5, <1>7, Zenon DEF PutInv
<1>10. NoNewHolder
  BY <1>4, <1>5, <1>7, Zenon DEF NoNewHolder, Holds
<1>11. OneCopy'
  BY <1>10, <1>5, <1>7, CopyFrame, Zenon
<1> QED  BY <1>4, <1>6, <1>8, <1>9, <1>10, <1>11, Zenon

\* The fetched line goes to the requestor.
LEMMA FetchedStep ==
  ASSUME IInv, NEW a \in Addrs, DataFetched(a)
  PROVE  CohInv' /\ NoNewHolder
<1> USE DEF IInv, CohInv
<1>1. /\ dir[a] = "IM"
      /\ resps' = resps \cup {Data(memq[a].sender, a, mem[a])}
      /\ DirStep(a, "M", owner[a], None, None)
      /\ l1' = l1 /\ fwd' = fwd /\ reqs' = reqs
  BY Zenon DEF DataFetched, MemoryDone, cacheVars
<1>2. /\ owner' = owner
      /\ \A b \in Addrs : /\ dir'[b] = IF b = a THEN "M" ELSE dir[b]
                          /\ memq'[b] = IF b = a THEN None ELSE memq[b]
                          /\ tbe'[b] = IF b = a THEN None ELSE tbe[b]
  BY <1>1, Zenon DEF DirStep, TypeOK
<1>3. PICK d \in Caches : d = memq[a].sender /\ Fetching(d, a)
  BY <1>1, Zenon DEF DirInv, DirLine, TypeOK, Nodes, Fetching, InMemory
<1>4. /\ \A x \in Caches : x # d => ~Fetching(x, a)
      /\ \A x \in Caches : ~Storing(x, a)
  BY <1>1, <1>3, Zenon DEF DirInv, DirLine, Fetching, Storing, InMemory
<1>5. \A x \in Caches, b \in Addrs :
        /\ Fetching(x, b)' <=> Fetching(x, b) /\ ~(x = d /\ b = a)
        /\ Storing(x, b)' <=> Storing(x, b)
  BY <1>2, <1>4, Zenon DEF Fetching, Storing, InMemory
<1> DEFINE r == Data(d, a, mem[a])
<1>6. r.to = d /\ r.addr = a /\ resps' = resps \cup {r}
  BY <1>1, <1>3, Zenon DEF Data
<1> HIDE DEF r
<1>7. \A x \in Caches, b \in Addrs : Sent(x, b)' <=> Sent(x, b) \/ (x = d /\ b = a)
  BY <1>6, Zenon DEF Sent
<1>8. \A x, y \in Caches, b \in Addrs :
        /\ Asks(x, b, y)' <=> Asks(x, b, y)
        /\ Acked(x, b)' <=> Acked(x, b)
        /\ Nacked(x, b)' <=> Nacked(x, b)
        /\ Getting(x, b)' <=> Getting(x, b)
        /\ Putting(x, b)' <=> Putting(x, b)
  BY <1>1, Zenon DEF Asks, Acked, Nacked, Getting, Putting, Requested
<1>9. \A m \in resps : m.addr # a
  BY <1>1, Zenon DEF OneCopy, AtDir, Sent, TypeOK, Datas
<1>10. MailInv' /\ NetInv'
  <2>1. MailInv'  BY <1>1, Zenon DEF MailInv
  <2>2. NetInv'  BY <1>1, <1>6, <1>9, Zenon DEF NetInv
  <2> QED  BY <2>1, <2>2, Zenon
<1>11. DirInv'
  <2>1. DirLine(a)'
    BY <1>1, <1>2, Zenon DEF DirInv, DirLine
  <2> QED  BY <2>1, <1>2, DirFrame, Zenon
<1>12. /\ l1' = l1 /\ owner' = owner /\ AtDir(a) /\ ~AtDir(a)'
       /\ \A b \in Addrs : AtDir(b)' => AtDir(b)
  BY <1>1, <1>2, Zenon DEF AtDir
<1>13. GetInv'
  BY <1>3, <1>5, <1>7, <1>8, <1>12, GetFrame, Zenon
<1>14. PutInv'
  BY <1>5, <1>8, <1>12, Zenon DEF PutInv
<1>15. NoNewHolder
  BY <1>5, <1>7, <1>8, <1>12, Zenon DEF NoNewHolder, Holds
<1>16. OneCopy'
  BY <1>7, <1>12, <1>15, Zenon DEF OneCopy, NoNewHolder
<1> QED  BY <1>10, <1>11, <1>13, <1>14, <1>15, <1>16, Zenon

\* Memory has stored a writeback, and the cache is told: WritebackDone and
\* DmaWriteOwnedDone.
LEMMA StoredStep ==
  ASSUME IInv, NEW a \in Addrs, dir[a] \in {"MI", "M_DRDI", "M_DWRI"},
         Send(memq[a].sender, Forward("WB_ACK", a, memq[a].sender)),
         DirStep(a, "I", owner[a], None, None),
         UNCHANGED <<l1, reqs, resps>>
  PROVE  CohInv' /\ NoNewHolder
<1> USE DEF IInv, CohInv
<1>1. /\ owner' = owner
      /\ \A b \in Addrs : /\ dir'[b] = IF b = a THEN "I" ELSE dir[b]
                          /\ memq'[b] = IF b = a THEN None ELSE memq[b]
                          /\ tbe'[b] = IF b = a THEN None ELSE tbe[b]
  BY Zenon DEF DirStep, TypeOK
<1>2. PICK c \in Caches : c = memq[a].sender /\ Storing(c, a)
  BY Zenon DEF DirInv, DirLine, Storing, InMemory
<1>3. \A x \in Caches : ~Fetching(x, a) /\ (x # c => ~Storing(x, a))
  BY <1>2, Zenon DEF DirInv, DirLine, Fetching, Storing, InMemory
<1>4. \A x \in Caches, b \in Addrs :
        /\ Fetching(x, b)' <=> Fetching(x, b)
        /\ Storing(x, b)' <=> Storing(x, b) /\ ~(x = c /\ b = a)
  BY <1>1, <1>3, Zenon DEF Fetching, Storing, InMemory
<1>5. ~Acked(c, a)
  BY <1>2, Zenon DEF PutInv
<1>6. /\ MailInv'
      /\ \A x, y \in Caches, b \in Addrs :
           /\ Asks(x, b, y)' <=> Asks(x, b, y)
           /\ Acked(x, b)' <=> Acked(x, b) \/ (x = c /\ b = a)
           /\ Nacked(x, b)' <=> Nacked(x, b)
  <2>1. Send(c, Forward("WB_ACK", a, c)) /\ c \in Nodes
    BY <1>2, Zenon DEF Nodes
  <2> QED  BY <2>1, <1>5, SendEffect
<1>7. \A x \in Caches, b \in Addrs :
        /\ Getting(x, b)' <=> Getting(x, b)
        /\ Putting(x, b)' <=> Putting(x, b)
        /\ Sent(x, b)' <=> Sent(x, b)
  BY Zenon DEF Getting, Putting, Requested, Sent
<1>8. NetInv' /\ DirInv'
  <2>1. NetInv'
    BY Zenon DEF NetInv
  <2>2. DirLine(a)'
    BY <1>1, Zenon DEF DirInv, DirLine
  <2> QED  BY <2>1, <2>2, <1>1, DirFrame, Zenon
<1>9. l1' = l1 /\ owner' = owner /\ \A b \in Addrs : AtDir(b)' <=> AtDir(b)
  BY <1>1, Zenon DEF AtDir
<1>10. GetInv'
  BY <1>4, <1>6, <1>7, <1>9, GetFrame, Zenon
<1>11. PutInv'
  <2>1. \A x \in Caches, b \in Addrs :
          /\ Storing(x, b)' \/ Acked(x, b)' => Storing(x, b) \/ Acked(x, b)
          /\ ~(Storing(x, b)' /\ Acked(x, b)')
    BY <1>2, <1>4, <1>6, Zenon DEF PutInv
  <2> QED  BY <2>1, <1>6, <1>7, <1>9, PutFrame, Zenon
<1>12. NoNewHolder
  BY <1>2, <1>4, <1>6, <1>7, <1>9, Zenon DEF NoNewHolder, Holds
<1>13. OneCopy'
  BY <1>12, <1>7, <1>9, CopyFrame, Zenon
<1> QED  BY <1>6, <1>8, <1>10, <1>11, <1>12, <1>13, Zenon

\* Every step of a directory on a coherence request keeps the protocol
\* invariant, and no cache comes to hold a line.
LEMMA RequestStepCoh ==
  ASSUME IInv, NEW m \in reqs, RequestStep(m)
  PROVE  CohInv' /\ NoNewHolder
<1>1. m.from \in Caches /\ m.from \in Nodes /\ m.addr \in Addrs /\ m.data \in Block
  BY Zenon DEF IInv, TypeOK, Requests, Nodes
<1>2. ASSUME PutOwned(m) \/ PutForDmaRead(m) \/ PutForDmaWrite(m)  PROVE CohInv' /\ NoNewHolder
  <2>1. /\ Take(m, "PUTX") /\ IsOwner(m) /\ dir[m.addr] \in {"M", "M_DRD", "M_DWR"}
        /\ UNCHANGED <<l1, fwd, resps>>
    BY <1>2, Zenon DEF PutOwned, PutForDmaRead, PutForDmaWrite, cacheVars
  <2>2. dir[m.addr] = "M_DWR" => tbe[m.addr] \in DmaRequests /\ tbe[m.addr] # None
    BY <1>1 DEF IInv, CohInv, DirInv, DirLine, TypeOK
  <2>3. PICK s \in {"MI", "M_DRDI", "M_DWRI"}, v \in Block, n \in Nat :
          /\ dir' = [dir EXCEPT ![m.addr] = s]
          /\ owner' = [owner EXCEPT ![m.addr] = None]
          /\ memq' = [memq EXCEPT ![m.addr] = MemoryWrite(m.from, v, n)]
          /\ s = "M_DWRI" => tbe' = [tbe EXCEPT ![m.addr] = tbe[m.addr]] /\ tbe[m.addr] # None
          /\ \A b \in Addrs \ {m.addr} : tbe'[b] = tbe[b]
    <3>1. CASE PutOwned(m)
      BY <3>1, <1>1, Zenon DEF PutOwned, DirStep, IInv, TypeOK
    <3>2. CASE PutForDmaRead(m)
      BY <3>2, <1>1, Zenon DEF PutForDmaRead, DirStep, IInv, TypeOK
    <3>3. CASE PutForDmaWrite(m)
      BY <3>3, <1>1, <2>2, Zenon DEF PutForDmaWrite, DirStep, IInv, TypeOK, DmaRequests
    <3> QED  BY <1>2, <3>1, <3>2, <3>3, Zenon
  <2>4. /\ s = "M_DWRI" => tbe'[m.addr] # None
        /\ \A b \in Addrs \ {m.addr} : memq'[b] = memq[b] /\ tbe'[b] = tbe[b]
        /\ memq'[m.addr] = MemoryWrite(m.from, v, n)
    BY <1>1, <2>3, Zenon DEF IInv, TypeOK
  <2>5. memq'[m.addr] # None /\ memq'[m.addr].type = "WB" /\ memq'[m.addr].sender = m.from
    BY <1>1, <2>4, AccessIsSome
  <2> QED  BY <2>1, <2>3, <2>4, <2>5, TakeOwnersStep, Zenon
<1> QED  BY <1>2, GetIdleStep, GetOwnedStep, RefuseStep, Zenon DEF RequestStep

\* So does every step of the DMA controller, and of a directory on a DMA request.
LEMMA DmaStepCoh ==
  ASSUME IInv, NEW a \in Addrs, DmaStep(a)
  PROVE  CohInv' /\ NoNewHolder
<1>1. ASSUME DmaReadIdle(a) \/ DmaWriteIdle(a)  PROVE CohInv' /\ NoNewHolder
  <2>1. /\ dir[a] = "I" /\ dmaReq[a] # None /\ dmaReq[a] \in DmaRequests
        /\ UNCHANGED <<l1, fwd, reqs, resps>>
    BY <1>1, Zenon DEF DmaReadIdle, DmaWriteIdle, TakeDma, cacheVars, netVars, IInv, TypeOK
  <2>2. PICK s \in {"ID", "ID_W"}, q \in MemoryOps :
          /\ DirStep(a, s, owner[a], dmaReq[a], q) /\ q.sender = None
          /\ q.type = IF s = "ID" THEN "READ" ELSE "WB"
    <3>1. None \in Nodes
      BY Zenon DEF Nodes
    <3>2. CASE DmaReadIdle(a)
      BY <3>1, <3>2, AccessIsSome, Zenon DEF DmaReadIdle
    <3>3. CASE DmaWriteIdle(a)
      BY <3>1, <3>3, <2>1, AccessIsSome DEF DmaWriteIdle, DmaRequests
    <3> QED  BY <1>1, <3>2, <3>3, Zenon
  <2>3. /\ dir' = [dir EXCEPT ![a] = s] /\ owner' = owner
        /\ \A b \in Addrs \ {a} : memq'[b] = memq[b] /\ tbe'[b] = tbe[b]
        /\ memq'[a] = q /\ tbe'[a] = dmaReq[a]
    BY <2>2, Zenon DEF DirStep, IInv, TypeOK
  <2> QED  BY <2>1, <2>2, <2>3, NoneAssumption, DmaIdleStep, Zenon
<1>2. ASSUME DmaData(a) \/ DmaAck(a)  PROVE CohInv' /\ NoNewHolder
  <2>1. UNCHANGED core
    BY <1>2, Zenon DEF DmaData, DmaAck, DmaAnswer, core, cacheVars, netVars, dirVars
  <2> QED  BY <2>1, QuietStep, Zenon DEF IInv
<1> QED  BY <1>1, <1>2, DmaOwnedStep, Zenon DEF DmaStep, DmaReadOwned, DmaWriteOwned

\* And every answer of memory.
LEMMA MemoryStepCoh ==
  ASSUME IInv, NEW a \in Addrs, MemoryStep(a)
  PROVE  CohInv' /\ NoNewHolder
<1>1. ASSUME WritebackDone(a) \/ DmaWriteOwnedDone(a)  PROVE CohInv' /\ NoNewHolder
  <2>1. /\ dir[a] \in {"MI", "M_DRDI", "M_DWRI"}
        /\ Send(memq[a].sender, Forward("WB_ACK", a, memq[a].sender))
        /\ DirStep(a, "I", owner[a], None, None)
        /\ UNCHANGED <<l1, reqs, resps>>
    BY <1>1, Zenon DEF WritebackDone, DmaWriteOwnedDone, MemoryDone, cacheVars
  <2> QED  BY <2>1, StoredStep, Zenon
<1>2. ASSUME DmaDataFetched(a) \/ DmaWriteDone(a)  PROVE CohInv' /\ NoNewHolder
  <2>1. /\ dir[a] \in {"ID", "ID_W"} /\ DirStep(a, "I", owner[a], None, None)
        /\ UNCHANGED <<l1, fwd, reqs, resps>>
    BY <1>2, Zenon DEF DmaDataFetched, DmaWriteDone, MemoryDone, cacheVars, netVars
  <2>2. /\ dir' = [dir EXCEPT ![a] = "I"] /\ owner' = owner
        /\ \A b \in Addrs \ {a} : memq'[b] = memq[b] /\ tbe'[b] = tbe[b]
        /\ memq'[a] = None
    BY <2>1, Zenon DEF DirStep, IInv, TypeOK
  <2> QED  BY <2>1, <2>2, DmaIdleStep, Zenon
<1> QED  BY <1>1, <1>2, FetchedStep, Zenon DEF MemoryStep

----------------------------------------------------------------------------
(* Types *)

\* Sending and consuming forward messages keeps the type of the queues.
LEMMA QueueTypes ==
  ASSUME TypeOK, NEW c \in Caches
  PROVE  /\ \A m \in Forwards : Send(c, m) => fwd' \in [Caches -> Seq(Forwards)]
         /\ fwd[c] # << >> /\ Pop(c) =>
              fwd' \in [Caches -> Seq(Forwards)] /\ Head(fwd[c]) \in Forwards
<1>1. fwd \in [Caches -> Seq(Forwards)] /\ fwd[c] \in Seq(Forwards)
  BY Zenon DEF TypeOK
<1>2. ASSUME NEW m \in Forwards, Send(c, m)  PROVE fwd' \in [Caches -> Seq(Forwards)]
  <2>1. PICK k \in 1 .. Len(fwd[c]) + 1 :
          fwd' = [fwd EXCEPT ![c] = SubSeq(fwd[c], 1, k - 1) \o <<m>>
                                      \o SubSeq(fwd[c], k, Len(fwd[c]))]
    BY <1>2, Zenon DEF Send, Arrivals
  <2>2. /\ SubSeq(fwd[c], 1, k - 1) \in Seq(Forwards)
        /\ SubSeq(fwd[c], k, Len(fwd[c])) \in Seq(Forwards)
        /\ <<m>> \in Seq(Forwards)
    BY <1>1
  <2>3. SubSeq(fwd[c], 1, k - 1) \o <<m>> \o SubSeq(fwd[c], k, Len(fwd[c])) \in Seq(Forwards)
    BY <2>2, Concatenation, Zenon
  <2> QED  BY <2>1, <2>3, <1>1, Zenon
<1>3. ASSUME fwd[c] # << >>, Pop(c)
      PROVE  fwd' \in [Caches -> Seq(Forwards)] /\ Head(fwd[c]) \in Forwards
  BY <1>1, <1>3 DEF Pop
<1> QED  BY <1>2, <1>3, Zenon

\* The types of the caches, of the network, of the directories, and of the DMA
\* controller with the history.
CacheTypes ==
  /\ l1 \in [Caches -> [Addrs -> States]]
  /\ entries \in [Caches -> SUBSET Addrs]
  /\ blk \in [Caches -> [Addrs -> Block]]
  /\ mandatory \in [Caches -> Seq([op : Ops, addr : Addrs])]
NetTypes ==
  fwd \in [Caches -> Seq(Forwards)] /\ reqs \subseteq Requests /\ resps \subseteq Datas
DirTypes ==
  /\ dir \in [Addrs -> {"I", "M", "M_DRD", "M_DWR", "M_DWRI", "M_DRDI", "IM", "MI",
                        "ID", "ID_W"}]
  /\ owner \in [Addrs -> Nodes]
  /\ tbe \in [Addrs -> DmaRequests \cup {None}]
  /\ memq \in [Addrs -> MemoryOps \cup {None}]
  /\ mem \in [Addrs -> Block]
DmaTypes ==
  /\ dma \in [Addrs -> {"READY", "BUSY_RD", "BUSY_WR"}]
  /\ dmaReq \in [Addrs -> DmaRequests \cup {None}]
  /\ dmaResp \in [Addrs -> [type : {"DATA", "ACK"}, data : Block] \cup {None}]
  /\ latest \in [Addrs -> Block]

\* Together they are TypeOK.
LEMMA TypeSplit ==
  /\ TypeOK <=> CacheTypes /\ NetTypes /\ DirTypes /\ DmaTypes
  /\ TypeOK' <=> CacheTypes' /\ NetTypes' /\ DirTypes' /\ DmaTypes'
BY Zenon DEF TypeOK, CacheTypes, NetTypes, DirTypes, DmaTypes, States

\* What a step leaves alone keeps its type.
LEMMA TypeFrame ==
  ASSUME TypeOK
  PROVE  /\ UNCHANGED cacheVars => CacheTypes'
         /\ UNCHANGED netVars => NetTypes'
         /\ UNCHANGED dirVars => DirTypes'
         /\ UNCHANGED <<dmaVars, latest>> => DmaTypes'
BY TypeSplit, Zenon DEF CacheTypes, NetTypes, DirTypes, DmaTypes, cacheVars, netVars, dirVars, dmaVars

\* The mandatory queue loses its head.
LEMMA MandatoryType ==
  ASSUME TypeOK, NEW c \in Caches, mandatory[c] # << >>, PopMandatory(c)
  PROVE  mandatory' \in [Caches -> Seq([op : Ops, addr : Addrs])]
<1>1. mandatory[c] \in Seq([op : Ops, addr : Addrs])
  BY Zenon DEF TypeOK
<1>2. Tail(mandatory[c]) \in Seq([op : Ops, addr : Addrs])
  BY <1>1
<1> QED  BY <1>2, Zenon DEF TypeOK, PopMandatory

\* A store writes a word of a block.
LEMMA StoreType ==
  ASSUME TypeOK, NEW c \in Caches, NEW a \in Addrs, NEW w \in Words, NEW v \in Values,
         NEW old \in Block, Store(c, a, w, v, old)
  PROVE  blk' \in [Caches -> [Addrs -> Block]] /\ latest' \in [Addrs -> Block]
<1>1. [old EXCEPT ![w] = v] \in Block /\ [latest[a] EXCEPT ![w] = v] \in Block
  BY Zenon DEF TypeOK, Block
<1> QED  BY <1>1, Zenon DEF TypeOK, Store

\* What is written to memory, and what a DMA write means, are blocks.
LEMMA WriteTypes ==
  ASSUME NEW old \in Block, NEW q
  PROVE  /\ q \in MemoryOps => Written(old, q) \in Block
         /\ q \in DmaRequests => Meant(old, q) \in Block
<1>1. ASSUME q.data \in Block  PROVE Written(old, q) \in Block /\ Meant(old, q) \in Block
  BY <1>1, Zenon DEF Written, Meant, Block
<1> QED  BY <1>1, Zenon DEF MemoryOps, DmaRequests

\* Every step of a cache keeps the types.
LEMMA CacheStepTypes ==
  ASSUME IInv, NEW c \in Caches, CacheStep(c)
  PROVE  TypeOK'
<1> USE DEF IInv
<1>1. PICK a \in Addrs :
        \/ LoadHit(c, a)
        \/ \E w \in Words, v \in Values : StoreHit(c, a, w, v) \/ StoreData(c, a, w, v)
        \/ \E op \in Ops : Miss(c, op, a)
        \/ ReplaceInvalid(c, a) \/ ReplaceModified(c, a)
        \/ InvalidateModified(c, a) \/ InvalidateIgnored(c, a)
        \/ LoadData(c, a)
        \/ Fwd_GETX(c, a) \/ Writeback_Ack(c, a) \/ Writeback_Nack(c, a)
  BY Zenon DEF CacheStep
<1>2. CacheTypes /\ NetTypes /\ DirTypes /\ DmaTypes
  BY TypeSplit, Zenon
<1>3. blk[c][a] \in Block /\ Zero \in Block
  BY ProtocolAssumption DEF TypeOK, Zero, Block
<1>4. CASE LoadHit(c, a)
  <2>1. CacheTypes'
    BY <1>2, <1>4, MandatoryType, Zenon DEF LoadHit, Access, CacheTypes
  <2> QED  BY <2>1, <1>4, TypeSplit, TypeFrame, Zenon DEF LoadHit
<1>5. ASSUME NEW w \in Words, NEW v \in Values, StoreHit(c, a, w, v)  PROVE TypeOK'
  <2>1. PICK old \in Block : old = blk[c][a]
    BY <1>3, Zenon
  <2>2. blk' \in [Caches -> [Addrs -> Block]] /\ latest' \in [Addrs -> Block]
    BY <2>1, <1>5, StoreType, Zenon DEF StoreHit
  <2>3. CacheTypes'
    BY <2>2, <1>2, <1>5, MandatoryType, Zenon DEF StoreHit, Access, CacheTypes
  <2>4. DmaTypes'
    BY <2>2, <1>2, <1>5, Zenon DEF StoreHit, dmaVars, DmaTypes
  <2> QED  BY <2>3, <2>4, <1>5, TypeSplit, TypeFrame, Zenon DEF StoreHit
<1>6. ASSUME NEW w \in Words, NEW v \in Values, StoreData(c, a, w, v)  PROVE TypeOK'
  <2>1. PICK m \in resps : /\ l1' = [l1 EXCEPT ![c][a] = "M"]
                           /\ Store(c, a, w, v, m.data)
                           /\ resps' = resps \ {m}
                           /\ UNCHANGED <<entries, mandatory, fwd, reqs, dirVars, dmaVars>>
    BY <1>6, Zenon DEF StoreData
  <2>2. m.data \in Block
    BY <1>2, Zenon DEF NetTypes, Datas
  <2>3. blk' \in [Caches -> [Addrs -> Block]] /\ latest' \in [Addrs -> Block]
    BY <2>1, <2>2, StoreType, Zenon
  <2>4. CacheTypes'
    BY <2>1, <2>3, <1>2, Zenon DEF CacheTypes, States
  <2>5. NetTypes'
    BY <2>1, <1>2, Zenon DEF NetTypes
  <2>6. DmaTypes'
    BY <2>1, <2>3, <1>2, Zenon DEF dmaVars, DmaTypes
  <2> QED  BY <2>1, <2>4, <2>5, <2>6, TypeSplit, TypeFrame, Zenon
<1>7. ASSUME NEW op \in Ops, Miss(c, op, a)  PROVE TypeOK'
  <2>1. PICK s \in States : l1' = [l1 EXCEPT ![c][a] = s]
    BY <1>7, Zenon DEF Miss, States, Busy
  <2>2. mandatory' \in [Caches -> Seq([op : Ops, addr : Addrs])]
    BY <1>7, MandatoryType, Zenon DEF Miss, Access
  <2>3. l1' \in [Caches -> [Addrs -> States]]
    BY <2>1, <1>2, Zenon DEF CacheTypes
  <2>4. entries' \in [Caches -> SUBSET Addrs] /\ blk' = blk
    BY <1>2, <1>7, Zenon DEF Miss, CacheTypes
  <2>5. CacheTypes'
    BY <2>2, <2>3, <2>4, <1>2, Zenon DEF CacheTypes
  <2>6. NetTypes'
    BY <1>2, <1>3, <1>7 DEF Miss, NetTypes, Request, Requests
  <2> QED  BY <2>5, <2>6, <1>7, TypeSplit, TypeFrame, Zenon DEF Miss
<1>8. CASE ReplaceInvalid(c, a)
  <2>1. CacheTypes'
    BY <1>2, <1>8, Zenon DEF ReplaceInvalid, CacheTypes
  <2> QED  BY <2>1, <1>8, TypeSplit, TypeFrame, Zenon DEF ReplaceInvalid
<1>9. CASE WriteBack(c, a)
  <2>1. CacheTypes'
    BY <1>2, <1>9, Zenon DEF WriteBack, CacheTypes, States, Busy
  <2>2. NetTypes'
    BY <1>2, <1>3, <1>9 DEF WriteBack, NetTypes, Request, Requests
  <2> QED  BY <2>1, <2>2, <1>9, TypeSplit, TypeFrame, Zenon DEF WriteBack
<1>10. CASE InvalidateIgnored(c, a)
  <2>1. NetTypes'
    BY <1>2, <1>10, QueueTypes, Zenon DEF InvalidateIgnored, AtHead, NetTypes
  <2> QED  BY <2>1, <1>10, TypeSplit, TypeFrame, Zenon DEF InvalidateIgnored
<1>11. CASE LoadData(c, a)
  <2>1. PICK m \in resps : /\ l1' = [l1 EXCEPT ![c][a] = "M"]
                           /\ blk' = [blk EXCEPT ![c][a] = m.data]
                           /\ resps' = resps \ {m}
                           /\ UNCHANGED <<entries, mandatory, fwd, reqs, dirVars, dmaVars, latest>>
    BY <1>11, Zenon DEF LoadData
  <2>2. m.data \in Block
    BY <1>2, Zenon DEF NetTypes, Datas
  <2>3. CacheTypes'
    BY <2>1, <2>2, <1>2, Zenon DEF CacheTypes, States
  <2>4. NetTypes'
    BY <2>1, <1>2, Zenon DEF NetTypes
  <2> QED  BY <2>1, <2>3, <2>4, TypeSplit, TypeFrame, Zenon
<1>12. CASE Fwd_GETX(c, a)
  <2>1. CacheTypes'
    <3>1. PICK s \in States : l1' = [l1 EXCEPT ![c][a] = s]
      BY <1>12, Zenon DEF Fwd_GETX, AfterFwd, States, Busy
    <3>2. l1' \in [Caches -> [Addrs -> States]]
      BY <3>1, <1>2, Zenon DEF CacheTypes
    <3>3. entries' = entries /\ blk' = blk /\ mandatory' = mandatory
      BY <1>12, Zenon DEF Fwd_GETX
    <3> QED  BY <3>2, <3>3, <1>2, Zenon DEF CacheTypes
  <2>2. Head(fwd[c]).req \in Caches
    BY <1>12, PopEffect, Zenon DEF Fwd_GETX, CohInv
  <2>3. NetTypes'
    BY <2>2, <1>2, <1>3, <1>12, QueueTypes DEF Fwd_GETX, AtHead, NetTypes, Data, Datas
  <2> QED  BY <2>1, <2>3, <1>12, TypeSplit, TypeFrame, Zenon DEF Fwd_GETX
<1>13. CASE Writeback_Ack(c, a)
  <2>1. CacheTypes'
    BY <1>2, <1>13, Zenon DEF Writeback_Ack, CacheTypes, States
  <2>2. NetTypes'
    BY <1>2, <1>13, QueueTypes, Zenon DEF Writeback_Ack, AtHead, NetTypes
  <2> QED  BY <2>1, <2>2, <1>13, TypeSplit, TypeFrame, Zenon DEF Writeback_Ack
<1>14. CASE Writeback_Nack(c, a)
  <2>1. CacheTypes'
    <3>1. PICK s \in States : l1' = [l1 EXCEPT ![c][a] = s]
      BY <1>14, Zenon DEF Writeback_Nack, States, Busy
    <3>2. l1' \in [Caches -> [Addrs -> States]]
      BY <3>1, <1>2, Zenon DEF CacheTypes
    <3>3. entries' = entries /\ blk' = blk /\ mandatory' = mandatory
      BY <1>14, Zenon DEF Writeback_Nack
    <3> QED  BY <3>2, <3>3, <1>2, Zenon DEF CacheTypes
  <2>2. NetTypes'
    BY <1>2, <1>14, QueueTypes, Zenon DEF Writeback_Nack, AtHead, NetTypes
  <2> QED  BY <2>1, <2>2, <1>14, TypeSplit, TypeFrame, Zenon DEF Writeback_Nack
<1> QED  BY <1>1, <1>4, <1>5, <1>6, <1>7, <1>8, <1>9, <1>10, <1>11, <1>12, <1>13, <1>14, Zenon
         DEF ReplaceModified, InvalidateModified

\* Every step of a directory on a coherence request keeps the types.
LEMMA RequestStepTypes ==
  ASSUME IInv, NEW m \in reqs, RequestStep(m)
  PROVE  TypeOK'
<1> USE DEF IInv
<1>1. /\ m.from \in Caches /\ m.from \in Nodes /\ m.addr \in Addrs /\ m.data \in Block
      /\ None \in Nodes
  BY Zenon DEF TypeOK, Requests, Nodes
<1>2. CacheTypes /\ NetTypes /\ DirTypes /\ DmaTypes
  BY TypeSplit, Zenon
<1>3. /\ owner[m.addr] \in Nodes /\ tbe[m.addr] \in DmaRequests \cup {None}
      /\ memq[m.addr] \in MemoryOps \cup {None}
  BY <1>1, <1>2, Zenon DEF DirTypes
<1>4. /\ MemoryRead(m.from) \in MemoryOps
      /\ MemoryWrite(m.from, m.data, 0) \in MemoryOps
  BY <1>1, AccessIsSome, Zenon
<1>5. CASE GetIdle(m)
  <2>1. DirTypes'
    BY <1>1, <1>2, <1>4, <1>5, Zenon DEF GetIdle, DirStep, DirTypes
  <2>2. NetTypes'
    BY <1>2, <1>5, Zenon DEF GetIdle, Take, NetTypes
  <2> QED  BY <2>1, <2>2, <1>5, TypeSplit, TypeFrame, Zenon DEF GetIdle
<1>6. CASE GetOwned(m)
  <2>1. DirTypes'
    BY <1>1, <1>2, <1>3, <1>6, Zenon DEF GetOwned, DirStep, DirTypes
  <2>2. PICK o \in Caches : o = owner[m.addr]
    BY <1>1, <1>3, <1>6, Zenon DEF GetOwned, CohInv, DirInv, DirLine, Nodes
  <2>3. Forward("GETX", m.addr, m.from) \in Forwards
    BY <1>1, Zenon DEF Forward, Forwards
  <2>4. fwd' \in [Caches -> Seq(Forwards)]
    BY <2>2, <2>3, <1>6, QueueTypes, Zenon DEF GetOwned, ForwardTo
  <2>5. NetTypes'
    BY <2>4, <1>2, <1>6, Zenon DEF GetOwned, Take, NetTypes
  <2> QED  BY <2>1, <2>5, <1>6, TypeSplit, TypeFrame, Zenon DEF GetOwned
<1>7. CASE PutOwned(m)
  <2>1. DirTypes'
    BY <1>1, <1>2, <1>4, <1>7, Zenon DEF PutOwned, DirStep, DirTypes
  <2>2. NetTypes'
    BY <1>2, <1>7, Zenon DEF PutOwned, Take, NetTypes
  <2> QED  BY <2>1, <2>2, <1>7, TypeSplit, TypeFrame, Zenon DEF PutOwned
<1>8. CASE PutNotOwner(m)
  <2>1. Forward("WB_NACK", m.addr, m.from) \in Forwards
    BY <1>1, Zenon DEF Forward, Forwards
  <2>2. fwd' \in [Caches -> Seq(Forwards)]
    BY <2>1, <1>1, <1>8, QueueTypes, Zenon DEF PutNotOwner
  <2>3. NetTypes'
    BY <2>2, <1>2, <1>8, Zenon DEF PutNotOwner, Take, NetTypes
  <2> QED  BY <2>3, <1>8, TypeSplit, TypeFrame, Zenon DEF PutNotOwner
<1>9. CASE PutForDmaRead(m)
  <2>1. DirTypes'
    BY <1>1, <1>2, <1>3, <1>4, <1>9, Zenon DEF PutForDmaRead, DirStep, DirTypes
  <2>2. NetTypes'
    BY <1>2, <1>9, Zenon DEF PutForDmaRead, Take, NetTypes
  <2>3. DmaTypes'
    BY <1>1, <1>2, <1>9, Zenon DEF PutForDmaRead, DmaTypes
  <2> QED  BY <2>1, <2>2, <2>3, <1>9, TypeSplit, TypeFrame, Zenon DEF PutForDmaRead
<1>10. CASE PutForDmaWrite(m)
  <2>1. tbe[m.addr] \in DmaRequests
    BY <1>1, <1>3, <1>10, Zenon DEF PutForDmaWrite, CohInv, DirInv, DirLine
  <2>2. MemoryWrite(m.from, tbe[m.addr].data, tbe[m.addr].len) \in MemoryOps
    BY <2>1, <1>1, AccessIsSome, Zenon DEF DmaRequests
  <2>3. DirTypes'
    BY <2>1, <2>2, <1>1, <1>2, <1>10, Zenon DEF PutForDmaWrite, DirStep, DirTypes
  <2>4. NetTypes'
    BY <1>2, <1>10, Zenon DEF PutForDmaWrite, Take, NetTypes
  <2> QED  BY <2>3, <2>4, <1>10, TypeSplit, TypeFrame, Zenon DEF PutForDmaWrite
<1> QED  BY <1>5, <1>6, <1>7, <1>8, <1>9, <1>10, Zenon DEF RequestStep

\* Every step of the DMA controller, and of a directory on a DMA request, keeps
\* the types.
LEMMA DmaStepTypes ==
  ASSUME IInv, NEW a \in Addrs, DmaStep(a)
  PROVE  TypeOK'
<1> USE DEF IInv
<1>1. CacheTypes /\ NetTypes /\ DirTypes /\ DmaTypes
  BY TypeSplit, Zenon
<1>2. /\ owner[a] \in Nodes /\ None \in Nodes /\ dmaReq[a] \in DmaRequests \cup {None}
      /\ memq[a] \in MemoryOps \cup {None} /\ MemoryRead(None) \in MemoryOps
  BY <1>1, AccessIsSome, Zenon DEF DirTypes, DmaTypes, Nodes
<1>3. CASE DmaReadIdle(a)
  <2>1. DirTypes'
    BY <1>1, <1>2, <1>3, Zenon DEF DmaReadIdle, DirStep, DirTypes
  <2>2. DmaTypes'
    BY <1>1, <1>3, Zenon DEF DmaReadIdle, TakeDma, DmaTypes
  <2> QED  BY <2>1, <2>2, <1>3, TypeSplit, TypeFrame, Zenon DEF DmaReadIdle
<1>4. CASE DmaWriteIdle(a)
  <2>1. MemoryWrite(None, dmaReq[a].data, dmaReq[a].len) \in MemoryOps
    BY <1>2, <1>4, AccessIsSome, Zenon DEF DmaWriteIdle, TakeDma, DmaRequests
  <2>2. DirTypes'
    BY <2>1, <1>1, <1>2, <1>4, Zenon DEF DmaWriteIdle, DirStep, DirTypes
  <2>3. DmaTypes'
    BY <1>1, <1>4, Zenon DEF DmaWriteIdle, TakeDma, DmaTypes
  <2> QED  BY <2>2, <2>3, <1>4, TypeSplit, TypeFrame, Zenon DEF DmaWriteIdle
<1>5. ASSUME NEW t, NEW s \in {"M_DRD", "M_DWR"}, DmaOwned(a, t, s)  PROVE TypeOK'
  <2>1. DirTypes'
    BY <1>1, <1>2, <1>5, Zenon DEF DmaOwned, DirStep, DirTypes
  <2>2. DmaTypes'
    BY <1>1, <1>5, Zenon DEF DmaOwned, TakeDma, DmaTypes
  <2>3. PICK o \in Caches : o = owner[a]
    BY <1>2, <1>5, Zenon DEF DmaOwned, CohInv, DirInv, DirLine, Nodes
  <2>4. Forward("INV", a, None) \in Forwards
    BY <1>2, Zenon DEF Forward, Forwards
  <2>5. fwd' \in [Caches -> Seq(Forwards)]
    BY <2>3, <2>4, <1>5, QueueTypes, Zenon DEF DmaOwned
  <2>6. NetTypes'
    BY <2>5, <1>1, <1>5, Zenon DEF DmaOwned, NetTypes
  <2> QED  BY <2>1, <2>2, <2>6, <1>5, TypeSplit, TypeFrame, Zenon DEF DmaOwned
<1>6. ASSUME NEW t, NEW s, DmaAnswer(a, t, s)  PROVE TypeOK'
  <2>1. DmaTypes'
    BY <1>1, <1>6, Zenon DEF DmaAnswer, DmaTypes
  <2> QED  BY <2>1, <1>6, TypeSplit, TypeFrame, Zenon DEF DmaAnswer
<1> QED  BY <1>3, <1>4, <1>5, <1>6, Zenon DEF DmaStep, DmaReadOwned, DmaWriteOwned, DmaData, DmaAck

\* Every answer of memory keeps the types.
LEMMA MemoryStepTypes ==
  ASSUME IInv, NEW a \in Addrs, MemoryStep(a)
  PROVE  TypeOK'
<1> USE DEF IInv
<1>1. CacheTypes /\ NetTypes /\ DirTypes /\ DmaTypes
  BY TypeSplit, Zenon
<1>2. owner[a] \in Nodes /\ mem[a] \in Block /\ latest[a] \in Block /\ Zero \in Block
  BY <1>1, ProtocolAssumption, Zenon DEF DirTypes, DmaTypes, Zero, Block
<1>3. ASSUME dir[a] \in {"MI", "M_DRDI", "M_DWRI", "ID_W"}
      PROVE  memq[a] \in MemoryOps /\ Written(mem[a], memq[a]) \in Block
  BY <1>1, <1>2, <1>3, WriteTypes, Zenon DEF DirTypes, CohInv, DirInv, DirLine
<1>4. ASSUME dir[a] \in {"M_DWRI", "ID_W"}
      PROVE  Meant(latest[a], tbe[a]) \in Block
  BY <1>1, <1>2, <1>4, WriteTypes, Zenon DEF DirTypes, CohInv, DirInv, DirLine
<1>5. ASSUME dir[a] \in {"MI", "M_DRDI", "M_DWRI"},
             Send(memq[a].sender, Forward("WB_ACK", a, memq[a].sender))
      PROVE  fwd' \in [Caches -> Seq(Forwards)]
  <2>1. PICK c \in Caches : c = memq[a].sender
    BY <1>5, Zenon DEF CohInv, DirInv, DirLine
  <2>2. Forward("WB_ACK", a, c) \in Forwards
    BY Zenon DEF Forward, Forwards, Nodes
  <2> QED  BY <2>1, <2>2, <1>5, QueueTypes, Zenon
<1>6. CASE DataFetched(a)
  <2>1. memq[a].sender \in Caches
    BY <1>2, <1>6, Zenon DEF DataFetched, MemoryDone, CohInv, DirInv, DirLine, Nodes
  <2>2. NetTypes'
    BY <2>1, <1>1, <1>2, <1>6 DEF DataFetched, NetTypes, Data, Datas
  <2>3. DirTypes'
    BY <1>1, <1>2, <1>6, Zenon DEF DataFetched, DirStep, DirTypes
  <2> QED  BY <2>2, <2>3, <1>6, TypeSplit, TypeFrame, Zenon DEF DataFetched
<1>7. CASE DmaDataFetched(a)
  <2>1. DirTypes'
    BY <1>1, <1>2, <1>7, Zenon DEF DmaDataFetched, DirStep, DirTypes
  <2>2. DmaTypes'
    BY <1>1, <1>2, <1>7, Zenon DEF DmaDataFetched, DmaTypes
  <2> QED  BY <2>1, <2>2, <1>7, TypeSplit, TypeFrame, Zenon DEF DmaDataFetched
<1>8. CASE WritebackDone(a)
  <2>1. dir[a] \in {"MI", "M_DRDI"}
    BY <1>8, Zenon DEF WritebackDone, MemoryDone
  <2>2. DirTypes'
    BY <2>1, <1>1, <1>2, <1>3, <1>8, Zenon DEF WritebackDone, DirStep, DirTypes
  <2>3. NetTypes'
    BY <2>1, <1>1, <1>5, <1>8, Zenon DEF WritebackDone, NetTypes
  <2> QED  BY <2>2, <2>3, <1>8, TypeSplit, TypeFrame, Zenon DEF WritebackDone
<1>9. CASE DmaWriteOwnedDone(a)
  <2>1. dir[a] = "M_DWRI"
    BY <1>9, Zenon DEF DmaWriteOwnedDone, MemoryDone
  <2>2. DirTypes'
    BY <2>1, <1>1, <1>2, <1>3, <1>9, Zenon DEF DmaWriteOwnedDone, DirStep, DirTypes
  <2>3. NetTypes'
    BY <2>1, <1>1, <1>5, <1>9, Zenon DEF DmaWriteOwnedDone, NetTypes
  <2>4. DmaTypes'
    BY <2>1, <1>1, <1>2, <1>4, <1>9, Zenon DEF DmaWriteOwnedDone, DmaTypes
  <2> QED  BY <2>2, <2>3, <2>4, <1>9, TypeSplit, TypeFrame, Zenon DEF DmaWriteOwnedDone
<1>10. CASE DmaWriteDone(a)
  <2>1. dir[a] = "ID_W"
    BY <1>10, Zenon DEF DmaWriteDone, MemoryDone
  <2>2. DirTypes'
    BY <2>1, <1>1, <1>2, <1>3, <1>10, Zenon DEF DmaWriteDone, DirStep, DirTypes
  <2>3. DmaTypes'
    BY <2>1, <1>1, <1>2, <1>4, <1>10, Zenon DEF DmaWriteDone, DmaTypes
  <2> QED  BY <2>2, <2>3, <1>10, TypeSplit, TypeFrame, Zenon DEF DmaWriteDone
<1> QED  BY <1>6, <1>7, <1>8, <1>9, <1>10, Zenon DEF MemoryStep

\* New requests keep the types.
LEMMA IssueTypes ==
  ASSUME IInv, Issue
  PROVE  TypeOK'
<1> USE DEF IInv
<1>1. CacheTypes /\ NetTypes /\ DirTypes /\ DmaTypes
  BY TypeSplit, Zenon
<1>2. ASSUME NEW c \in Caches, NEW op \in Ops, NEW a \in Addrs, CpuRequest(c, op, a)
      PROVE  TypeOK'
  <2>1. mandatory' \in [Caches -> Seq([op : Ops, addr : Addrs])]
    <3> DEFINE S == [op : Ops, addr : Addrs]
               r == [op |-> op, addr |-> a]
    <3>1. r \in S /\ mandatory' = [mandatory EXCEPT ![c] = Append(@, r)]
      BY <1>2, Zenon DEF CpuRequest
    <3>2. mandatory \in [Caches -> Seq(S)]
      BY <1>1, Zenon DEF CacheTypes
    <3> HIDE DEF r, S
    <3>3. mandatory' \in [Caches -> Seq(S)]
      BY <3>1, <3>2
    <3> QED  BY <3>3, Zenon DEF S
  <2>2. CacheTypes'
    BY <2>1, <1>1, <1>2, Zenon DEF CpuRequest, CacheTypes
  <2> QED  BY <2>2, <1>2, TypeSplit, TypeFrame, Zenon DEF CpuRequest
<1>3. ASSUME NEW a \in Addrs, NEW x \in DmaAccess, NEW type \in {"READ", "WRITE"},
             NEW v \in Values, DmaRequest(a, type, x, v)
      PROVE  TypeOK'
  <2> DEFINE data == [w \in Words |->
                        IF type = "WRITE" /\ x[1] <= w /\ w < x[1] + x[2] THEN v ELSE 0]
             r == [type |-> type, offset |-> x[1], len |-> x[2], data |-> data]
  <2>1. data \in Block
    BY ProtocolAssumption, Zenon DEF Block
  <2>2. x[1] \in Nat /\ x[2] \in Nat
    <3>1. x \in Words \X (1 .. BlockSize)
      BY ProtocolAssumption, Zenon
    <3> QED  BY <3>1, ProtocolAssumption DEF Words
  <2>3. dmaReq' = [dmaReq EXCEPT ![a] = r]
    BY <1>3, Zenon DEF DmaRequest
  <2> HIDE DEF data
  <2>4. r \in DmaRequests
    BY <2>1, <2>2, Zenon DEF DmaRequests
  <2> HIDE DEF r
  <2>5. DmaTypes'
    BY <2>3, <2>4, <1>1, <1>3, Zenon DEF DmaRequest, DmaTypes
  <2> QED  BY <2>5, <1>3, TypeSplit, TypeFrame, Zenon DEF DmaRequest
<1> QED  BY <1>2, <1>3, ProtocolAssumption, Zenon DEF Issue

----------------------------------------------------------------------------
(* The protocol invariant is inductive *)

\* It holds when all lines are idle.
LEMMA InitInv == Init => IInv
<1> SUFFICES ASSUME Init  PROVE IInv
  BY Zenon
<1>1. Zero \in Block
  BY ProtocolAssumption, Zenon DEF Zero, Block
<1>2. TypeOK
  <2>1. CacheTypes  BY <1>1 DEF Init, CacheTypes, States
  <2>2. NetTypes  BY DEF Init, NetTypes
  <2>3. DirTypes  BY <1>1, Zenon DEF Init, DirTypes, Nodes
  <2>4. DmaTypes  BY <1>1, Zenon DEF Init, DmaTypes
  <2> QED  BY <2>1, <2>2, <2>3, <2>4, TypeSplit, Zenon
<1>3. \A c \in Caches : fwd[c] = << >> /\ Range(fwd[c]) = {}
  <2>1. \A c \in Caches : fwd[c] = << >>
    BY Zenon DEF Init
  <2>2. DOMAIN << >> = {}
    OBVIOUS
  <2> QED  BY <2>1, <2>2, Zenon DEF Range
<1>4. MailInv
  <2>1. Queue(<< >>)
    BY DEF Queue
  <2> QED  BY <2>1, <1>3, Zenon DEF MailInv
<1>5. NetInv /\ DirInv
  BY Zenon DEF Init, NetInv, DirInv, DirLine
<1>6. \A x, y \in Caches, b \in Addrs :
        /\ ~Asks(x, b, y) /\ ~Acked(x, b) /\ ~Nacked(x, b)
        /\ ~Getting(x, b) /\ ~Putting(x, b) /\ ~Fetching(x, b) /\ ~Storing(x, b)
        /\ ~Sent(x, b)
  BY <1>3, Zenon DEF Init, Asks, Acked, Nacked, Getting, Putting, Requested, Fetching, Storing,
              InMemory, Sent
<1>7. \A x \in Caches, b \in Addrs : l1[x][b] = "I" /\ owner[b] = None /\ dir[b] = "I"
  BY Zenon DEF Init
<1>8. GetInv /\ PutInv /\ OneCopy
  BY <1>6, <1>7, ProtocolAssumption, Zenon DEF GetInv, PutInv, OneCopy, Holds, AtDir
<1> QED  BY <1>2, <1>4, <1>5, <1>8, Zenon DEF IInv, CohInv

\* Every step keeps it.
LEMMA NextInv == IInv /\ [Next]_vars => IInv'
<1> SUFFICES ASSUME IInv, [Next]_vars  PROVE IInv'
  BY Zenon
<1>1. CASE UNCHANGED vars
  <2>1. CohInv'
    BY <1>1, QuietStep, Zenon DEF IInv, vars, core
  <2>2. TypeOK'
    BY <1>1, Zenon DEF IInv, vars, TypeOK
  <2> QED  BY <2>1, <2>2, Zenon DEF IInv
<1>2. CASE Issue
  <2>1. UNCHANGED core
    BY <1>2, Zenon DEF Issue, CpuRequest, DmaRequest, core, cacheVars, netVars, dirVars
  <2> QED  BY <2>1, <1>2, QuietStep, IssueTypes, Zenon DEF IInv
<1>3. ASSUME NEW c \in Caches, CacheStep(c)  PROVE IInv'
  <2>1. PICK a \in Addrs :
          \/ LoadHit(c, a)
          \/ \E w \in Words, v \in Values : StoreHit(c, a, w, v) \/ StoreData(c, a, w, v)
          \/ \E op \in Ops : Miss(c, op, a)
          \/ ReplaceInvalid(c, a) \/ ReplaceModified(c, a)
          \/ InvalidateModified(c, a) \/ InvalidateIgnored(c, a)
          \/ LoadData(c, a)
          \/ Fwd_GETX(c, a) \/ Writeback_Ack(c, a) \/ Writeback_Nack(c, a)
    BY <1>3, Zenon DEF CacheStep
  <2>2. ASSUME LoadHit(c, a) \/ ReplaceInvalid(c, a)
                \/ \E w \in Words, v \in Values : StoreHit(c, a, w, v)
        PROVE  CohInv'
    <3>1. UNCHANGED core
      BY <2>2, Zenon DEF LoadHit, ReplaceInvalid, StoreHit, core, netVars, dirVars
    <3> QED  BY <3>1, QuietStep, Zenon DEF IInv
  <2>3. ASSUME LoadData(c, a) \/ \E w \in Words, v \in Values : StoreData(c, a, w, v)
        PROVE  CohInv'
    <3>1. PICK m \in resps :
            /\ m.to = c /\ m.addr = a /\ l1[c][a] \in Waiting
            /\ l1' = [l1 EXCEPT ![c][a] = "M"] /\ resps' = resps \ {m}
            /\ UNCHANGED <<fwd, reqs, dir, owner, tbe, memq>>
      BY <2>3, Zenon DEF LoadData, StoreData, Waiting, dirVars
    <3> QED  BY <3>1, DataStep, Zenon
  <2>4. CohInv'
    BY <2>1, <2>2, <2>3, MissStep, WriteBackStep, IgnoreStep, ForwardStep, AckStep, NackStep, Zenon
       DEF ReplaceModified, InvalidateModified
  <2> QED  BY <2>4, <1>3, CacheStepTypes, Zenon DEF IInv
<1>4. ASSUME NEW m \in reqs, RequestStep(m)  PROVE IInv'
  BY <1>4, RequestStepCoh, RequestStepTypes, Zenon DEF IInv
<1>5. ASSUME NEW a \in Addrs, DmaStep(a)  PROVE IInv'
  BY <1>5, DmaStepCoh, DmaStepTypes, Zenon DEF IInv
<1>6. ASSUME NEW a \in Addrs, MemoryStep(a)  PROVE IInv'
  BY <1>6, MemoryStepCoh, MemoryStepTypes, Zenon DEF IInv
<1> QED  BY <1>1, <1>2, <1>3, <1>4, <1>5, <1>6, Zenon DEF Next, Protocol

\* It holds always.
LEMMA Invariance == Spec => []IInv
BY InitInv, NextInv, PTL DEF Spec

\* Types are kept, whatever the number of caches, lines, words and values.
THEOREM TypeCorrect == Spec => []TypeOK
<1>1. IInv => TypeOK
  BY Zenon DEF IInv
<1> QED  BY <1>1, Invariance, PTL

\* One writer: for any number of caches, lines and directories, and whatever
\* forwards, writebacks, invalidations and fast memories do, a cache that may
\* write a line is alone with it, and no data of the line is on its way.
THEOREM OneWriter == Spec => []SingleWriter
<1>1. IInv => SingleWriter
  BY Zenon DEF IInv, CohInv, OneCopy, Holds, Sent, TypeOK, Datas, SingleWriter
<1> QED  BY <1>1, Invariance, PTL

\* The assertions of the directory's setState never fail.
THEOREM AssertionsHold == Spec => []OwnerAsserts
<1>1. IInv => OwnerAsserts
  BY Zenon DEF IInv, CohInv, DirInv, DirLine, OwnerAsserts
<1> QED  BY <1>1, Invariance, PTL
=============================================================================
