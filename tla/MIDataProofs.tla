---------------------------- MODULE MIDataProofs ----------------------------
(***************************************************************************)
(* The data of the MI protocol, with any number of caches, lines,          *)
(* directories, words and values: when devices access whole blocks, what a *)
(* processor or a device reads is what was last written, and memory is     *)
(* current whenever the directory says so; without devices no controller   *)
(* meets an event it has no transition for.                                *)
(***************************************************************************)
EXTENDS MIExampleProofs

\* Devices access whole blocks.
WholeBlocks == DmaAccess \subseteq {<<0, BlockSize>>}

Whole(r) == r.offset = 0 /\ r.len = BlockSize

\* One DMA request per line, at one place at a time.
DmaInv ==
  \A a \in Addrs :
    /\ dma[a] = "READY" => dmaReq[a] = None /\ dmaResp[a] = None
    /\ dmaReq[a] # None =>
         /\ Whole(dmaReq[a]) /\ dmaResp[a] = None
         /\ dma[a] = IF dmaReq[a].type = "READ" THEN "BUSY_RD" ELSE "BUSY_WR"
    /\ dir[a] \in {"ID", "M_DRD"} =>
         dma[a] = "BUSY_RD" /\ dmaReq[a] = None /\ dmaResp[a] = None
    /\ dir[a] \in {"ID_W", "M_DWR", "M_DWRI"} =>
         /\ dma[a] = "BUSY_WR" /\ dmaReq[a] = None /\ dmaResp[a] = None
         /\ Whole(tbe[a])
    /\ dir[a] \in {"ID_W", "M_DWRI"} =>
         memq[a].data = tbe[a].data /\ memq[a].len = BlockSize

\* The holder of a line, and every data message, has the latest words.
CopyInv ==
  /\ \A c \in Caches, a \in Addrs : Holds(c, a) => blk[c][a] = latest[a]
  /\ \A m \in resps : m.data = latest[m.addr]

\* A writeback carries the block its cache still keeps.
PutDataInv ==
  \A m \in reqs : m.type = "PUTX" /\ l1[m.from][m.addr] = "MI" =>
    m.data = blk[m.from][m.addr]

\* While the line is at the directory, memory or the access to it is current.
HomeInv ==
  \A a \in Addrs :
    /\ dir[a] \in {"I", "IM", "ID"} => mem[a] = latest[a]
    /\ dir[a] \in {"MI", "M_DRDI"} => memq[a].data = latest[a] /\ memq[a].len = 0

DataInv == CopyInv /\ PutDataInv /\ HomeInv

DInv == IInv /\ DmaInv /\ DataInv

----------------------------------------------------------------------------
(* The blocks a step writes *)

\* A block written whole replaces the old one, in memory as in the history.
LEMMA WholeWrite ==
  ASSUME NEW old \in Block, NEW new \in Block, NEW q, NEW t
  PROVE  /\ q.data = new /\ q.len \in {0, BlockSize} => Written(old, q) = new
         /\ t.data = new /\ Whole(t) => Meant(old, t) = new
BY ProtocolAssumption DEF Written, Meant, Whole, Block, Words

\* A store to the latest block makes the new block the latest.
LEMMA StoreEffect ==
  ASSUME TypeOK, NEW c \in Caches, NEW a \in Addrs, NEW w \in Words, NEW v \in Values,
         NEW old, old = latest[a], Store(c, a, w, v, old)
  PROVE  /\ blk'[c][a] = latest'[a]
         /\ \A x \in Caches, b \in Addrs : x # c \/ b # a => blk'[x][b] = blk[x][b]
         /\ \A b \in Addrs : b # a => latest'[b] = latest[b]
<1>1. blk' = [blk EXCEPT ![c][a] = [old EXCEPT ![w] = v]]
  BY Zenon DEF Store
<1>2. latest' = [latest EXCEPT ![a] = [old EXCEPT ![w] = v]]
  BY Zenon DEF Store
<1> DEFINE new == [old EXCEPT ![w] = v]
<1> HIDE DEF new
<1>3. blk' = [blk EXCEPT ![c][a] = new] /\ latest' = [latest EXCEPT ![a] = new]
  BY <1>1, <1>2, Zenon DEF new
<1> QED  BY <1>3, Zenon DEF TypeOK

\* What keeps the three parts when a step does not touch the data.
LEMMA DataFrame ==
  ASSUME TypeOK, blk' = blk
  PROVE  /\ CopyInv /\ NoNewHolder /\ latest' = latest /\ resps' \subseteq resps => CopyInv'
         /\ PutDataInv /\ l1' = l1 /\ reqs' \subseteq reqs => PutDataInv'
         /\ HomeInv /\ UNCHANGED <<dir, mem, memq, latest>> => HomeInv'
<1>1. ASSUME CopyInv, NoNewHolder, latest' = latest, resps' \subseteq resps  PROVE CopyInv'
  BY <1>1, Zenon DEF CopyInv, NoNewHolder
<1>2. ASSUME PutDataInv, l1' = l1, reqs' \subseteq reqs  PROVE PutDataInv'
  BY <1>2, Zenon DEF PutDataInv
<1>3. ASSUME HomeInv, UNCHANGED <<dir, mem, memq, latest>>  PROVE HomeInv'
  BY <1>3, Zenon DEF HomeInv
<1> QED  BY <1>1, <1>2, <1>3, Zenon

----------------------------------------------------------------------------
(* The steps of a cache keep the data current *)

\* A hit of a store: nobody else has the line.
LEMMA StoreHitData ==
  ASSUME IInv, DataInv, NEW c \in Caches, NEW a \in Addrs, NEW w \in Words, NEW v \in Values,
         StoreHit(c, a, w, v)
  PROVE  DataInv'
<1> USE DEF IInv, CohInv, DataInv
<1>1. /\ l1[c][a] = "M" /\ Store(c, a, w, v, blk[c][a])
      /\ l1' = l1 /\ fwd' = fwd /\ reqs' = reqs /\ resps' = resps /\ dir' = dir
      /\ mem' = mem /\ memq' = memq
  BY Zenon DEF StoreHit, netVars, dirVars
<1>2. Holds(c, a) /\ blk[c][a] = latest[a]
  BY <1>1, Zenon DEF Holds, CopyInv
<1>3. PICK old : old = blk[c][a]
  BY Zenon
<1>4. /\ blk'[c][a] = latest'[a]
      /\ \A x \in Caches, b \in Addrs : x # c \/ b # a => blk'[x][b] = blk[x][b]
      /\ \A b \in Addrs : b # a => latest'[b] = latest[b]
  BY <1>1, <1>2, <1>3, StoreEffect, Zenon
<1>5. \A x \in Caches, b \in Addrs : Holds(x, b)' <=> Holds(x, b)
  BY <1>1, Zenon DEF Holds, Storing, InMemory, Acked
<1>6. ~AtDir(a) /\ \A m \in resps : m.addr \in Addrs /\ m.addr # a
  BY <1>2, Zenon DEF OneCopy, Sent, TypeOK, Datas
<1>7. CopyInv'
  <2>1. ASSUME NEW x \in Caches, NEW b \in Addrs, Holds(x, b)  PROVE blk'[x][b] = latest'[b]
    BY <2>1, <1>2, <1>4 DEF CopyInv, OneCopy
  <2>2. \A m \in resps : m.data = latest'[m.addr]
    BY <1>4, <1>6, Zenon DEF CopyInv
  <2> QED  BY <2>1, <2>2, <1>1, <1>5, Zenon DEF CopyInv
<1>8. PutDataInv'
  <2>1. ASSUME NEW n \in reqs, n.type = "PUTX", l1[n.from][n.addr] = "MI"
        PROVE  n.data = blk'[n.from][n.addr]
    <3>1. n.from \in Caches /\ n.addr \in Addrs
      BY Zenon DEF TypeOK, Requests
    <3>2. n.from # c \/ n.addr # a
      BY <2>1, <1>1, Zenon
    <3> QED  BY <2>1, <3>1, <3>2, <1>4, Zenon DEF PutDataInv
  <2> QED  BY <2>1, <1>1, Zenon DEF PutDataInv
<1>9. HomeInv'
  BY <1>1, <1>4, <1>6, Zenon DEF HomeInv, AtDir
<1> QED  BY <1>7, <1>8, <1>9, Zenon

\* The data arrives and is loaded, or stored to at once.
LEMMA ArrivalData ==
  ASSUME IInv, DataInv, NEW c \in Caches, NEW a \in Addrs, NEW m \in resps, m.to = c, m.addr = a,
         l1[c][a] \in Waiting, l1' = [l1 EXCEPT ![c][a] = "M"], resps' = resps \ {m},
         blk'[c][a] = latest'[a],
         \A x \in Caches, b \in Addrs : x # c \/ b # a => blk'[x][b] = blk[x][b],
         \A b \in Addrs : b # a => latest'[b] = latest[b],
         UNCHANGED <<fwd, reqs, dir, mem, memq>>
  PROVE  DataInv'
<1> USE DEF IInv, CohInv, DataInv
<1>1. \A x \in Caches, b \in Addrs : l1'[x][b] = IF x = c /\ b = a THEN "M" ELSE l1[x][b]
  BY Zenon DEF TypeOK
<1>2. Sent(c, a)
  BY Zenon DEF Sent
<1>3. ~AtDir(a) /\ \A x \in Caches : ~Holds(x, a)
  BY <1>2, Zenon DEF OneCopy
<1>4. \A n \in resps' : n.addr \in Addrs /\ n.addr # a
  BY Zenon DEF NetInv, TypeOK, Datas
<1>5. \A x \in Caches, b \in Addrs : Holds(x, b)' => Holds(x, b) \/ (x = c /\ b = a)
  BY <1>1 DEF Holds, Storing, InMemory, Acked
<1>6. CopyInv'
  <2>1. ASSUME NEW x \in Caches, NEW b \in Addrs, Holds(x, b)'  PROVE blk'[x][b] = latest'[b]
    BY <2>1, <1>3, <1>5 DEF CopyInv
  <2>2. \A n \in resps' : n.data = latest'[n.addr]
    BY <1>4, Zenon DEF CopyInv
  <2> QED  BY <2>1, <2>2, Zenon DEF CopyInv
<1>7. PutDataInv'
  <2>1. ASSUME NEW n \in reqs', n.type = "PUTX", l1'[n.from][n.addr] = "MI"
        PROVE  n.data = blk'[n.from][n.addr]
    <3>1. n \in reqs /\ n.from \in Caches /\ n.addr \in Addrs
      BY Zenon DEF TypeOK, Requests
    <3>2. n.from # c \/ n.addr # a
      BY <2>1, <3>1, <1>1
    <3> QED  BY <2>1, <3>1, <3>2, <1>1 DEF PutDataInv
  <2> QED  BY <2>1, Zenon DEF PutDataInv
<1>8. HomeInv'
  BY <1>3, Zenon DEF HomeInv, AtDir
<1> QED  BY <1>6, <1>7, <1>8, Zenon

\* A miss asks for the line; no data moves.
LEMMA MissData ==
  ASSUME IInv, DataInv, NEW c \in Caches, NEW op \in Ops, NEW a \in Addrs, Miss(c, op, a)
  PROVE  DataInv'
<1> USE DEF IInv, CohInv, DataInv
<1>1. PICK s \in Waiting : l1' = [l1 EXCEPT ![c][a] = s]
  BY Zenon DEF Miss, Waiting
<1>2. \A x \in Caches, b \in Addrs : l1'[x][b] = IF x = c /\ b = a THEN s ELSE l1[x][b]
  BY <1>1, Zenon DEF TypeOK
<1> DEFINE r == Request("GETX", c, a, Zero)
<1>3. r.type = "GETX" /\ reqs' = reqs \cup {r}
  BY Zenon DEF Miss, Request
<1> HIDE DEF r
<1>4. blk' = blk /\ resps' = resps /\ dir' = dir /\ mem' = mem /\ memq' = memq /\ latest' = latest
  BY Zenon DEF Miss, dirVars
<1>5. NoNewHolder
  BY MissStep, Zenon
<1>6. PutDataInv'
  <2>1. ASSUME NEW n \in reqs, l1'[n.from][n.addr] = "MI"  PROVE l1[n.from][n.addr] = "MI"
    BY <2>1, <1>2, Zenon DEF TypeOK, Requests, Waiting
  <2> QED  BY <2>1, <1>3, <1>4, Zenon DEF PutDataInv
<1> QED  BY <1>4, <1>5, <1>6, DataFrame, Zenon

\* A writeback takes the block with it.
LEMMA WriteBackData ==
  ASSUME IInv, DataInv, NEW c \in Caches, NEW a \in Addrs, WriteBack(c, a)
  PROVE  DataInv'
<1> USE DEF IInv, CohInv, DataInv
<1>1. \A x \in Caches, b \in Addrs : l1'[x][b] = IF x = c /\ b = a THEN "MI" ELSE l1[x][b]
  BY Zenon DEF WriteBack, TypeOK
<1> DEFINE r == Request("PUTX", c, a, blk[c][a])
<1>2. r.from = c /\ r.addr = a /\ r.data = blk[c][a] /\ reqs' = reqs \cup {r}
  BY Zenon DEF WriteBack, Request
<1> HIDE DEF r
<1>3. /\ blk' = blk /\ resps' = resps /\ dir' = dir /\ mem' = mem /\ memq' = memq
      /\ latest' = latest /\ l1[c][a] = "M"
  BY Zenon DEF WriteBack, dirVars
<1>4. NoNewHolder
  BY WriteBackStep, Zenon
<1>5. PutDataInv'
  <2>1. ~Putting(c, a)
    BY <1>3, Zenon DEF PutInv
  <2>2. ASSUME NEW n \in reqs, n.type = "PUTX", l1'[n.from][n.addr] = "MI"
        PROVE  l1[n.from][n.addr] = "MI"
    <3>1. n.from \in Caches /\ n.addr \in Addrs
      BY Zenon DEF TypeOK, Requests
    <3>2. ~(n.from = c /\ n.addr = a)
      BY <2>1, <2>2, Zenon DEF Putting, Requested
    <3> QED  BY <2>2, <3>1, <3>2, <1>1, Zenon
  <2> QED  BY <2>2, <1>2, <1>3, Zenon DEF PutDataInv
<1> QED  BY <1>3, <1>4, <1>5, DataFrame, Zenon

\* The holder gives the line away with the latest words.
LEMMA ForwardData ==
  ASSUME IInv, DataInv, NEW c \in Caches, NEW a \in Addrs, Fwd_GETX(c, a)
  PROVE  DataInv'
<1> USE DEF IInv, CohInv, DataInv
<1>1. /\ AtHead(c, "GETX", a) /\ Pop(c) /\ l1[c][a] \in {"M", "MI", "MII"}
      /\ blk' = blk /\ reqs' = reqs /\ dir' = dir /\ mem' = mem /\ memq' = memq
      /\ latest' = latest
  BY Zenon DEF Fwd_GETX, dirVars
<1>2. PICK d \in Caches : d = Head(fwd[c]).req /\ Asks(c, a, d)
  BY <1>1, PopEffect
<1>3. Holds(c, a)
  BY <1>1, <1>2, Zenon DEF PutInv, Holds
<1> DEFINE r == Data(Head(fwd[c]).req, a, blk[c][a])
<1>4. r.addr = a /\ r.data = blk[c][a] /\ resps' = resps \cup {r}
  BY Zenon DEF Fwd_GETX, Data
<1> HIDE DEF r
<1>5. CopyInv'
  <2>1. NoNewHolder
    BY ForwardStep, Zenon
  <2>2. \A x \in Caches, b \in Addrs : Holds(x, b)' => blk'[x][b] = latest'[b]
    BY <2>1, <1>1, Zenon DEF NoNewHolder, CopyInv
  <2>3. \A m \in resps' : m.data = latest'[m.addr]
    BY <1>1, <1>3, <1>4, Zenon DEF CopyInv
  <2> QED  BY <2>2, <2>3, Zenon DEF CopyInv
<1>6. PICK s \in {"I", "II"} : l1' = [l1 EXCEPT ![c][a] = s]
  BY <1>1, Zenon DEF Fwd_GETX, AfterFwd
<1>7. \A x \in Caches, b \in Addrs : l1'[x][b] = IF x = c /\ b = a THEN s ELSE l1[x][b]
  BY <1>6, Zenon DEF TypeOK
<1>8. PutDataInv'
  <2>1. ASSUME NEW n \in reqs, l1'[n.from][n.addr] = "MI"  PROVE l1[n.from][n.addr] = "MI"
    BY <2>1, <1>7, Zenon DEF TypeOK, Requests
  <2> QED  BY <2>1, <1>1, Zenon DEF PutDataInv
<1> QED  BY <1>1, <1>5, <1>8, DataFrame, Zenon

\* An answer to a writeback ends it; no data moves.
LEMMA AnswerData ==
  ASSUME IInv, DataInv, NEW c \in Caches, NEW a \in Addrs,
         Writeback_Ack(c, a) \/ Writeback_Nack(c, a)
  PROVE  DataInv'
<1> USE DEF IInv, CohInv, DataInv
<1>1. NoNewHolder
  BY AckStep, NackStep, Zenon
<1>2. PICK s \in {"I", "MII"} : l1' = [l1 EXCEPT ![c][a] = s]
  BY Zenon DEF Writeback_Ack, Writeback_Nack
<1>3. \A x \in Caches, b \in Addrs : l1'[x][b] = IF x = c /\ b = a THEN s ELSE l1[x][b]
  BY <1>2, Zenon DEF TypeOK
<1>4. /\ blk' = blk /\ reqs' = reqs /\ resps' = resps /\ dir' = dir /\ mem' = mem
      /\ memq' = memq /\ latest' = latest
  BY Zenon DEF Writeback_Ack, Writeback_Nack, dirVars
<1>5. PutDataInv'
  <2>1. ASSUME NEW n \in reqs, l1'[n.from][n.addr] = "MI"  PROVE l1[n.from][n.addr] = "MI"
    BY <2>1, <1>3, Zenon DEF TypeOK, Requests
  <2> QED  BY <2>1, <1>4, Zenon DEF PutDataInv
<1> QED  BY <1>1, <1>4, <1>5, DataFrame, Zenon

\* Every step of a cache keeps the data current.
LEMMA CacheStepData ==
  ASSUME IInv, DataInv, NEW c \in Caches, CacheStep(c)
  PROVE  DataInv'
<1>1. PICK a \in Addrs :
        \/ LoadHit(c, a)
        \/ \E w \in Words, v \in Values : StoreHit(c, a, w, v) \/ StoreData(c, a, w, v)
        \/ \E op \in Ops : Miss(c, op, a)
        \/ ReplaceInvalid(c, a) \/ ReplaceModified(c, a)
        \/ InvalidateModified(c, a) \/ InvalidateIgnored(c, a)
        \/ LoadData(c, a)
        \/ Fwd_GETX(c, a) \/ Writeback_Ack(c, a) \/ Writeback_Nack(c, a)
  BY Zenon DEF CacheStep
<1>2. ASSUME LoadHit(c, a) \/ ReplaceInvalid(c, a)  PROVE DataInv'
  <2>1. UNCHANGED core
    BY <1>2, Zenon DEF LoadHit, ReplaceInvalid, core, netVars, dirVars
  <2>2. NoNewHolder
    BY <2>1, QuietStep, Zenon DEF IInv
  <2>3. blk' = blk /\ latest' = latest /\ mem' = mem
    BY <1>2, Zenon DEF LoadHit, ReplaceInvalid, dirVars
  <2> QED  BY <2>1, <2>2, <2>3, DataFrame, Zenon DEF core, DataInv, IInv
<1>3. ASSUME InvalidateIgnored(c, a)  PROVE DataInv'
  <2>1. NoNewHolder
    BY <1>3, IgnoreStep, Zenon
  <2>2. /\ blk' = blk /\ l1' = l1 /\ reqs' = reqs /\ resps' = resps /\ dir' = dir /\ mem' = mem
        /\ memq' = memq /\ latest' = latest
    BY <1>3, Zenon DEF InvalidateIgnored, cacheVars, dirVars
  <2> QED  BY <2>1, <2>2, DataFrame, Zenon DEF DataInv, IInv
<1>4. ASSUME LoadData(c, a)  PROVE DataInv'
  <2>1. PICK m \in resps : /\ m.to = c /\ m.addr = a /\ l1[c][a] = "IS"
                           /\ l1' = [l1 EXCEPT ![c][a] = "M"]
                           /\ blk' = [blk EXCEPT ![c][a] = m.data]
                           /\ resps' = resps \ {m}
                           /\ UNCHANGED <<fwd, reqs, dirVars, latest>>
    BY <1>4, Zenon DEF LoadData
  <2>2. m.data = latest[a]
    BY <2>1, Zenon DEF DataInv, CopyInv
  <2>3. /\ blk'[c][a] = latest'[a]
        /\ \A x \in Caches, b \in Addrs : x # c \/ b # a => blk'[x][b] = blk[x][b]
    BY <2>1, <2>2, Zenon DEF IInv, TypeOK
  <2> QED  BY <2>1, <2>3, ArrivalData, Zenon DEF Waiting, dirVars
<1>5. ASSUME NEW w \in Words, NEW v \in Values, StoreData(c, a, w, v)  PROVE DataInv'
  <2>1. PICK m \in resps : /\ m.to = c /\ m.addr = a /\ l1[c][a] = "IM"
                           /\ l1' = [l1 EXCEPT ![c][a] = "M"]
                           /\ Store(c, a, w, v, m.data)
                           /\ resps' = resps \ {m}
                           /\ UNCHANGED <<fwd, reqs, dirVars>>
    BY <1>5, Zenon DEF StoreData
  <2>2. PICK old : old = m.data
    BY Zenon
  <2>3. old = latest[a]
    BY <2>1, <2>2, Zenon DEF DataInv, CopyInv
  <2>4. /\ blk'[c][a] = latest'[a]
        /\ \A x \in Caches, b \in Addrs : x # c \/ b # a => blk'[x][b] = blk[x][b]
        /\ \A b \in Addrs : b # a => latest'[b] = latest[b]
    BY <2>1, <2>2, <2>3, StoreEffect DEF IInv
  <2> QED  BY <2>1, <2>4, ArrivalData, Zenon DEF Waiting, dirVars
<1> QED  BY <1>1, <1>2, <1>3, <1>4, <1>5, StoreHitData, MissData, WriteBackData, ForwardData,
            AnswerData, Zenon DEF ReplaceModified, InvalidateModified

----------------------------------------------------------------------------
(* The steps of a directory keep the data current *)

\* What the owner writes back is the latest block.
LEMMA OwnersBlock ==
  ASSUME IInv, DataInv, NEW m \in reqs, m.type = "PUTX", IsOwner(m)
  PROVE  m.data = latest[m.addr]
<1>1. m.from \in Caches /\ m.addr \in Addrs /\ Putting(m.from, m.addr)
  BY Zenon DEF IInv, TypeOK, Requests, Putting, Requested
<1>2. l1[m.from][m.addr] = "MI" /\ Holds(m.from, m.addr)
  BY <1>1 DEF IsOwner, IInv, CohInv, GetInv, PutInv, Holds
<1> QED  BY <1>1, <1>2, Zenon DEF DataInv, CopyInv, PutDataInv

\* Every step of a directory on a coherence request keeps the data current.
LEMMA RequestStepData ==
  ASSUME IInv, DataInv, NEW m \in reqs, RequestStep(m)
  PROVE  DataInv'
<1> USE DEF IInv, DataInv
<1>1. /\ blk' = blk /\ l1' = l1 /\ resps' = resps /\ mem' = mem /\ latest' = latest
      /\ reqs' \subseteq reqs
  BY Zenon DEF RequestStep, GetIdle, GetOwned, PutOwned, PutNotOwner, PutForDmaRead, PutForDmaWrite,
         Take, cacheVars, dirVars
<1>2. NoNewHolder
  BY RequestStepCoh, Zenon
<1>3. m.addr \in Addrs
  BY Zenon DEF TypeOK, Requests
<1>4. CASE PutNotOwner(m)
  BY <1>1, <1>2, <1>4, DataFrame, Zenon DEF PutNotOwner, dirVars
<1>5. CASE GetIdle(m)
  <2>1. \A b \in Addrs : /\ dir'[b] = IF b = m.addr THEN "IM" ELSE dir[b]
                         /\ b # m.addr => memq'[b] = memq[b]
    BY <1>3, <1>5, Zenon DEF GetIdle, DirStep, TypeOK
  <2>2. HomeInv'
    BY <2>1, <1>1, <1>5, Zenon DEF GetIdle, HomeInv
  <2> QED  BY <2>2, <1>1, <1>2, DataFrame, Zenon
<1>6. CASE GetOwned(m)
  <2>1. dir' = dir /\ memq' = memq
    BY <1>3, <1>6 DEF GetOwned, DirStep, TypeOK
  <2> QED  BY <2>1, <1>1, <1>2, DataFrame, Zenon
<1>7. CASE PutOwned(m) \/ PutForDmaRead(m)
  <2> DEFINE q == MemoryWrite(m.from, m.data, 0)
  <2>1. q.data = m.data /\ q.len = 0
    BY Zenon DEF MemoryWrite
  <2>2. m.type = "PUTX" /\ IsOwner(m)
    BY <1>7, Zenon DEF PutOwned, PutForDmaRead, Take
  <2>3. m.data = latest[m.addr]
    BY <2>2, OwnersBlock, Zenon
  <2> HIDE DEF q
  <2>4. PICK s \in {"MI", "M_DRDI"} : dir' = [dir EXCEPT ![m.addr] = s]
    BY <1>7, Zenon DEF PutOwned, PutForDmaRead, DirStep
  <2>5. memq' = [memq EXCEPT ![m.addr] = q]
    BY <1>7, Zenon DEF PutOwned, PutForDmaRead, DirStep, q
  <2>6. \A b \in Addrs : /\ dir'[b] = IF b = m.addr THEN s ELSE dir[b]
                         /\ memq'[b] = IF b = m.addr THEN q ELSE memq[b]
    BY <2>4, <2>5, <1>3, Zenon DEF TypeOK
  <2>7. HomeInv'
    BY <2>1, <2>3, <2>6, <1>1, <1>3, Zenon DEF HomeInv
  <2> QED  BY <2>7, <1>1, <1>2, DataFrame, Zenon
<1>8. CASE PutForDmaWrite(m)
  <2>1. \A b \in Addrs : /\ dir'[b] = IF b = m.addr THEN "M_DWRI" ELSE dir[b]
                         /\ b # m.addr => memq'[b] = memq[b]
    BY <1>3, <1>8, Zenon DEF PutForDmaWrite, DirStep, TypeOK
  <2>2. HomeInv'
    BY <2>1, <1>1, Zenon DEF HomeInv
  <2> QED  BY <2>2, <1>1, <1>2, DataFrame, Zenon
<1> QED  BY <1>4, <1>5, <1>6, <1>7, <1>8, Zenon DEF RequestStep

\* So does every step on a DMA request.
LEMMA DmaStepData ==
  ASSUME IInv, DataInv, NEW a \in Addrs, DmaStep(a)
  PROVE  DataInv'
<1> USE DEF IInv, DataInv
<1>1. /\ blk' = blk /\ l1' = l1 /\ resps' = resps /\ mem' = mem /\ latest' = latest
      /\ reqs' = reqs
  BY Zenon DEF DmaStep, DmaReadIdle, DmaWriteIdle, DmaReadOwned, DmaWriteOwned, DmaOwned, DmaData,
         DmaAck, DmaAnswer, cacheVars, netVars, dirVars
<1>2. NoNewHolder
  BY DmaStepCoh, Zenon
<1>3. ASSUME DmaReadIdle(a) \/ DmaWriteIdle(a) \/ DmaReadOwned(a) \/ DmaWriteOwned(a)
      PROVE  HomeInv'
  <2>1. PICK s \in {"ID", "ID_W", "M_DRD", "M_DWR"} :
          dir' = [dir EXCEPT ![a] = s] /\ (s = "ID" => dir[a] = "I")
    BY <1>3, Zenon DEF DmaReadIdle, DmaWriteIdle, DmaReadOwned, DmaWriteOwned, DmaOwned, DirStep
  <2>2. \A b \in Addrs : /\ dir'[b] = IF b = a THEN s ELSE dir[b]
                         /\ b # a => memq'[b] = memq[b]
    BY <2>1, <1>3, Zenon DEF DmaReadIdle, DmaWriteIdle, DmaReadOwned, DmaWriteOwned, DmaOwned, DirStep,
                      TypeOK
  <2> QED  BY <2>1, <2>2, <1>1, Zenon DEF HomeInv
<1>4. ASSUME DmaData(a) \/ DmaAck(a)  PROVE HomeInv'
  BY <1>4, <1>1, DataFrame, Zenon DEF DmaData, DmaAck, DmaAnswer, dirVars
<1> QED  BY <1>1, <1>2, <1>3, <1>4, DataFrame, Zenon DEF DmaStep

\* And every answer of memory, when devices write whole blocks.
LEMMA MemoryStepData ==
  ASSUME IInv, DmaInv, DataInv, NEW a \in Addrs, MemoryStep(a)
  PROVE  DataInv'
<1> USE DEF IInv, DataInv
<1>1. blk' = blk /\ l1' = l1 /\ reqs' = reqs
  BY Zenon DEF MemoryStep, DataFetched, DmaDataFetched, WritebackDone, DmaWriteOwnedDone, DmaWriteDone,
         cacheVars, netVars
<1>2. NoNewHolder
  BY MemoryStepCoh, Zenon
<1>3. AtDir(a) /\ \A x \in Caches : ~Holds(x, a) /\ ~Sent(x, a)
  <2>1. AtDir(a)
    BY Zenon DEF MemoryStep, DataFetched, DmaDataFetched, WritebackDone, DmaWriteOwnedDone,
           DmaWriteDone, MemoryDone, AtDir
  <2> QED  BY <2>1, Zenon DEF CohInv, OneCopy
<1>4. \A b \in Addrs : b # a => dir'[b] = dir[b] /\ memq'[b] = memq[b]
  BY DEF MemoryStep, DataFetched, DmaDataFetched, WritebackDone, DmaWriteOwnedDone, DmaWriteDone,
         DirStep, TypeOK
<1>5. CASE DataFetched(a)
  <2>1. dir[a] = "IM" /\ dir'[a] = "M" /\ mem' = mem /\ latest' = latest
    BY <1>5, Zenon DEF DataFetched, MemoryDone, DirStep, TypeOK
  <2> DEFINE r == Data(memq[a].sender, a, mem[a])
  <2>2. r.addr = a /\ r.data = mem[a] /\ resps' = resps \cup {r}
    BY <1>5, Zenon DEF DataFetched, Data
  <2> HIDE DEF r
  <2>3. mem[a] = latest[a]
    BY <2>1, Zenon DEF HomeInv
  <2>4. CopyInv'
    <3>1. \A x \in Caches, b \in Addrs : Holds(x, b)' => blk'[x][b] = latest'[b]
      BY <2>1, <1>1, <1>2, Zenon DEF NoNewHolder, CopyInv
    <3>2. \A m \in resps' : m.data = latest'[m.addr]
      BY <2>1, <2>2, <2>3, Zenon DEF CopyInv
    <3> QED  BY <3>1, <3>2, Zenon DEF CopyInv
  <2>5. HomeInv'
    BY <2>1, <1>4, Zenon DEF HomeInv
  <2> QED  BY <2>4, <2>5, <1>1, DataFrame, Zenon
<1>6. CASE DmaDataFetched(a)
  <2>1. /\ dir[a] = "ID" /\ dir'[a] = "I" /\ mem' = mem /\ latest' = latest
        /\ resps' = resps
    BY <1>6, Zenon DEF DmaDataFetched, MemoryDone, DirStep, TypeOK, netVars
  <2>2. HomeInv'
    BY <2>1, <1>4, Zenon DEF HomeInv
  <2> QED  BY <2>1, <2>2, <1>1, <1>2, DataFrame, Zenon
<1>7. CASE WritebackDone(a)
  <2>1. /\ dir[a] \in {"MI", "M_DRDI"} /\ dir'[a] = "I" /\ latest' = latest
        /\ resps' = resps
    BY <1>7, Zenon DEF WritebackDone, MemoryDone, DirStep, TypeOK
  <2>2. mem[a] \in Block /\ latest[a] \in Block
    BY Zenon DEF TypeOK
  <2>3. Written(mem[a], memq[a]) = latest[a]
    BY <2>1, <2>2, WholeWrite DEF HomeInv
  <2>4. \A b \in Addrs : mem'[b] = IF b = a THEN latest[a] ELSE mem[b]
    BY <2>3, <1>7, Zenon DEF WritebackDone, TypeOK
  <2>5. HomeInv'
    BY <2>1, <2>4, <1>4, Zenon DEF HomeInv
  <2> QED  BY <2>1, <2>5, <1>1, <1>2, DataFrame, Zenon
<1>8. CASE DmaWriteOwnedDone(a) \/ DmaWriteDone(a)
  <2>1. /\ dir[a] \in {"M_DWRI", "ID_W"} /\ dir'[a] = "I" /\ resps' = resps
    BY <1>8, Zenon DEF DmaWriteOwnedDone, DmaWriteDone, MemoryDone, DirStep, TypeOK, netVars
  <2>2. mem[a] \in Block /\ latest[a] \in Block
    BY Zenon DEF TypeOK
  <2>3. PICK new \in Block : new = tbe[a].data
    BY <2>1 DEF TypeOK, CohInv, DirInv, DirLine, DmaRequests
  <2>4. Whole(tbe[a]) /\ memq[a].data = new /\ memq[a].len = BlockSize
    BY <2>1, <2>3, Zenon DEF DmaInv
  <2>5. Written(mem[a], memq[a]) = new /\ Meant(latest[a], tbe[a]) = new
    BY <2>2, <2>3, <2>4, WholeWrite, Zenon
  <2>6. /\ mem' = [mem EXCEPT ![a] = Written(@, memq[a])]
        /\ latest' = [latest EXCEPT ![a] = Meant(@, tbe[a])]
    BY <1>8, Zenon DEF DmaWriteOwnedDone, DmaWriteDone
  <2>7. \A b \in Addrs : /\ mem'[b] = IF b = a THEN new ELSE mem[b]
                         /\ latest'[b] = IF b = a THEN new ELSE latest[b]
    BY <2>5, <2>6, Zenon DEF TypeOK
  <2>8. HomeInv'
    BY <2>1, <2>7, <1>4, Zenon DEF HomeInv
  <2>9. CopyInv'
    <3>1. ASSUME NEW x \in Caches, NEW b \in Addrs, Holds(x, b)'
          PROVE  blk'[x][b] = latest'[b]
      BY <3>1, <2>7, <1>1, <1>2, <1>3, Zenon DEF NoNewHolder, CopyInv
    <3>2. \A m \in resps : m.addr \in Addrs /\ m.addr # a
      BY <1>3, Zenon DEF Sent, TypeOK, Datas
    <3>3. \A m \in resps' : m.data = latest'[m.addr]
      BY <3>2, <2>1, <2>7, Zenon DEF CopyInv
    <3> QED  BY <3>1, <3>3, Zenon DEF CopyInv
  <2> QED  BY <2>8, <2>9, <1>1, DataFrame, Zenon
<1> QED  BY <1>5, <1>6, <1>7, <1>8, Zenon DEF MemoryStep

----------------------------------------------------------------------------
(* One DMA request per line *)

\* A cache has no part in it.
LEMMA CacheStepDma ==
  ASSUME DmaInv, NEW c \in Caches, CacheStep(c)
  PROVE  DmaInv' /\ dmaResp' = dmaResp
<1>1. UNCHANGED <<dma, dmaReq, dmaResp, dir, tbe, memq>>
  BY DEF CacheStep, LoadHit, StoreHit, StoreData, Miss, ReplaceInvalid, ReplaceModified,
         InvalidateModified, WriteBack, InvalidateIgnored, LoadData, Fwd_GETX, Writeback_Ack,
         Writeback_Nack, dirVars, dmaVars
<1> QED  BY <1>1, Zenon DEF DmaInv

\* The directory's steps on coherence requests; when one answers a device, it
\* does so with the owner's block.
LEMMA RequestStepDma ==
  ASSUME IInv, DmaInv, DataInv, NEW m \in reqs, RequestStep(m)
  PROVE  /\ DmaInv'
         /\ \A b \in Addrs : dmaResp'[b] # dmaResp[b] => dmaResp'[b].data = latest[b]
<1> USE DEF IInv
<1>1. m.addr \in Addrs
  BY Zenon DEF TypeOK, Requests
<1>2. CASE PutNotOwner(m)
  <2>1. UNCHANGED <<dma, dmaReq, dmaResp, dir, tbe, memq>>
    BY <1>2, Zenon DEF PutNotOwner, dirVars, dmaVars
  <2> QED  BY <2>1, Zenon DEF DmaInv
<1>3. CASE GetIdle(m) \/ PutOwned(m)
  <2>1. /\ UNCHANGED <<dma, dmaReq, dmaResp>>
        /\ dir'[m.addr] \in {"IM", "MI"}
        /\ \A b \in Addrs : b # m.addr => /\ dir'[b] = dir[b] /\ tbe'[b] = tbe[b]
                                          /\ memq'[b] = memq[b]
    BY <1>1, <1>3 DEF GetIdle, PutOwned, DirStep, dmaVars, TypeOK
  <2> QED  BY <2>1 DEF DmaInv
<1>4. CASE GetOwned(m)
  <2>1. UNCHANGED <<dma, dmaReq, dmaResp, dir, tbe, memq>>
    BY <1>1, <1>4 DEF GetOwned, DirStep, dmaVars, TypeOK
  <2> QED  BY <2>1, Zenon DEF DmaInv
<1>5. CASE PutForDmaRead(m)
  <2> DEFINE r == [type |-> "DATA", data |-> m.data]
  <2>1. r.data = m.data
    BY Zenon
  <2> HIDE DEF r
  <2>2. /\ dma' = dma /\ dmaReq' = dmaReq /\ dir[m.addr] = "M_DRD" /\ dir'[m.addr] = "M_DRDI"
        /\ \A b \in Addrs : b # m.addr => /\ dir'[b] = dir[b] /\ tbe'[b] = tbe[b]
                                          /\ memq'[b] = memq[b]
        /\ \A b \in Addrs : dmaResp'[b] = IF b = m.addr THEN r ELSE dmaResp[b]
    BY <1>1, <1>5, Zenon DEF PutForDmaRead, DirStep, TypeOK, r
  <2>3. DmaInv'
    BY <2>2 DEF DmaInv
  <2>4. m.data = latest[m.addr]
    BY <1>5, OwnersBlock, Zenon DEF PutForDmaRead, Take
  <2> QED  BY <2>1, <2>2, <2>3, <2>4, Zenon
<1>6. CASE PutForDmaWrite(m)
  <2> DEFINE q == MemoryWrite(m.from, tbe[m.addr].data, tbe[m.addr].len)
  <2>1. q.data = tbe[m.addr].data /\ q.len = tbe[m.addr].len
    BY Zenon DEF MemoryWrite
  <2> HIDE DEF q
  <2>2. /\ UNCHANGED <<dma, dmaReq, dmaResp>>
        /\ dir[m.addr] = "M_DWR" /\ dir'[m.addr] = "M_DWRI" /\ memq'[m.addr] = q
        /\ tbe' = tbe
        /\ \A b \in Addrs : b # m.addr => dir'[b] = dir[b] /\ memq'[b] = memq[b]
    BY <1>1, <1>6, Zenon DEF PutForDmaWrite, DirStep, dmaVars, TypeOK, q
  <2>3. q.data = tbe[m.addr].data /\ q.len = BlockSize
    BY <2>1, <2>2, <1>1, Zenon DEF DmaInv, Whole
  <2> QED  BY <2>2, <2>3, <1>1 DEF DmaInv
<1> QED  BY <1>2, <1>3, <1>4, <1>5, <1>6, Zenon DEF RequestStep

\* The directory takes a DMA request, or the device its answer.
LEMMA DmaStepDma ==
  ASSUME IInv, DmaInv, NEW a \in Addrs, DmaStep(a)
  PROVE  DmaInv' /\ \A b \in Addrs : dmaResp'[b] \in {dmaResp[b], None}
<1> USE DEF IInv
<1>1. CASE DmaReadIdle(a) \/ DmaReadOwned(a)
  <2>1. /\ dmaReq[a] # None /\ dmaReq[a].type = "READ" /\ dma' = dma /\ dmaResp' = dmaResp
        /\ dir'[a] \in {"ID", "M_DRD"}
        /\ \A b \in Addrs : dmaReq'[b] = IF b = a THEN None ELSE dmaReq[b]
        /\ \A b \in Addrs : b # a => /\ dir'[b] = dir[b] /\ tbe'[b] = tbe[b]
                                     /\ memq'[b] = memq[b]
    BY <1>1 DEF DmaReadIdle, DmaReadOwned, DmaOwned, TakeDma, DirStep, TypeOK
  <2> QED  BY <2>1 DEF DmaInv
<1>2. CASE DmaWriteIdle(a)
  <2> DEFINE q == MemoryWrite(None, dmaReq[a].data, dmaReq[a].len)
  <2>1. q.data = dmaReq[a].data /\ q.len = dmaReq[a].len
    BY Zenon DEF MemoryWrite
  <2> HIDE DEF q
  <2>2. /\ dmaReq[a] # None /\ dmaReq[a].type = "WRITE" /\ dma' = dma /\ dmaResp' = dmaResp
        /\ dir'[a] = "ID_W" /\ tbe'[a] = dmaReq[a] /\ memq'[a] = q
        /\ \A b \in Addrs : dmaReq'[b] = IF b = a THEN None ELSE dmaReq[b]
        /\ \A b \in Addrs : b # a => /\ dir'[b] = dir[b] /\ tbe'[b] = tbe[b]
                                     /\ memq'[b] = memq[b]
    BY <1>2, Zenon DEF DmaWriteIdle, TakeDma, DirStep, TypeOK, q
  <2> QED  BY <2>1, <2>2 DEF DmaInv, Whole
<1>3. CASE DmaWriteOwned(a)
  <2>1. /\ dmaReq[a] # None /\ dmaReq[a].type = "WRITE" /\ dma' = dma /\ dmaResp' = dmaResp
        /\ dir'[a] = "M_DWR" /\ tbe'[a] = dmaReq[a]
        /\ \A b \in Addrs : dmaReq'[b] = IF b = a THEN None ELSE dmaReq[b]
        /\ \A b \in Addrs : b # a => /\ dir'[b] = dir[b] /\ tbe'[b] = tbe[b]
                                     /\ memq'[b] = memq[b]
    BY <1>3, Zenon DEF DmaWriteOwned, DmaOwned, TakeDma, DirStep, TypeOK
  <2> QED  BY <2>1 DEF DmaInv, Whole
<1>4. CASE DmaData(a) \/ DmaAck(a)
  <2>1. /\ dmaResp[a] # None /\ UNCHANGED <<dmaReq, dir, tbe, memq>>
        /\ \A b \in Addrs : /\ dma'[b] = IF b = a THEN "READY" ELSE dma[b]
                            /\ dmaResp'[b] = IF b = a THEN None ELSE dmaResp[b]
    BY <1>4, Zenon DEF DmaData, DmaAck, DmaAnswer, dirVars, TypeOK
  <2> QED  BY <2>1 DEF DmaInv
<1> QED  BY <1>1, <1>2, <1>3, <1>4, Zenon DEF DmaStep

\* Memory answers; a device that reads gets the latest block.
LEMMA MemoryStepDma ==
  ASSUME IInv, DmaInv, DataInv, NEW a \in Addrs, MemoryStep(a)
  PROVE  /\ DmaInv'
         /\ \A b \in Addrs : dmaResp'[b] # dmaResp[b] /\ dma[b] = "BUSY_RD" =>
              dmaResp'[b].data = latest[b]
<1> USE DEF IInv
<1>1. /\ dma' = dma /\ dmaReq' = dmaReq /\ dir'[a] \in {"I", "M"}
      /\ \A b \in Addrs : b # a => /\ dir'[b] = dir[b] /\ tbe'[b] = tbe[b]
                                   /\ memq'[b] = memq[b]
  BY DEF MemoryStep, DataFetched, DmaDataFetched, WritebackDone, DmaWriteOwnedDone, DmaWriteDone,
         DirStep, dmaVars, TypeOK
<1>2. CASE DataFetched(a) \/ WritebackDone(a)
  <2>1. dmaResp' = dmaResp
    BY <1>2, Zenon DEF DataFetched, WritebackDone, dmaVars
  <2> QED  BY <2>1, <1>1 DEF DmaInv
<1>3. CASE DmaDataFetched(a)
  <2> DEFINE r == [type |-> "DATA", data |-> mem[a]]
  <2>1. r.data = mem[a]
    BY Zenon
  <2> HIDE DEF r
  <2>2. /\ dir[a] = "ID"
        /\ \A b \in Addrs : dmaResp'[b] = IF b = a THEN r ELSE dmaResp[b]
    BY <1>3, Zenon DEF DmaDataFetched, MemoryDone, TypeOK, r
  <2>3. mem[a] = latest[a]
    BY <2>2, Zenon DEF DataInv, HomeInv
  <2>4. DmaInv'
    BY <2>2, <1>1 DEF DmaInv
  <2> QED  BY <2>1, <2>2, <2>3, <2>4, Zenon
<1>4. CASE DmaWriteOwnedDone(a) \/ DmaWriteDone(a)
  <2>1. /\ dir[a] \in {"M_DWRI", "ID_W"}
        /\ \A b \in Addrs : b # a => dmaResp'[b] = dmaResp[b]
    BY <1>4, Zenon DEF DmaWriteOwnedDone, DmaWriteDone, MemoryDone, TypeOK
  <2>2. dma[a] = "BUSY_WR" /\ dmaReq[a] = None
    BY <2>1, Zenon DEF DmaInv
  <2>3. DmaInv'
    BY <2>1, <2>2, <1>1 DEF DmaInv
  <2> QED  BY <2>1, <2>2, <2>3, Zenon
<1> QED  BY <1>2, <1>3, <1>4, Zenon DEF MemoryStep

\* A new request of a device is for a whole block.
LEMMA IssueDma ==
  ASSUME WholeBlocks, IInv, DmaInv, Issue
  PROVE  DmaInv' /\ dmaResp' = dmaResp
<1> USE DEF IInv
<1>1. CASE \E c \in Caches, op \in Ops, a \in Addrs : CpuRequest(c, op, a)
  <2>1. UNCHANGED <<dma, dmaReq, dmaResp, dir, tbe, memq>>
    BY <1>1, Zenon DEF CpuRequest, dirVars, dmaVars
  <2> QED  BY <2>1, Zenon DEF DmaInv
<1>2. ASSUME NEW a \in Addrs, NEW x \in DmaAccess, NEW type \in {"READ", "WRITE"}, NEW v,
             DmaRequest(a, type, x, v)
      PROVE  DmaInv' /\ dmaResp' = dmaResp
  <2> DEFINE r == [type |-> type, offset |-> x[1], len |-> x[2],
                   data |-> [w \in Words |->
                     IF type = "WRITE" /\ x[1] <= w /\ w < x[1] + x[2] THEN v ELSE 0]]
  <2>1. r.type = type /\ Whole(r)
    BY DEF WholeBlocks, Whole
  <2>2. dmaReq' = [dmaReq EXCEPT ![a] = r]
    BY <1>2, Zenon DEF DmaRequest
  <2> HIDE DEF r
  <2>3. /\ dma[a] = "READY" /\ UNCHANGED <<dmaResp, dir, tbe, memq>>
        /\ \A b \in Addrs : dmaReq'[b] = IF b = a THEN r ELSE dmaReq[b]
        /\ \A b \in Addrs : dma'[b] = IF b # a THEN dma[b]
                                      ELSE IF type = "READ" THEN "BUSY_RD" ELSE "BUSY_WR"
    BY <2>2, <1>2, Zenon DEF DmaRequest, dirVars, TypeOK
  <2> QED  BY <2>1, <2>3 DEF DmaInv
<1> QED  BY <1>1, <1>2, Zenon DEF Issue

----------------------------------------------------------------------------
(* What is read is what was last written *)

\* The data invariant holds when all blocks are zero.
LEMMA InitData == Init => DInv
<1> SUFFICES ASSUME Init  PROVE DInv
  BY Zenon
<1>1. IInv
  BY InitInv, Zenon
<1>2. DmaInv
  BY Zenon DEF Init, DmaInv
<1>3. DataInv
  BY Zenon DEF Init, DataInv, CopyInv, PutDataInv, HomeInv
<1> QED  BY <1>1, <1>2, <1>3, Zenon DEF DInv

\* Every step keeps it, and a device that reads gets the latest block.
LEMMA NextData ==
  ASSUME WholeBlocks, DInv, [Next]_vars
  PROVE  /\ DInv'
         /\ \A b \in Addrs : dmaResp[b] = None /\ dmaResp'[b] # None /\ dma[b] = "BUSY_RD" =>
              dmaResp'[b].data = latest[b]
<1> USE DEF DInv
<1>1. IInv'
  BY NextInv, Zenon
<1>2. CASE UNCHANGED vars
  <2>1. NoNewHolder
    BY <1>2, QuietStep, Zenon DEF IInv, vars, core
  <2>2. DataInv'
    BY <1>2, <2>1, DataFrame, Zenon DEF IInv, DataInv, vars
  <2>3. DmaInv' /\ dmaResp' = dmaResp
    BY <1>2, Zenon DEF vars, DmaInv
  <2> QED  BY <2>2, <2>3, <1>1, Zenon
<1>3. CASE Issue
  <2>1. UNCHANGED core /\ UNCHANGED <<blk, latest, mem>>
    BY <1>3, Zenon DEF Issue, CpuRequest, DmaRequest, core, cacheVars, netVars, dirVars
  <2>2. NoNewHolder
    BY <2>1, QuietStep, Zenon DEF IInv
  <2>3. DataInv'
    BY <2>1, <2>2, DataFrame, Zenon DEF core, DataInv, IInv
  <2> QED  BY <2>3, <1>1, <1>3, IssueDma, Zenon
<1>4. ASSUME NEW c \in Caches, CacheStep(c)  PROVE DataInv' /\ DmaInv' /\ dmaResp' = dmaResp
  BY <1>4, CacheStepData, CacheStepDma, Zenon
<1>5. ASSUME NEW m \in reqs, RequestStep(m)
      PROVE  /\ DataInv' /\ DmaInv'
             /\ \A b \in Addrs : dmaResp'[b] # dmaResp[b] => dmaResp'[b].data = latest[b]
  BY <1>5, RequestStepData, RequestStepDma, Zenon
<1>6. ASSUME NEW a \in Addrs, DmaStep(a)
      PROVE  DataInv' /\ DmaInv' /\ \A b \in Addrs : dmaResp'[b] \in {dmaResp[b], None}
  BY <1>6, DmaStepData, DmaStepDma, Zenon
<1>7. ASSUME NEW a \in Addrs, MemoryStep(a)
      PROVE  /\ DataInv' /\ DmaInv'
             /\ \A b \in Addrs : dmaResp'[b] # dmaResp[b] /\ dma[b] = "BUSY_RD" =>
                  dmaResp'[b].data = latest[b]
  BY <1>7, MemoryStepData, MemoryStepDma, Zenon
<1>8. CASE Protocol
  BY <1>1, <1>4, <1>5, <1>6, <1>7, <1>8, Zenon DEF Protocol
<1> QED  BY <1>2, <1>3, <1>8, Zenon DEF Next

\* Always.
LEMMA DataInvariance == ASSUME WholeBlocks PROVE Spec => []DInv
BY InitData, NextData, PTL DEF Spec

\* A processor reads what was last written, by any processor or device: a block
\* in state M and a block on its way to a cache hold the latest words, for any
\* number of caches, lines and directories, when devices access whole blocks.
THEOREM CoherentReads == WholeBlocks => (Spec => []ReadsLatest)
<1> SUFFICES ASSUME WholeBlocks  PROVE Spec => []ReadsLatest
  BY Zenon
<1>1. DInv => ReadsLatest
  BY Zenon DEF DInv, DataInv, CopyInv, Holds, ReadsLatest
<1> QED  BY <1>1, DataInvariance, PTL

\* Memory holds the latest words of every line the directory has in state I,
\* where functional accesses of the simulator read it.
THEOREM CoherentMemory == WholeBlocks => (Spec => []MemoryCurrent)
<1> SUFFICES ASSUME WholeBlocks  PROVE Spec => []MemoryCurrent
  BY Zenon
<1>1. DInv => MemoryCurrent
  BY Zenon DEF DInv, DataInv, HomeInv, MemoryCurrent
<1> QED  BY <1>1, DataInvariance, PTL

\* A device that reads a whole line gets the latest words, from memory or from
\* the cache that had to give the line up.
THEOREM CoherentDma == WholeBlocks => (Spec => DmaReadsLatest)
<1> SUFFICES ASSUME WholeBlocks  PROVE Spec => DmaReadsLatest
  BY Zenon
<1> DEFINE Answered == \A a \in Addrs :
              dmaResp[a] = None /\ dmaResp'[a] # None /\ dma[a] = "BUSY_RD"
                => dmaResp'[a].data = latest[a]
<1>1. DInv /\ [Next]_vars => [Answered]_vars
  BY NextData, Zenon
<1> QED  BY <1>1, DataInvariance, PTL DEF Spec, DmaReadsLatest

----------------------------------------------------------------------------
(* While no device makes a request *)

IdleDevices == \A a \in Addrs : dma[a] = "READY"

\* There are no invalidations and no DMA states of the directory.
NoDmaInv ==
  /\ \A a \in Addrs : dmaReq[a] = None /\ dir[a] \in {"I", "M", "IM", "MI"}
  /\ \A c \in Caches : \A m \in Range(fwd[c]) : m.type # "INV"

\* A cache sends no forward messages.
LEMMA CacheForwards ==
  ASSUME IInv, NEW c \in Caches, CacheStep(c)
  PROVE  \A x \in Caches : Range(fwd'[x]) \subseteq Range(fwd[x])
<1>1. PICK a \in Addrs :
        \/ LoadHit(c, a)
        \/ \E w \in Words, v \in Values : StoreHit(c, a, w, v) \/ StoreData(c, a, w, v)
        \/ \E op \in Ops : Miss(c, op, a)
        \/ ReplaceInvalid(c, a) \/ ReplaceModified(c, a)
        \/ InvalidateModified(c, a) \/ InvalidateIgnored(c, a)
        \/ LoadData(c, a)
        \/ Fwd_GETX(c, a) \/ Writeback_Ack(c, a) \/ Writeback_Nack(c, a)
  BY Zenon DEF CacheStep
<1>2. fwd' = fwd
      \/ \E t \in {"GETX", "INV", "WB_ACK", "WB_NACK"} : AtHead(c, t, a) /\ Pop(c)
  BY <1>1, Zenon DEF LoadHit, StoreHit, StoreData, Miss, ReplaceInvalid, ReplaceModified,
              InvalidateModified, WriteBack, InvalidateIgnored, LoadData, Fwd_GETX,
              Writeback_Ack, Writeback_Nack, netVars
<1>3. ASSUME NEW t \in {"GETX", "INV", "WB_ACK", "WB_NACK"}, AtHead(c, t, a), Pop(c)
      PROVE  \A x \in Caches : Range(fwd'[x]) \subseteq Range(fwd[x])
  BY <1>3, PopEffect, Zenon DEF IInv, CohInv
<1> QED  BY <1>2, <1>3, Zenon

\* A message that is not an invalidation brings none.
LEMMA SendsNoInv ==
  ASSUME IInv, NEW c \in Caches, NEW t \in {"GETX", "WB_ACK", "WB_NACK"}, NEW a \in Addrs,
         NEW d \in Caches, Send(c, Forward(t, a, d)),
         \A x \in Caches : \A m \in Range(fwd[x]) : m.type # "INV"
  PROVE  \A x \in Caches : \A m \in Range(fwd'[x]) : m.type # "INV"
<1> DEFINE n == Forward(t, a, d)
<1>1. n \in Forwards /\ n.type # "INV"
  BY Zenon DEF Forward, Forwards, Nodes
<1>2. PICK q \in Seq(Forwards) : q = fwd[c]
  BY Zenon DEF IInv, TypeOK
<1>3. PICK r \in Arrivals(q, n) : fwd' = [fwd EXCEPT ![c] = r]
  BY <1>2, Zenon DEF Send
<1> HIDE DEF n
<1>4. Range(r) = Range(q) \cup {n}
  BY <1>1, <1>2, <1>3, Insertion, Zenon
<1>5. \A x \in Caches : fwd'[x] = IF x = c THEN r ELSE fwd[x]
  BY <1>3, Zenon DEF IInv, TypeOK
<1> QED  BY <1>1, <1>2, <1>4, <1>5, Zenon

\* No step without a new request of a device starts a DMA transaction.
LEMMA NextNoDma ==
  ASSUME IInv, NoDmaInv, IdleDevices', [Next]_vars
  PROVE  NoDmaInv'
<1> USE DEF IInv
<1>1. CASE UNCHANGED vars
  BY <1>1, Zenon DEF vars, NoDmaInv
<1>2. ASSUME NEW c \in Caches, NEW op \in Ops, NEW a \in Addrs, CpuRequest(c, op, a)
      PROVE  NoDmaInv'
  BY <1>2, Zenon DEF CpuRequest, netVars, dirVars, dmaVars, NoDmaInv
<1>3. ASSUME NEW a \in Addrs, NEW type, NEW x, NEW v, DmaRequest(a, type, x, v)
      PROVE  FALSE
  BY <1>3, Zenon DEF DmaRequest, TypeOK, IdleDevices
<1>4. ASSUME NEW c \in Caches, CacheStep(c)  PROVE NoDmaInv'
  <2>1. dmaReq' = dmaReq /\ dir' = dir
    BY <1>4, Zenon DEF CacheStep, LoadHit, StoreHit, StoreData, Miss, ReplaceInvalid,
         ReplaceModified, InvalidateModified, WriteBack, InvalidateIgnored, LoadData, Fwd_GETX,
         Writeback_Ack, Writeback_Nack, dirVars, dmaVars
  <2> QED  BY <2>1, <1>4, CacheForwards, Zenon DEF NoDmaInv
<1>5. ASSUME NEW m \in reqs, RequestStep(m)  PROVE NoDmaInv'
  <2>1. m.from \in Caches /\ m.addr \in Addrs
    BY Zenon DEF TypeOK, Requests
  <2>2. CASE GetIdle(m) \/ PutOwned(m)
    <3>1. /\ dmaReq' = dmaReq /\ fwd' = fwd
          /\ \A b \in Addrs : dir'[b] \in {dir[b], "IM", "MI"}
      BY <2>1, <2>2, Zenon DEF GetIdle, PutOwned, DirStep, dmaVars, TypeOK
    <3> QED  BY <3>1, Zenon DEF NoDmaInv
  <2>3. CASE GetOwned(m)
    <3>1. /\ dmaReq' = dmaReq /\ \A b \in Addrs : dir'[b] \in {dir[b], "M"}
          /\ dir[m.addr] = "M" /\ Send(owner[m.addr], Forward("GETX", m.addr, m.from))
      BY <2>1, <2>3, Zenon DEF GetOwned, ForwardTo, DirStep, dmaVars, TypeOK
    <3>2. PICK o \in Caches : o = owner[m.addr]
      BY <2>1, <3>1 DEF CohInv, DirInv, DirLine, TypeOK, Nodes
    <3> QED  BY <2>1, <3>1, <3>2, SendsNoInv, Zenon DEF NoDmaInv
  <2>4. CASE PutNotOwner(m)
    <3>1. /\ dmaReq' = dmaReq /\ dir' = dir
          /\ Send(m.from, Forward("WB_NACK", m.addr, m.from))
      BY <2>4, Zenon DEF PutNotOwner, dirVars, dmaVars
    <3> QED  BY <2>1, <3>1, SendsNoInv, Zenon DEF NoDmaInv
  <2>5. ~PutForDmaRead(m) /\ ~PutForDmaWrite(m)
    BY <2>1, Zenon DEF PutForDmaRead, PutForDmaWrite, NoDmaInv
  <2> QED  BY <2>2, <2>3, <2>4, <2>5, <1>5, Zenon DEF RequestStep
<1>6. ASSUME NEW a \in Addrs, DmaStep(a)  PROVE NoDmaInv'
  <2>1. CASE DmaData(a) \/ DmaAck(a)
    BY <2>1, Zenon DEF DmaData, DmaAck, DmaAnswer, netVars, dirVars, NoDmaInv
  <2>2. ~DmaReadIdle(a) /\ ~DmaWriteIdle(a) /\ ~DmaReadOwned(a) /\ ~DmaWriteOwned(a)
    BY Zenon DEF DmaReadIdle, DmaWriteIdle, DmaReadOwned, DmaWriteOwned, DmaOwned, TakeDma, NoDmaInv
  <2> QED  BY <2>1, <2>2, <1>6, Zenon DEF DmaStep
<1>7. ASSUME NEW a \in Addrs, MemoryStep(a)  PROVE NoDmaInv'
  <2>1. CASE DataFetched(a)
    <3>1. dmaReq' = dmaReq /\ fwd' = fwd /\ \A b \in Addrs : dir'[b] \in {dir[b], "M"}
      BY <2>1, Zenon DEF DataFetched, DirStep, dmaVars, TypeOK
    <3> QED  BY <3>1, Zenon DEF NoDmaInv
  <2>2. CASE WritebackDone(a)
    <3>1. /\ dmaReq' = dmaReq /\ \A b \in Addrs : dir'[b] \in {dir[b], "I"}
          /\ dir[a] \in {"MI", "M_DRDI"}
          /\ Send(memq[a].sender, Forward("WB_ACK", a, memq[a].sender))
      BY <2>2, Zenon DEF WritebackDone, MemoryDone, DirStep, dmaVars, TypeOK
    <3>2. PICK o \in Caches : o = memq[a].sender
      BY <3>1, Zenon DEF CohInv, DirInv, DirLine
    <3> QED  BY <3>1, <3>2, SendsNoInv, Zenon DEF NoDmaInv
  <2>3. ~DmaDataFetched(a) /\ ~DmaWriteOwnedDone(a) /\ ~DmaWriteDone(a)
    BY Zenon DEF DmaDataFetched, DmaWriteOwnedDone, DmaWriteDone, MemoryDone, NoDmaInv
  <2> QED  BY <2>1, <2>2, <2>3, <1>7, Zenon DEF MemoryStep
<1> QED  BY <1>1, <1>2, <1>3, <1>4, <1>5, <1>6, <1>7, Zenon DEF Next, Issue, Protocol

\* Then every event finds a transition.
LEMMA EventsExpected == IInv /\ NoDmaInv => NoInvalidTransition
<1> SUFFICES ASSUME IInv, NoDmaInv  PROVE NoInvalidTransition
  BY Zenon
<1> USE DEF IInv, CohInv
<1>1. ASSUME NEW c \in Caches, fwd[c] # << >>
      PROVE  <<l1[c][Head(fwd[c]).addr], Head(fwd[c]).type>> \in ForwardEvents
  <2>1. PICK q \in Seq(Forwards) : q = fwd[c]
    BY Zenon DEF TypeOK
  <2>2. Queue(q) /\ q # << >>
    BY <2>1, <1>1, Zenon DEF MailInv
  <2>3. Head(q) \in Forwards /\ Head(q) \in Range(q)
    BY <2>2, PopQueue, Zenon
  <2>4. PICK m \in Forwards : m = Head(fwd[c]) /\ m \in Range(fwd[c])
    BY <2>1, <2>3, Zenon
  <2>5. /\ m.type \in {"GETX", "WB_ACK", "WB_NACK"} /\ m.addr \in Addrs
        /\ m = Forward(m.type, m.addr, m.req)
    BY <2>4, Zenon DEF NoDmaInv, Forwards, Forward
  <2>6. /\ m.type = "GETX" => m.req \in Caches /\ Asks(c, m.addr, m.req)
        /\ m.type = "WB_ACK" => Acked(c, m.addr)
        /\ m.type = "WB_NACK" => Nacked(c, m.addr)
    BY <2>4, <2>5, Zenon DEF MailInv, Asks, Acked, Nacked
  <2>7. /\ m.type = "GETX" => l1[c][m.addr] \notin {"I", "II"}
        /\ m.type = "WB_ACK" => l1[c][m.addr] = "MI"
        /\ m.type = "WB_NACK" => l1[c][m.addr] \in {"MI", "II"}
    BY <2>5, <2>6, Zenon DEF GetInv, PutInv
  <2>8. l1[c][m.addr] \in {"IS", "IM", "MI", "II", "MII", "I", "M"}
    BY <2>5 DEF TypeOK, Busy
  <2>9. <<l1[c][m.addr], m.type>> \in ForwardEvents
    BY <2>5, <2>7, <2>8, Zenon DEF ForwardEvents
  <2> QED  BY <2>4, <2>9, Zenon
<1>2. ASSUME NEW m \in reqs
      PROVE  <<dir[m.addr], IF m.type = "GETX" THEN "GETX"
                            ELSE IF IsOwner(m) THEN "PUTX" ELSE "PUTX_NotOwner">>
               \in RequestEvents
  <2>1. m.from \in Caches /\ m.addr \in Addrs
    BY Zenon DEF TypeOK, Requests
  <2>2. /\ dir[m.addr] \in {"I", "M", "IM", "MI"}
        /\ IsOwner(m) => dir[m.addr] \in {"M", "IM"}
    BY <2>1, ProtocolAssumption, Zenon DEF NoDmaInv, DirInv, DirLine, IsOwner
  <2> QED  BY <2>2, Zenon DEF RequestEvents, Recycling
<1>3. \A m \in resps : l1[m.to][m.addr] \in {"IS", "IM"}
  BY DEF GetInv, Sent, TypeOK, Datas, Waiting
<1>4. ASSUME NEW a \in Addrs, memq[a] # None
      PROVE  dir[a] \in IF memq[a].type = "READ" THEN {"IM", "ID"}
                        ELSE {"MI", "M_DRDI", "M_DWRI", "ID_W"}
  BY <1>4, Zenon DEF DirInv, DirLine, NoDmaInv
<1> QED  BY <1>1, <1>2, <1>3, <1>4, Zenon DEF NoInvalidTransition

\* As long as no device makes a request, no controller meets an event that its
\* state has no transition for: the generated code never panics with "Invalid
\* transition", for any number of caches, lines and directories and with a
\* memory however fast.
THEOREM TransitionsExist == Spec /\ []IdleDevices => []NoInvalidTransition
<1>1. Init => NoDmaInv
  <2>1. DOMAIN << >> = {}
    OBVIOUS
  <2> QED  BY <2>1 DEF Init, NoDmaInv, Range
<1>2. IInv /\ NoDmaInv /\ IdleDevices' /\ [Next]_vars => NoDmaInv'
  BY NextNoDma, Zenon
<1> QED  BY <1>1, <1>2, Invariance, EventsExpected, PTL DEF Spec
=============================================================================
