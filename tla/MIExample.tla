----------------------------- MODULE MIExample -----------------------------
(***************************************************************************)
(* The MI_example coherence protocol of Ruby: L1 caches, directories with  *)
(* their memory, and one DMA controller, one action per transition of the  *)
(* three SLICC machines.                                                   *)
(*                                                                         *)
(* A request stays in reqs until the directory consumes it: recycling puts *)
(* it back, and a cache never has two requests for one line on their way,  *)
(* so the order of the request network is not observable.  The forward     *)
(* queue of a cache is a sequence, because a stalled head blocks what is   *)
(* behind it.  A line in transit between a directory and its memory is     *)
(* touched by nobody else, so the memory access and its answer are one     *)
(* step.  A load and an instruction fetch are alike here (LD).             *)
(***************************************************************************)
EXTENDS Integers, Sequences, FiniteSets

CONSTANTS
  Caches,      \* L1 cache controllers, one per sequencer
  Addrs,       \* cache lines
  DirOf,       \* DirOf[a]: the directory controller of line a
  Ways,        \* entries of a cache (one set)
  Ops,         \* what sequencers issue: a subset of {"LD", "ST"}
  BlockSize,   \* words in a block
  Values,      \* what a word may hold
  DmaAccess,   \* <<offset, length>> of the accesses a DMA device makes
  FastMemory,  \* may memory answer within directory_latency cycles?
  None

Words == 0 .. BlockSize - 1
Block == [Words -> Values]
Zero == [w \in Words |-> 0]

ASSUME ProtocolAssumption ==
  /\ Ways \in Nat \ {0}
  /\ BlockSize \in Nat \ {0}
  /\ 0 \in Values
  /\ Ops \subseteq {"LD", "ST"}
  /\ DmaAccess \subseteq Words \X (1 .. BlockSize)
  /\ FastMemory \in BOOLEAN
  /\ None \notin Caches

VARIABLES
  l1,         \* l1[c][a]: state of line a in cache c (TBE first, then entry)
  entries,    \* entries[c]: the lines with an allocated cache entry
  blk,        \* blk[c][a]: DataBlk of the entry, or of the TBE once it is gone
  mandatory,  \* mandatory[c]: the mandatory queue
  fwd,        \* fwd[c]: forward messages on their way to c or in its queue
  reqs,       \* coherence requests on their way to, or recycled by, a directory
  resps,      \* data messages on their way to a cache
  dir,        \* dir[a]: directory state of line a
  owner,      \* owner[a]: the Owner of line a, or None
  tbe,        \* tbe[a]: the DMA request of the directory's TBE, or None
  memq,       \* memq[a]: the access in the queues to and from memory, or None
  mem,        \* mem[a]: the block in memory
  dma,        \* dma[a]: state of line a in the DMA controller
  dmaReq,     \* dmaReq[a]: the DMA request on its way to the directory, or None
  dmaResp,    \* dmaResp[a]: the answer on its way back, or None
  latest      \* history: the words last written by a store or by DMA

cacheVars == <<l1, entries, blk, mandatory>>
netVars == <<fwd, reqs, resps>>
dirVars == <<dir, owner, tbe, memq, mem>>
dmaVars == <<dma, dmaReq, dmaResp>>
vars == <<l1, entries, blk, mandatory, fwd, reqs, resps, dir, owner, tbe, memq,
          mem, dma, dmaReq, dmaResp, latest>>

Init ==
  /\ l1 = [c \in Caches |-> [a \in Addrs |-> "I"]]
  /\ entries = [c \in Caches |-> {}]
  /\ blk = [c \in Caches |-> [a \in Addrs |-> Zero]]
  /\ mandatory = [c \in Caches |-> << >>]
  /\ fwd = [c \in Caches |-> << >>]
  /\ reqs = {}
  /\ resps = {}
  /\ dir = [a \in Addrs |-> "I"]
  /\ owner = [a \in Addrs |-> None]
  /\ tbe = [a \in Addrs |-> None]
  /\ memq = [a \in Addrs |-> None]
  /\ mem = [a \in Addrs |-> Zero]
  /\ dma = [a \in Addrs |-> "READY"]
  /\ dmaReq = [a \in Addrs |-> None]
  /\ dmaResp = [a \in Addrs |-> None]
  /\ latest = [a \in Addrs |-> Zero]

----------------------------------------------------------------------------
(* Messages *)

Request(type, c, a, data) == [type |-> type, from |-> c, addr |-> a, data |-> data]
Forward(type, a, c) == [type |-> type, addr |-> a, req |-> c]
Data(c, a, data) == [to |-> c, addr |-> a, data |-> data]

\* Where a forward message may end up in the queue of a cache: behind all
\* earlier ones of its directory.  The ack of a writeback leaves one cycle
\* after memory answers, every other message directory_latency cycles after
\* its cause: with a fast memory the ack overtakes them.
Arrivals(q, m) ==
  {SubSeq(q, 1, k - 1) \o <<m>> \o SubSeq(q, k, Len(q)) : k \in
     {k \in 1 .. Len(q) + 1 :
        \A i \in k .. Len(q) :
          \/ DirOf[q[i].addr] # DirOf[m.addr]
          \/ FastMemory /\ m.type = "WB_ACK"}}

Send(c, m) == \E q \in Arrivals(fwd[c], m) : fwd' = [fwd EXCEPT ![c] = q]

Pop(c) == fwd' = [fwd EXCEPT ![c] = Tail(@)]

----------------------------------------------------------------------------
(* The sequencer and the L1 cache controller *)

Busy == {"IS", "IM", "MI", "II", "MII"}

\* The sequencer has a request of c for line a in flight.
Outstanding(c, a) ==
  \/ \E i \in DOMAIN mandatory[c] : mandatory[c][i].addr = a
  \/ l1[c][a] \in {"IS", "IM"}

\* One request per line at a time.
CpuRequest(c, op, a) ==
  /\ ~Outstanding(c, a)
  /\ mandatory' = [mandatory EXCEPT ![c] = Append(@, [op |-> op, addr |-> a])]
  /\ UNCHANGED <<l1, entries, blk, netVars, dirVars, dmaVars, latest>>

\* The mandatory port works on line a with op: there is an entry or room for it.
Access(c, op, a) ==
  /\ mandatory[c] # << >>
  /\ Head(mandatory[c]) = [op |-> op, addr |-> a]
  /\ a \in entries[c] \/ Cardinality(entries[c]) < Ways

\* The mandatory port evicts line v for its head.
Evict(c, v) ==
  /\ mandatory[c] # << >>
  /\ Head(mandatory[c]).addr \notin entries[c]
  /\ Cardinality(entries[c]) >= Ways
  /\ v \in entries[c]

PopMandatory(c) == mandatory' = [mandatory EXCEPT ![c] = Tail(@)]

\* r_load_hit: the sequencer reads the block.
LoadHit(c, a) ==
  /\ Access(c, "LD", a)
  /\ l1[c][a] = "M"
  /\ PopMandatory(c)
  /\ UNCHANGED <<l1, entries, blk, netVars, dirVars, dmaVars, latest>>

\* The sequencer's write callback: word w of the block becomes v.
MutStore(c, a, w, v, old) ==
  /\ blk' = [blk EXCEPT ![c][a] = old]
  /\ latest' = [latest EXCEPT ![a][w] = v]
Store(c, a, w, v, old) ==
  /\ blk' = [blk EXCEPT ![c][a] = [old EXCEPT ![w] = v]]
  /\ latest' = [latest EXCEPT ![a][w] = v]

StoreHit(c, a, w, v) ==
  /\ Access(c, "ST", a)
  /\ l1[c][a] = "M"
  /\ Store(c, a, w, v, blk[c][a])
  /\ PopMandatory(c)
  /\ UNCHANGED <<l1, entries, netVars, dirVars, dmaVars>>

\* transition(I, Store, IM) and transition(I, {Load, Ifetch}, IS).
Miss(c, op, a) ==
  /\ Access(c, op, a)
  /\ l1[c][a] = "I"
  /\ l1' = [l1 EXCEPT ![c][a] = IF op = "ST" THEN "IM" ELSE "IS"]
  /\ entries' = [entries EXCEPT ![c] = @ \cup {a}]
  /\ reqs' = reqs \cup {Request("GETX", c, a, Zero)}
  /\ PopMandatory(c)
  /\ UNCHANGED <<blk, fwd, resps, dirVars, dmaVars, latest>>

\* transition(I, Replacement).
ReplaceInvalid(c, v) ==
  /\ Evict(c, v)
  /\ l1[c][v] = "I"
  /\ entries' = [entries EXCEPT ![c] = @ \ {v}]
  /\ UNCHANGED <<l1, blk, mandatory, netVars, dirVars, dmaVars, latest>>

\* transition(M, {Replacement, Inv}, MI): the block moves to the TBE and goes
\* to the directory; an Inv stays at the head of the forward queue.
WriteBack(c, a) ==
  /\ l1[c][a] = "M"
  /\ l1' = [l1 EXCEPT ![c][a] = "MI"]
  /\ entries' = [entries EXCEPT ![c] = @ \ {a}]
  /\ reqs' = reqs \cup {Request("PUTX", c, a, blk[c][a])}
  /\ UNCHANGED <<blk, mandatory, fwd, resps, dirVars, dmaVars, latest>>

ReplaceModified(c, v) == Evict(c, v) /\ WriteBack(c, v)

\* The message at the head of the forward queue of c.
AtHead(c, type, a) ==
  /\ fwd[c] # << >>
  /\ Head(fwd[c]).type = type
  /\ Head(fwd[c]).addr = a

InvalidateModified(c, a) == AtHead(c, "INV", a) /\ WriteBack(c, a)

\* transition(MI, Inv) and transition(I, Inv).
InvalidateIgnored(c, a) ==
  /\ AtHead(c, "INV", a)
  /\ l1[c][a] \in {"MI", "I"}
  /\ Pop(c)
  /\ UNCHANGED <<cacheVars, reqs, resps, dirVars, dmaVars, latest>>

\* transition({IS, IM}, Data, M), a load or a store completing.
LoadData(c, a) ==
  \E m \in resps :
    /\ m.to = c /\ m.addr = a
    /\ l1[c][a] = "IS"
    /\ l1' = [l1 EXCEPT ![c][a] = "M"]
    /\ blk' = [blk EXCEPT ![c][a] = m.data]
    /\ resps' = resps \ {m}
    /\ UNCHANGED <<entries, mandatory, fwd, reqs, dirVars, dmaVars, latest>>

StoreData(c, a, w, v) ==
  \E m \in resps :
    /\ m.to = c /\ m.addr = a
    /\ l1[c][a] = "IM"
    /\ l1' = [l1 EXCEPT ![c][a] = "M"]
    /\ Store(c, a, w, v, m.data)
    /\ resps' = resps \ {m}
    /\ UNCHANGED <<entries, mandatory, fwd, reqs, dirVars, dmaVars>>

\* transition(M, Fwd_GETX, I), (MI, Fwd_GETX, II) and (MII, Fwd_GETX, I).
MutAfterFwd(s) == IF s = "M" THEN "M" ELSE IF s = "MI" THEN "II" ELSE "I"
AfterFwd(s) == IF s = "MI" THEN "II" ELSE "I"

Fwd_GETX(c, a) ==
  /\ AtHead(c, "GETX", a)
  /\ l1[c][a] \in {"M", "MI", "MII"}
  /\ l1' = [l1 EXCEPT ![c][a] = AfterFwd(@)]
  /\ resps' = resps \cup {Data(Head(fwd[c]).req, a, blk[c][a])}
  /\ Pop(c)
  /\ UNCHANGED <<entries, blk, mandatory, reqs, dirVars, dmaVars, latest>>

\* transition(MI, Writeback_Ack, I).
Writeback_Ack(c, a) ==
  /\ AtHead(c, "WB_ACK", a)
  /\ l1[c][a] = "MI"
  /\ l1' = [l1 EXCEPT ![c][a] = "I"]
  /\ Pop(c)
  /\ UNCHANGED <<entries, blk, mandatory, reqs, resps, dirVars, dmaVars, latest>>

\* transition(MI, Writeback_Nack, MII) and (II, Writeback_Nack, I).
Writeback_Nack(c, a) ==
  /\ AtHead(c, "WB_NACK", a)
  /\ l1[c][a] \in {"MI", "II"}
  /\ l1' = [l1 EXCEPT ![c][a] = IF @ = "MI" THEN "MII" ELSE "I"]
  /\ Pop(c)
  /\ UNCHANGED <<entries, blk, mandatory, reqs, resps, dirVars, dmaVars, latest>>

----------------------------------------------------------------------------
(* The directory controller and memory *)

\* A directory entry changes state, owner, TBE and memory access together.
DirStep(a, s, o, t, q) ==
  /\ dir' = [dir EXCEPT ![a] = s]
  /\ owner' = [owner EXCEPT ![a] = o]
  /\ tbe' = [tbe EXCEPT ![a] = t]
  /\ memq' = [memq EXCEPT ![a] = q]

MemoryRead(sender) == [type |-> "READ", sender |-> sender, data |-> Zero, len |-> 0]
MutMemoryWrite(sender, data, len) ==
  [type |-> "WB", sender |-> sender, data |-> data, len |-> len - 1]
MemoryWrite(sender, data, len) ==
  [type |-> "WB", sender |-> sender, data |-> data, len |-> len]

Take(m, type) == m.type = type /\ reqs' = reqs \ {m}

\* transition(I, GETX, IM).
GetIdle(m) ==
  /\ Take(m, "GETX")
  /\ dir[m.addr] = "I"
  /\ DirStep(m.addr, "IM", m.from, None, MemoryRead(m.from))
  /\ UNCHANGED <<cacheVars, fwd, resps, mem, dmaVars, latest>>

\* transition(M, GETX, M): the old owner answers the requestor.
ForwardTo(m) == owner[m.addr]
GetOwned(m) ==
  /\ Take(m, "GETX")
  /\ dir[m.addr] = "M"
  /\ Send(ForwardTo(m), Forward("GETX", m.addr, m.from))
  /\ DirStep(m.addr, "M", m.from, tbe[m.addr], memq[m.addr])
  /\ UNCHANGED <<cacheVars, resps, mem, dmaVars, latest>>

\* The test of the request port on a PUTX.
MutIsOwner(m) == TRUE
IsOwner(m) == owner[m.addr] = m.from

\* transition(M, PUTX, MI).
MutPutOwned(m) ==
  /\ Take(m, "PUTX")
  /\ IsOwner(m)
  /\ dir[m.addr] = "M"
  /\ DirStep(m.addr, "MI", owner[m.addr], None, MemoryWrite(m.from, m.data, 0))
  /\ UNCHANGED <<cacheVars, fwd, resps, mem, dmaVars, latest>>
PutOwned(m) ==
  /\ Take(m, "PUTX")
  /\ IsOwner(m)
  /\ dir[m.addr] = "M"
  /\ DirStep(m.addr, "MI", None, None, MemoryWrite(m.from, m.data, 0))
  /\ UNCHANGED <<cacheVars, fwd, resps, mem, dmaVars, latest>>

\* transition({M, I}, PUTX_NotOwner).
MutPutNotOwner(m) ==
  /\ Take(m, "PUTX")
  /\ ~IsOwner(m)
  /\ dir[m.addr] \in {"M", "I"}
  /\ UNCHANGED <<cacheVars, fwd, resps, dirVars, dmaVars, latest>>
PutNotOwner(m) ==
  /\ Take(m, "PUTX")
  /\ ~IsOwner(m)
  /\ dir[m.addr] \in {"M", "I"}
  /\ Send(m.from, Forward("WB_NACK", m.addr, m.from))
  /\ UNCHANGED <<cacheVars, resps, dirVars, dmaVars, latest>>

\* transition(M_DRD, PUTX, M_DRDI): the block goes to the device and to memory.
MutPutForDmaRead(m) ==
  /\ Take(m, "PUTX")
  /\ IsOwner(m)
  /\ dir[m.addr] = "M_DRD"
  /\ dmaResp' = [dmaResp EXCEPT ![m.addr] = [type |-> "DATA", data |-> mem[m.addr]]]
  /\ DirStep(m.addr, "M_DRDI", None, tbe[m.addr], MemoryWrite(m.from, m.data, 0))
  /\ UNCHANGED <<cacheVars, fwd, resps, mem, dma, dmaReq, latest>>
PutForDmaRead(m) ==
  /\ Take(m, "PUTX")
  /\ IsOwner(m)
  /\ dir[m.addr] = "M_DRD"
  /\ dmaResp' = [dmaResp EXCEPT ![m.addr] = [type |-> "DATA", data |-> m.data]]
  /\ DirStep(m.addr, "M_DRDI", None, tbe[m.addr], MemoryWrite(m.from, m.data, 0))
  /\ UNCHANGED <<cacheVars, fwd, resps, mem, dma, dmaReq, latest>>

\* transition(M_DWR, PUTX, M_DWRI): only the device's data goes to memory.
PutForDmaWrite(m) ==
  /\ Take(m, "PUTX")
  /\ IsOwner(m)
  /\ dir[m.addr] = "M_DWR"
  /\ DirStep(m.addr, "M_DWRI", None, tbe[m.addr],
             MemoryWrite(m.from, tbe[m.addr].data, tbe[m.addr].len))
  /\ UNCHANGED <<cacheVars, fwd, resps, mem, dmaVars, latest>>

TakeDma(a, type) ==
  /\ dmaReq[a] # None
  /\ dmaReq[a].type = type
  /\ dmaReq' = [dmaReq EXCEPT ![a] = None]

\* transition(I, DMA_READ, ID) and transition(I, DMA_WRITE, ID_W).
DmaReadIdle(a) ==
  /\ TakeDma(a, "READ")
  /\ dir[a] = "I"
  /\ DirStep(a, "ID", owner[a], dmaReq[a], MemoryRead(None))
  /\ UNCHANGED <<cacheVars, netVars, mem, dma, dmaResp, latest>>

DmaWriteIdle(a) ==
  /\ TakeDma(a, "WRITE")
  /\ dir[a] = "I"
  /\ DirStep(a, "ID_W", owner[a], dmaReq[a],
             MemoryWrite(None, dmaReq[a].data, dmaReq[a].len))
  /\ UNCHANGED <<cacheVars, netVars, mem, dma, dmaResp, latest>>

\* transition(M, DMA_READ, M_DRD) and transition(M, DMA_WRITE, M_DWR).
DmaOwned(a, type, s) ==
  /\ TakeDma(a, type)
  /\ dir[a] = "M"
  /\ Send(owner[a], Forward("INV", a, None))
  /\ DirStep(a, s, owner[a], dmaReq[a], memq[a])
  /\ UNCHANGED <<cacheVars, reqs, resps, mem, dma, dmaResp, latest>>

DmaReadOwned(a) == DmaOwned(a, "READ", "M_DRD")
DmaWriteOwned(a) == DmaOwned(a, "WRITE", "M_DWR")

MemoryDone(a, type, s) ==
  /\ dir[a] = s
  /\ memq[a] # None
  /\ memq[a].type = type

\* transition(IM, Memory_Data, M) and transition(ID, Memory_Data, I).
DataFetched(a) ==
  /\ MemoryDone(a, "READ", "IM")
  /\ resps' = resps \cup {Data(memq[a].sender, a, mem[a])}
  /\ DirStep(a, "M", owner[a], None, None)
  /\ UNCHANGED <<cacheVars, fwd, reqs, mem, dmaVars, latest>>

DmaDataFetched(a) ==
  /\ MemoryDone(a, "READ", "ID")
  /\ dmaResp' = [dmaResp EXCEPT ![a] = [type |-> "DATA", data |-> mem[a]]]
  /\ DirStep(a, "I", owner[a], None, None)
  /\ UNCHANGED <<cacheVars, netVars, mem, dma, dmaReq, latest>>

\* The controller writes len bytes from the start of the line (0: all of it).
MutWritten(old, q) == old
Written(old, q) ==
  [w \in Words |-> IF q.len = 0 \/ w < q.len THEN q.data[w] ELSE old[w]]

\* What a DMA write means: the words it addresses take the device's values.
Meant(old, t) ==
  [w \in Words |-> IF t.offset <= w /\ w < t.offset + t.len THEN t.data[w] ELSE old[w]]

\* transition({MI, M_DRDI}, Memory_Ack, I).
WritebackDone(a) ==
  /\ MemoryDone(a, "WB", "MI") \/ MemoryDone(a, "WB", "M_DRDI")
  /\ mem' = [mem EXCEPT ![a] = Written(@, memq[a])]
  /\ Send(memq[a].sender, Forward("WB_ACK", a, memq[a].sender))
  /\ DirStep(a, "I", owner[a], None, None)
  /\ UNCHANGED <<cacheVars, reqs, resps, dmaVars, latest>>

\* transition(M_DWRI, Memory_Ack, I).
DmaWriteOwnedDone(a) ==
  /\ MemoryDone(a, "WB", "M_DWRI")
  /\ mem' = [mem EXCEPT ![a] = Written(@, memq[a])]
  /\ latest' = [latest EXCEPT ![a] = Meant(@, tbe[a])]
  /\ Send(memq[a].sender, Forward("WB_ACK", a, memq[a].sender))
  /\ dmaResp' = [dmaResp EXCEPT ![a] = [type |-> "ACK", data |-> Zero]]
  /\ DirStep(a, "I", owner[a], None, None)
  /\ UNCHANGED <<cacheVars, reqs, resps, dma, dmaReq>>

\* transition(ID_W, Memory_Ack, I).
DmaWriteDone(a) ==
  /\ MemoryDone(a, "WB", "ID_W")
  /\ mem' = [mem EXCEPT ![a] = Written(@, memq[a])]
  /\ latest' = [latest EXCEPT ![a] = Meant(@, tbe[a])]
  /\ dmaResp' = [dmaResp EXCEPT ![a] = [type |-> "ACK", data |-> Zero]]
  /\ DirStep(a, "I", owner[a], None, None)
  /\ UNCHANGED <<cacheVars, netVars, dma, dmaReq>>

----------------------------------------------------------------------------
(* The DMA sequencer and the DMA controller *)

\* transition(READY, {ReadRequest, WriteRequest}, ...).  The sequencer accepts
\* one request per line; the device's words lie at their offset in a block
\* that is otherwise zero.
DmaRequest(a, type, x, v) ==
  /\ dma[a] = "READY"
  /\ dma' = [dma EXCEPT ![a] = IF type = "READ" THEN "BUSY_RD" ELSE "BUSY_WR"]
  /\ dmaReq' = [dmaReq EXCEPT ![a] =
       [type |-> type, offset |-> x[1], len |-> x[2],
        data |-> [w \in Words |->
                    IF type = "WRITE" /\ x[1] <= w /\ w < x[1] + x[2] THEN v ELSE 0]]]
  /\ UNCHANGED <<cacheVars, netVars, dirVars, dmaResp, latest>>

\* transition(BUSY_RD, Data, READY) and transition(BUSY_WR, Ack, READY).
DmaAnswer(a, type, s) ==
  /\ dmaResp[a] # None
  /\ dmaResp[a].type = type
  /\ dma[a] = s
  /\ dma' = [dma EXCEPT ![a] = "READY"]
  /\ dmaResp' = [dmaResp EXCEPT ![a] = None]
  /\ UNCHANGED <<cacheVars, netVars, dirVars, dmaReq, latest>>

DmaData(a) == DmaAnswer(a, "DATA", "BUSY_RD")
DmaAck(a) == DmaAnswer(a, "ACK", "BUSY_WR")

----------------------------------------------------------------------------
(* The specification *)

\* Steps of the controllers on messages and queued requests.
CacheStep(c) ==
  \E a \in Addrs :
    \/ LoadHit(c, a)
    \/ \E w \in Words, v \in Values : StoreHit(c, a, w, v) \/ StoreData(c, a, w, v)
    \/ \E op \in Ops : Miss(c, op, a)
    \/ ReplaceInvalid(c, a) \/ ReplaceModified(c, a)
    \/ InvalidateModified(c, a) \/ InvalidateIgnored(c, a)
    \/ LoadData(c, a)
    \/ Fwd_GETX(c, a) \/ Writeback_Ack(c, a) \/ Writeback_Nack(c, a)

RequestStep(m) ==
  \/ GetIdle(m) \/ GetOwned(m) \/ PutOwned(m) \/ PutNotOwner(m)
  \/ PutForDmaRead(m) \/ PutForDmaWrite(m)

DmaStep(a) ==
  \/ DmaReadIdle(a) \/ DmaWriteIdle(a) \/ DmaReadOwned(a) \/ DmaWriteOwned(a)
  \/ DmaData(a) \/ DmaAck(a)

MemoryStep(a) ==
  \/ DataFetched(a) \/ DmaDataFetched(a) \/ WritebackDone(a)
  \/ DmaWriteOwnedDone(a) \/ DmaWriteDone(a)

\* New requests of processors and devices.
Issue ==
  \/ \E c \in Caches, op \in Ops, a \in Addrs : CpuRequest(c, op, a)
  \/ \E a \in Addrs, x \in DmaAccess :
       DmaRequest(a, "READ", x, 0) \/ \E v \in Values : DmaRequest(a, "WRITE", x, v)

Protocol ==
  \/ \E c \in Caches : CacheStep(c)
  \/ \E m \in reqs : RequestStep(m)
  \/ \E a \in Addrs : DmaStep(a) \/ MemoryStep(a)

Next == Issue \/ Protocol

Spec == Init /\ [][Next]_vars

----------------------------------------------------------------------------
(* Properties *)

Nodes == Caches \cup {None}
Requests == [type : {"GETX", "PUTX"}, from : Caches, addr : Addrs, data : Block]
Forwards == [type : {"GETX", "INV", "WB_ACK", "WB_NACK"}, addr : Addrs, req : Nodes]
Datas == [to : Caches, addr : Addrs, data : Block]
DmaRequests == [type : {"READ", "WRITE"}, offset : Nat, len : Nat, data : Block]
MemoryOps == [type : {"READ", "WB"}, sender : Nodes, data : Block, len : Nat]

ASSUME NoneAssumption == None \notin MemoryOps

\* Type invariant.
TypeOK ==
  /\ l1 \in [Caches -> [Addrs -> Busy \cup {"I", "M"}]]
  /\ entries \in [Caches -> SUBSET Addrs]
  /\ blk \in [Caches -> [Addrs -> Block]]
  /\ mandatory \in [Caches -> Seq([op : Ops, addr : Addrs])]
  /\ fwd \in [Caches -> Seq(Forwards)]
  /\ reqs \subseteq Requests
  /\ resps \subseteq Datas
  /\ dir \in [Addrs -> {"I", "M", "M_DRD", "M_DWR", "M_DWRI", "M_DRDI", "IM", "MI",
                        "ID", "ID_W"}]
  /\ owner \in [Addrs -> Nodes]
  /\ tbe \in [Addrs -> DmaRequests \cup {None}]
  /\ memq \in [Addrs -> MemoryOps \cup {None}]
  /\ mem \in [Addrs -> Block]
  /\ dma \in [Addrs -> {"READY", "BUSY_RD", "BUSY_WR"}]
  /\ dmaReq \in [Addrs -> DmaRequests \cup {None}]
  /\ dmaResp \in [Addrs -> [type : {"DATA", "ACK"}, data : Block] \cup {None}]
  /\ latest \in [Addrs -> Block]

\* A single writer: when a cache may read and write a line (M), no other cache
\* may, and no data for the line is on its way to anybody.
SingleWriter ==
  \A c \in Caches, a \in Addrs : l1[c][a] = "M" =>
    /\ \A d \in Caches \ {c} : l1[d][a] # "M"
    /\ \A m \in resps : m.addr # a

\* What a processor reads is what was last written: a block in state M, and the
\* block in a data message, hold the latest words, through every race of
\* forwarded requests, writebacks and invalidations.
ReadsLatest ==
  /\ \A c \in Caches, a \in Addrs : l1[c][a] = "M" => blk[c][a] = latest[a]
  /\ \A m \in resps : m.data = latest[m.addr]

\* Memory is current whenever the directory says so: the directory gives state
\* I the permission Read_Write, and functional reads go to memory then.
MemoryCurrent ==
  \A a \in Addrs : dir[a] = "I" => mem[a] = latest[a]

\* The assertions of the directory's setState: state M has one owner and state
\* I has none.
OwnerAsserts ==
  \A a \in Addrs : /\ dir[a] = "M" => owner[a] # None
                   /\ dir[a] = "I" => owner[a] = None

ForwardEvents ==
  ({"M", "MI", "MII", "IS", "IM"} \X {"GETX"}) \cup ({"M", "MI", "I", "IS", "IM"} \X {"INV"})
  \cup ({"MI"} \X {"WB_ACK"}) \cup ({"MI", "II"} \X {"WB_NACK"})
Recycling == {"IM", "MI", "ID", "ID_W"}
RequestEvents ==
  ((Recycling \cup {"I", "M", "M_DRD", "M_DWR", "M_DWRI", "M_DRDI"}) \X {"GETX"})
  \cup ((Recycling \cup {"M", "M_DRD", "M_DWR"}) \X {"PUTX"})
  \cup ((Recycling \cup {"M", "I"}) \X {"PUTX_NotOwner"})

\* No controller meets an event its state has no transition for (the generated
\* code panics with "Invalid transition"), in the coherence requests, the
\* forwarded messages, the data and the memory answers.
NoInvalidTransition ==
  /\ \A c \in Caches : fwd[c] # << >> =>
       <<l1[c][Head(fwd[c]).addr], Head(fwd[c]).type>> \in ForwardEvents
  /\ \A m \in reqs :
       <<dir[m.addr], IF m.type = "GETX" THEN "GETX"
                      ELSE IF IsOwner(m) THEN "PUTX" ELSE "PUTX_NotOwner">> \in RequestEvents
  /\ \A m \in resps : l1[m.to][m.addr] \in {"IS", "IM"}
  /\ \A a \in Addrs : memq[a] # None =>
       dir[a] \in IF memq[a].type = "READ" THEN {"IM", "ID"} ELSE {"MI", "M_DRDI", "M_DWRI", "ID_W"}

\* Nor does a DMA request meet the directory in such a state.
NoInvalidDmaTransition ==
  \A a \in Addrs : dmaReq[a] # None => dir[a] \in Recycling \cup {"I", "M"}

\* The data a device reads is the latest when the directory answers.
DmaReadsLatest ==
  [][\A a \in Addrs :
       dmaResp[a] = None /\ dmaResp'[a] # None /\ dma[a] = "BUSY_RD"
         => dmaResp'[a].data = latest[a]]_vars

\* Requests are outstanding in some sequencer.
SomeOutstanding == \E c \in Caches, a \in Addrs : Outstanding(c, a)

\* The protocol never stops with a request outstanding: some controller can
\* make a step (the sequencer would panic with "Possible Deadlock detected").
NoProtocolDeadlock == SomeOutstanding => ENABLED Protocol
=============================================================================
