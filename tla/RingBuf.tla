------------------------------ MODULE RingBuf ------------------------------
(***************************************************************************)
(* ringbuf.go: the lock-free sequence-numbered ring behind Batcher.Push.   *)
(*                                                                         *)
(* Every atomic load, store and compare-and-swap of the code is one step,  *)
(* and so is the plain access to data[idx]; purely local computation is    *)
(* folded into the access before it.  sync/atomic is sequentially          *)
(* consistent, so a behaviour is an interleaving of these steps.  Cursors  *)
(* and sequence cells are uint64 in the code and Nat here: they grow by at *)
(* most one per operation and cannot reach 2^64.                           *)
(*                                                                         *)
(* Producers run Push (and, under DropOldest, evictOldest); Consumers run  *)
(* popMarshal.  The engine has one consumer, its drain goroutine; the ring *)
(* itself is written for several, and pop is popMarshal with a copy in the *)
(* place of the Marshal call.                                              *)
(***************************************************************************)
EXTENDS Integers, Sequences, FiniteSets

CONSTANTS
  Producers,         \* goroutines calling Push
  Consumers,         \* goroutines calling popMarshal
  QueueSize,         \* Config.QueueSize, the number of slots
  Policy,            \* Config.Backpressure
  MaxEvictRetries,   \* maxEvictRetries, 128 in the code
  MaxPush,           \* bound: Push calls per producer
  NoItem             \* the zero value a slot holds before its first write

PowerOfTwo(n) == \E k \in 0..n : n = 2^k

ASSUME RingAssumption ==
  /\ QueueSize \in Nat \ {0}
  /\ Policy \in {"DropNewest", "DropOldest"}
  /\ MaxEvictRetries \in Nat
  /\ MaxPush \in Nat
  /\ Producers \cap Consumers = {}
  /\ NoItem \notin Producers \X (1..MaxPush)

ASSUME QueueSizePowerOfTwo == PowerOfTwo(QueueSize)

Threads == Producers \cup Consumers

\* An item is named after the call that pushed it: <<producer, call number>>.
Items == Producers \X (1..MaxPush)

\* pos & r.mask
Idx(p) == p % QueueSize

Slots == 0..(QueueSize - 1)

\* What a producer stores when it publishes position p, and what a consumer or
\* an evicting producer stores when it recycles the slot for the next lap.
PublishedSeqUnchanged(p) == p        \* variant: publish forgets the + 1
RecycledSeqBack(p) == p - QueueSize   \* variant: the wrong sign
PublishedSeq(p) == p + 1
RecycledSeq(p) == p + QueueSize

VARIABLES
  head, tail,     \* the cursors
  seqs,           \* seqs[i]: sequence cell of slot i
  data,           \* data[i]: payload of slot i
  evicted,        \* ringbuf.evicted
  dropped,        \* Batcher.dropped
  pc,             \* the step each thread is about to take
  tpos,           \* push: the local pos, a copy of tail
  hpos,           \* popMarshal: the local pos; evictOldest: headPos
  item,           \* push: the item parameter
  attempts,       \* push: evictAttempts
  pushed,         \* number of Push calls each producer has made
  log,            \* history: log[k] is the item that claimed position k - 1
  taken,          \* history: taken[k] is the thread that moved head past k - 1
  out             \* history: out[c] is what c marshalled, <<position, value>>

shared  == <<head, tail, seqs, data, evicted, dropped>>
locals  == <<tpos, hpos, item, attempts>>
history == <<pushed, log, taken, out>>
vars    == <<shared, pc, locals, history>>

Goto(t, label) == pc' = [pc EXCEPT ![t] = label]

\* newRingbuf: cell i starts at i, every slot free for its first lap.
Init ==
  /\ head = 0 /\ tail = 0
  /\ seqs = [i \in Slots |-> i]
  /\ data = [i \in Slots |-> NoItem]
  /\ evicted = 0 /\ dropped = 0
  /\ pc = [t \in Threads |-> "idle"]
  /\ tpos = [p \in Producers |-> 0]
  /\ hpos = [t \in Threads |-> 0]
  /\ item = [p \in Producers |-> NoItem]
  /\ attempts = [p \in Producers |-> 0]
  /\ pushed = [p \in Producers |-> 0]
  /\ log = << >> /\ taken = << >>
  /\ out = [c \in Consumers |-> << >>]

-----------------------------------------------------------------------------
(* Batcher.Push and ringbuf.push                                           *)

Push(p) ==
  /\ pc[p] = "idle"
  /\ pushed[p] < MaxPush
  /\ pushed' = [pushed EXCEPT ![p] = @ + 1]
  /\ item' = [item EXCEPT ![p] = <<p, pushed[p] + 1>>]
  /\ attempts' = [attempts EXCEPT ![p] = 0]
  /\ Goto(p, "loadTail")
  /\ UNCHANGED <<shared, tpos, hpos, log, taken, out>>

PushLoadTail(p) ==
  /\ pc[p] = "loadTail"
  /\ tpos' = [tpos EXCEPT ![p] = tail]
  /\ Goto(p, "loadSeq")
  /\ UNCHANGED <<shared, hpos, item, attempts, history>>

\* int64(seqs[idx] - pos)
PushDiff(p) == seqs[Idx(tpos[p])] - tpos[p]

\* Variant: an unrecycled slot is taken for a free one.
PushSeqReadyLax(p) ==
  /\ pc[p] = "loadSeq"
  /\ \/ PushDiff(p) <= 0 /\ Goto(p, "casTail")
     \/ PushDiff(p) > 0 /\ Goto(p, "loadTail")
  /\ UNCHANGED <<shared, locals, history>>

\* The slot is free for this lap, or tail has moved on since it was loaded.
PushSeqReady(p) ==
  /\ pc[p] = "loadSeq"
  /\ \/ PushDiff(p) = 0 /\ Goto(p, "casTail")
     \/ PushDiff(p) > 0 /\ Goto(p, "loadTail")
  /\ UNCHANGED <<shared, locals, history>>

RetriesLeft(p) == attempts[p] + 1 <= MaxEvictRetries

\* Variant: a stale copy of tail (diff > 0) is taken for a full buffer.
PushSeqFullIfStale(p) ==
  /\ pc[p] = "loadSeq"
  /\ PushDiff(p) # 0
  /\ Policy = "DropNewest"
  /\ Goto(p, "drop")
  /\ UNCHANGED <<shared, locals, history>>

\* Variant: the attempts are not counted, so the cap is never reached.
PushSeqFullUncounted(p) ==
  /\ pc[p] = "loadSeq"
  /\ PushDiff(p) < 0
  /\ Goto(p, IF Policy = "DropNewest" THEN "drop" ELSE "evictHead")
  /\ UNCHANGED <<shared, locals, history>>

\* The slot has not been recycled: the buffer is full.
PushSeqFull(p) ==
  /\ pc[p] = "loadSeq"
  /\ PushDiff(p) < 0
  /\ \/ /\ Policy = "DropNewest"
        /\ Goto(p, "drop")
        /\ UNCHANGED attempts
     \/ /\ Policy = "DropOldest"
        /\ attempts' = [attempts EXCEPT ![p] = @ + 1]
        /\ \/ ~RetriesLeft(p) /\ Goto(p, "drop")
           \/ RetriesLeft(p) /\ Goto(p, "evictHead")
  /\ UNCHANGED <<shared, tpos, hpos, item, history>>

PushCas(p) ==
  /\ pc[p] = "casTail"
  /\ \/ /\ tail = tpos[p]
        /\ tail' = tpos[p] + 1
        /\ log' = Append(log, item[p])
        /\ Goto(p, "write")
     \/ /\ tail # tpos[p]
        /\ Goto(p, "loadTail")
        /\ UNCHANGED <<tail, log>>
  /\ UNCHANGED <<head, seqs, data, evicted, dropped, locals, pushed, taken, out>>

PushWrite(p) ==
  /\ pc[p] = "write"
  /\ data' = [data EXCEPT ![Idx(tpos[p])] = item[p]]
  /\ Goto(p, "publish")
  /\ UNCHANGED <<head, tail, seqs, evicted, dropped, locals, history>>

\* Variant: the loop goes on after the publish.
PushPublishNoReturn(p) ==
  /\ pc[p] = "publish"
  /\ seqs' = [seqs EXCEPT ![Idx(tpos[p])] = PublishedSeq(tpos[p])]
  /\ Goto(p, "loadTail")
  /\ UNCHANGED <<head, tail, data, evicted, dropped, locals, history>>

PushPublish(p) ==
  /\ pc[p] = "publish"
  /\ seqs' = [seqs EXCEPT ![Idx(tpos[p])] = PublishedSeq(tpos[p])]
  /\ Goto(p, "idle")
  /\ UNCHANGED <<head, tail, data, evicted, dropped, locals, history>>

\* push returned false; Batcher.Push counts the loss.
PushDrop(p) ==
  /\ pc[p] = "drop"
  /\ dropped' = dropped + 1
  /\ Goto(p, "idle")
  /\ UNCHANGED <<head, tail, seqs, data, evicted, locals, history>>

-----------------------------------------------------------------------------
(* ringbuf.evictOldest, called from push; it returns to the top of push's  *)
(* loop whether or not it evicted anything.                                *)

EvictLoadHead(p) ==
  /\ pc[p] = "evictHead"
  /\ hpos' = [hpos EXCEPT ![p] = head]
  /\ Goto(p, "evictSeq")
  /\ UNCHANGED <<shared, tpos, item, attempts, history>>

\* Only a slot whose producer has published may be evicted.
HeadUnguarded(p) == TRUE              \* variant: no publication guard
HeadPublished(p) == seqs[Idx(hpos[p])] = hpos[p] + 1

EvictLoadSeq(p) ==
  /\ pc[p] = "evictSeq"
  /\ \/ HeadPublished(p) /\ Goto(p, "evictCas")
     \/ ~HeadPublished(p) /\ Goto(p, "loadTail")
  /\ UNCHANGED <<shared, locals, history>>

\* Variant: a lost race on head is counted as an eviction.
EvictCasCountsLoss(p) ==
  /\ pc[p] = "evictCas"
  /\ \/ /\ head = hpos[p]
        /\ head' = hpos[p] + 1
        /\ taken' = Append(taken, p)
        /\ Goto(p, "evictRecycle")
     \/ /\ head # hpos[p]
        /\ Goto(p, "evictCount")
        /\ UNCHANGED <<head, taken>>
  /\ UNCHANGED <<tail, seqs, data, evicted, dropped, locals, pushed, log, out>>

EvictCas(p) ==
  /\ pc[p] = "evictCas"
  /\ \/ /\ head = hpos[p]
        /\ head' = hpos[p] + 1
        /\ taken' = Append(taken, p)
        /\ Goto(p, "evictRecycle")
     \/ /\ head # hpos[p]
        /\ Goto(p, "loadTail")
        /\ UNCHANGED <<head, taken>>
  /\ UNCHANGED <<tail, seqs, data, evicted, dropped, locals, pushed, log, out>>

EvictRecycle(p) ==
  /\ pc[p] = "evictRecycle"
  /\ seqs' = [seqs EXCEPT ![Idx(hpos[p])] = RecycledSeq(hpos[p])]
  /\ Goto(p, "evictCount")
  /\ UNCHANGED <<head, tail, data, evicted, dropped, locals, history>>

EvictCount(p) ==
  /\ pc[p] = "evictCount"
  /\ evicted' = evicted + 1
  /\ Goto(p, "loadTail")
  /\ UNCHANGED <<head, tail, seqs, data, dropped, locals, history>>

-----------------------------------------------------------------------------
(* ringbuf.popMarshal; "popHead" is a further turn of its loop.            *)

PopLoadHead(c) ==
  /\ pc[c] \in {"idle", "popHead"}
  /\ hpos' = [hpos EXCEPT ![c] = head]
  /\ Goto(c, "popSeq")
  /\ UNCHANGED <<shared, tpos, item, attempts, history>>

\* int64(seqs[idx] - (pos + 1)); negative means empty, and popMarshal returns.
PopDiff(c) == seqs[Idx(hpos[c])] - (hpos[c] + 1)

PopLoadSeq(c) ==
  /\ pc[c] = "popSeq"
  /\ \/ PopDiff(c) = 0 /\ Goto(c, "popCas")
     \/ PopDiff(c) < 0 /\ Goto(c, "idle")
     \/ PopDiff(c) > 0 /\ Goto(c, "popHead")
  /\ UNCHANGED <<shared, locals, history>>

\* Variant: the slot is recycled before Marshal has read it.
PopCasRecycles(c) ==
  /\ pc[c] = "popCas"
  /\ head = hpos[c]
  /\ head' = hpos[c] + 1
  /\ seqs' = [seqs EXCEPT ![Idx(hpos[c])] = RecycledSeq(hpos[c])]
  /\ taken' = Append(taken, c)
  /\ Goto(c, "marshal")
  /\ UNCHANGED <<tail, data, evicted, dropped, locals, pushed, log, out>>

\* Variant: a plain store in the place of the compare-and-swap.
PopStoreHead(c) ==
  /\ pc[c] = "popCas"
  /\ head' = hpos[c] + 1
  /\ taken' = Append(taken, c)
  /\ Goto(c, "marshal")
  /\ UNCHANGED <<tail, seqs, data, evicted, dropped, locals, pushed, log, out>>

PopCas(c) ==
  /\ pc[c] = "popCas"
  /\ \/ /\ head = hpos[c]
        /\ head' = hpos[c] + 1
        /\ taken' = Append(taken, c)
        /\ Goto(c, "marshal")
     \/ /\ head # hpos[c]
        /\ Goto(c, "popHead")
        /\ UNCHANGED <<head, taken>>
  /\ UNCHANGED <<tail, seqs, data, evicted, dropped, locals, pushed, log, out>>

PopMarshal(c) ==
  /\ pc[c] = "marshal"
  /\ out' = [out EXCEPT ![c] = Append(@, <<hpos[c], data[Idx(hpos[c])]>>)]
  /\ Goto(c, "popRecycle")
  /\ UNCHANGED <<shared, locals, pushed, log, taken>>

PopRecycle(c) ==
  /\ pc[c] = "popRecycle"
  /\ seqs' = [seqs EXCEPT ![Idx(hpos[c])] = RecycledSeq(hpos[c])]
  /\ Goto(c, "idle")
  /\ UNCHANGED <<head, tail, data, evicted, dropped, locals, history>>

-----------------------------------------------------------------------------
PushStep(p) ==
  \/ PushLoadTail(p) \/ PushSeqReady(p) \/ PushSeqFull(p) \/ PushCas(p)
  \/ PushWrite(p) \/ PushPublish(p) \/ PushDrop(p)
  \/ EvictLoadHead(p) \/ EvictLoadSeq(p) \/ EvictCas(p)
  \/ EvictRecycle(p) \/ EvictCount(p)

PopStep(c) ==
  PopLoadHead(c) \/ PopLoadSeq(c) \/ PopCas(c) \/ PopMarshal(c) \/ PopRecycle(c)

Next ==
  \/ \E p \in Producers : Push(p) \/ PushStep(p)
  \/ \E c \in Consumers : PopStep(c)

Spec == Init /\ [][Next]_vars

-----------------------------------------------------------------------------
(* Types                                                                   *)

PushLabels ==
  {"idle", "loadTail", "loadSeq", "casTail", "write", "publish", "drop",
   "evictHead", "evictSeq", "evictCas", "evictRecycle", "evictCount"}
PopLabels == {"idle", "popHead", "popSeq", "popCas", "marshal", "popRecycle"}

PcOK ==
  /\ pc \in [Threads -> PushLabels \cup PopLabels]
  /\ \A p \in Producers : pc[p] \in PushLabels
  /\ \A c \in Consumers : pc[c] \in PopLabels

\* A producer inside Push carries an item.
ItemOK == \A p \in Producers : pc[p] # "idle" => item[p] \in Items

\* Type invariant.
TypeOK ==
  /\ head \in Nat /\ tail \in Nat
  /\ seqs \in [Slots -> Nat]
  /\ data \in [Slots -> Items \cup {NoItem}]
  /\ evicted \in Nat /\ dropped \in Nat
  /\ PcOK
  /\ tpos \in [Producers -> Nat]
  /\ hpos \in [Threads -> Nat]
  /\ item \in [Producers -> Items \cup {NoItem}]
  /\ ItemOK
  /\ attempts \in [Producers -> Nat]
  /\ pushed \in [Producers -> 0..MaxPush]
  /\ log \in Seq(Items)
  /\ taken \in Seq(Threads)
  /\ out \in [Consumers -> Seq(Nat \X (Items \cup {NoItem}))]

-----------------------------------------------------------------------------
(* The inductive invariant.  A producer that won the CAS on tail owns its  *)
(* position until it publishes; a thread that won the CAS on head owns its *)
(* position until it recycles the slot.                                    *)

Claims(p) == pc[p] \in {"write", "publish"}
Holds(t) == pc[t] \in {"marshal", "popRecycle", "evictRecycle"}

CursorsOK ==
  /\ head <= tail /\ tail <= head + QueueSize
  /\ Len(log) = tail /\ Len(taken) = head
  /\ \A p \in Producers : tpos[p] <= tail
  /\ \A t \in Threads : hpos[t] <= head

\* The cell of a queued position is published or owned by its producer; the cell
\* of a position still to be claimed is free, or owned by the holder of the
\* position one lap earlier.  No cell is behind a position already claimed.
CellsOK ==
  /\ \A q \in head..(tail - 1) :
        \/ seqs[Idx(q)] = q + 1
        \/ seqs[Idx(q)] = q /\ \E p \in Producers : Claims(p) /\ tpos[p] = q
  /\ \A q \in tail..(head + QueueSize - 1) :
        \/ seqs[Idx(q)] = q
        \/ /\ seqs[Idx(q)] = q - QueueSize + 1
           /\ \E t \in Threads : Holds(t) /\ hpos[t] = q - QueueSize
  /\ \A q \in 0..(tail - 1) : seqs[Idx(q)] >= q

\* Owned positions are in the owner's window, and no two threads own the same.
ClaimsOK ==
  /\ \A p \in Producers : Claims(p) =>
        /\ tpos[p] \in head..(tail - 1)
        /\ seqs[Idx(tpos[p])] = tpos[p]
        /\ log[tpos[p] + 1] = item[p]
        /\ pc[p] = "publish" => data[Idx(tpos[p])] = item[p]
  /\ \A p, q \in Producers : Claims(p) /\ Claims(q) /\ tpos[p] = tpos[q] => p = q

HoldsOK ==
  /\ \A t \in Threads : Holds(t) =>
        /\ hpos[t] \in (tail - QueueSize)..(head - 1)
        /\ seqs[Idx(hpos[t])] = hpos[t] + 1
        /\ data[Idx(hpos[t])] = log[hpos[t] + 1]
        /\ taken[hpos[t] + 1] = t
  /\ \A t, u \in Threads : Holds(t) /\ Holds(u) /\ hpos[t] = hpos[u] => t = u

\* What a thread saw before its CAS still holds if the CAS is going to succeed.
CasOK ==
  /\ \A p \in Producers :
        pc[p] = "casTail" /\ tpos[p] = tail => seqs[Idx(tail)] = tail
  /\ \A t \in Threads :
        pc[t] \in {"popCas", "evictCas"} /\ hpos[t] = head => seqs[Idx(head)] = head + 1

-----------------------------------------------------------------------------
(* Safety                                                                  *)

\* A queued item stays in its slot, unchanged, until it is taken: what the store
\* order in push (data, then sequence) and the recycling in popMarshal and
\* evictOldest are for, and what DropNewest documents ("already-queued items
\* are preserved unchanged").
QueuedPreserved ==
  \A q \in head..(tail - 1) : seqs[Idx(q)] = q + 1 => data[Idx(q)] = log[q + 1]

\* data[idx] is a plain Go variable: while a producer writes it, no other
\* producer writes it and no consumer marshals from it.
NoDataRace ==
  \A p \in Producers, t \in Threads :
    /\ pc[p] = "write" /\ p # t
    /\ \/ pc[t] = "write" /\ Idx(tpos[t]) = Idx(tpos[p])
       \/ pc[t] = "marshal" /\ Idx(hpos[t]) = Idx(tpos[p])
    => FALSE

\* popMarshal delivers, for each position it took and no other, the item that
\* claimed the position, and a consumer's positions only increase: nothing is
\* delivered twice, torn, or out of order, and an evicted item is not delivered.
DeliveredIntact ==
  \A c \in Consumers : \A k \in 1..Len(out[c]) :
    /\ out[c][k][1] < head
    /\ taken[out[c][k][1] + 1] = c
    /\ out[c][k][2] = log[out[c][k][1] + 1]
    /\ pc[c] = "marshal" => out[c][k][1] < hpos[c]
    /\ \A j \in 1..(k - 1) : out[c][j][1] < out[c][k][1]

\* The items of one producer enter the queue in the order of its Push calls, and
\* each call enters at most one.
ProducerOrder ==
  \A i, j \in 1..Len(log) :
    i < j /\ log[i][1] = log[j][1] => log[i][2] < log[j][2]

\* The bookkeeping of DroppedCount and EvictedCount is exact: every Push call has
\* been accepted, counted as dropped, or is still undecided; every position a
\* producer took from the queue has been counted as evicted or is about to be.
CountersExact ==
  /\ Cardinality({x \in Items : x[2] <= pushed[x[1]]}) =
       Len(log) + dropped
       + Cardinality({p \in Producers : pc[p] \notin {"idle", "write", "publish"}})
  /\ Cardinality({k \in 1..Len(taken) : taken[k] \in Producers}) =
       evicted
       + Cardinality({p \in Producers : pc[p] \in {"evictRecycle", "evictCount"}})

\* The inductive invariant of push, evictOldest and popMarshal: where the cursors
\* may be, what every slot's sequence number says about its position, which
\* positions claiming producers and holding threads own, and what a thread about to
\* compare-and-swap may rely on; with these, queued and delivered items are intact.
IInv ==
  /\ TypeOK /\ CursorsOK /\ CellsOK /\ ClaimsOK /\ HoldsOK /\ CasOK
  /\ QueuedPreserved /\ DeliveredIntact

\* push gives up or starts an eviction (diff < 0) only when no slot is free for it:
\* its copy of tail is current, and the slot it needs is queued, so that the
\* buffer is full, or is held by a thread that has not recycled it yet.
FullIsFull ==
  [][\A p \in Producers :
       pc[p] = "loadSeq" /\ pc'[p] \in {"drop", "evictHead"} =>
         /\ tpos[p] = tail
         /\ \/ tail = head + QueueSize
            \/ \E t \in Threads : Holds(t) /\ hpos[t] = tail - QueueSize]_vars

=============================================================================
