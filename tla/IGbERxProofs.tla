---------------------------- MODULE IGbERxProofs -----------------------------
(***************************************************************************)
(* Proofs about the receive path: IInv is an inductive invariant for every *)
(* ring length, cache size, FIFO size, threshold and burst size, no        *)
(* wake-up is lost, and the receive path implements FrameChannel.          *)
(***************************************************************************)
EXTENDS IGbERx, TLAPS, SequenceTheorems

USE RingAssumption, CacheAssumption, FifoAssumption, ThreshAssumption,
    DriverAssumption, BoundAssumption DEF Slot

-----------------------------------------------------------------------------
(* The descriptor cache                                                    *)

\* What the methods of the cache keep of its bookkeeping: the cache part of
\* TypeOK and AssertsHold.
CacheOK(c) ==
    /\ c \in CacheType
    /\ c.wbOut <= Len(c.usedCache)
    /\ c.wbOut = 0 <=> c.wbEv = "idle"
    /\ c.curFetching = 0 <=> c.fetchEv = "idle"
    /\ c.cachePnt + c.curFetching <= RingLen
    /\ c.head + c.wbOut <= RingLen
    /\ Len(c.usedCache) + Len(c.unusedCache) + c.curFetching <= CacheSize
    /\ c.curFetching <= Dist(c.cachePnt, c.tail)

\* d holds the descriptors of c, and as many of them are in host memory.
SameDescs(c, d) ==
    /\ d.usedCache = c.usedCache /\ d.unusedCache = c.unusedCache
    /\ d.cachePnt = c.cachePnt /\ d.head = c.head /\ d.tail = c.tail
    /\ d.wbEv = "comp" <=> c.wbEv = "comp"
    /\ c.wbEv = "comp" => d.wbOut = c.wbOut

\* Clearing the bits of an alignment mask (writeback) never raises a count.
LEMMA AndNotBounds == ASSUME NEW n \in Nat, NEW k \in Mask
                      PROVE  AndNot(n, k) \in 0 .. n
<1>1. n % 2 \in 0 .. n /\ n % 4 \in 0 .. n /\ (n % 4 >= 2 => n >= 2)
  OBVIOUS
<1> QED
  BY <1>1 DEF AndNot, Mask, AllOnes, BlockMask

\* writeback() keeps the cache well formed and touches no descriptor.
LEMMA WritebackOK == ASSUME NEW c, CacheOK(c), NEW k \in Mask
                     PROVE  CacheOK(writeback(c, k)) /\ SameDescs(c, writeback(c, k))
<1> DEFINE n == Len(c.usedCache)
           toEnd == n + c.head >= RingLen
           w == IF toEnd THEN RingLen - c.head ELSE AndNot(n, k)
           c1 == [c EXCEPT !.moreToWb = toEnd, !.wbAlignment = k]
<1>1. n \in Nat /\ c.head \in Nat /\ c.head < RingLen /\ c.wbOut \in Nat
  BY DEF CacheOK, CacheType
<1>2. AndNot(n, k) \in 0 .. n
  BY <1>1, AndNotBounds
<1>3. w \in Nat /\ w <= n /\ c.head + w <= RingLen
  BY <1>1, <1>2
<1>t. toEnd \in BOOLEAN
  OBVIOUS
<1>4. CASE c.wbOut # 0
  <2>1. CASE k < c.wbAlignment
    <3>1. writeback(c, k) = [c EXCEPT !.moreToWb = TRUE, !.wbAlignment = k]
      BY <1>4, <2>1 DEF writeback
    <3> QED
      BY <3>1, Zenon DEF CacheOK, SameDescs, CacheType
  <2>2. CASE ~ (k < c.wbAlignment)
    <3>1. writeback(c, k) = c
      BY <1>4, <2>2 DEF writeback
    <3> QED
      BY <3>1, Zenon DEF CacheOK, SameDescs
  <2> QED
    BY <2>1, <2>2
<1>5. CASE c.wbOut = 0 /\ w <= 0
  <2>1. writeback(c, k) = c1
    BY <1>5 DEF writeback, descUsed
  <2> HIDE DEF toEnd
  <2> QED
    BY <2>1, <1>t, Zenon DEF CacheOK, SameDescs, CacheType
<1>6. CASE c.wbOut = 0 /\ w > 0
  <2>1. writeback(c, k) = [c1 EXCEPT !.wbOut = w, !.wbEv = "delay"]
    BY <1>6, <1>3 DEF writeback, descUsed
  <2> HIDE DEF w, toEnd
  <2> DEFINE d == writeback(c, k)
  <2>2. /\ d \in CacheType
        /\ d.wbOut = w /\ d.wbEv = "delay"
        /\ d.usedCache = c.usedCache /\ d.unusedCache = c.unusedCache
        /\ d.cachePnt = c.cachePnt /\ d.head = c.head /\ d.tail = c.tail
        /\ d.curFetching = c.curFetching /\ d.fetchEv = c.fetchEv
    BY <2>1, <1>3, <1>t, Zenon DEF CacheOK, CacheType, Stage
  <2> HIDE DEF d
  <2>3. c.wbEv = "idle"
    BY <1>6 DEF CacheOK
  <2>4. SameDescs(c, d)
    BY <2>2, <2>3 DEF SameDescs
  <2>5. d.wbOut <= Len(d.usedCache)
    BY <2>2, <1>3
  <2>6. d.head + d.wbOut <= RingLen
    BY <2>2, <1>3
  <2>7. d.wbOut = 0 <=> d.wbEv = "idle"
    BY <2>2, <1>6
  <2>8. CacheOK(d)
    BY <2>2, <2>5, <2>6, <2>7, Zenon DEF CacheOK
  <2> QED
    BY <2>4, <2>8 DEF d
<1> QED
  BY <1>3, <1>4, <1>5, <1>6

\* The size of a fetch, for a tail t, a cache pointer p and r free cache entries.
LEMMA FetchBounds ==
    ASSUME NEW t \in 0 .. RingLen - 1, NEW p \in 0 .. RingLen - 1, NEW r \in Nat
    PROVE  LET f == MinOf(IF t >= p THEN t - p ELSE RingLen - p, r)
           IN  f \in Nat /\ f <= r /\ p + f <= RingLen /\ f <= Dist(p, t)
  BY DEF MinOf, Dist

\* free_cache (fetchDescriptors) is a natural number when the cache is not overfull.
LEMMA FreeCache ==
    ASSUME NEW a \in Nat, NEW b \in Nat, NEW k \in Nat, a + b + k <= CacheSize
    PROVE  /\ CacheSize - a - b \in Nat
           /\ \A f \in Nat : f <= CacheSize - a - b => a + b + f <= CacheSize
  OBVIOUS

\* fetchDescriptors() keeps the cache well formed and touches no descriptor.
LEMMA FetchOK == ASSUME NEW c, CacheOK(c)
                 PROVE  CacheOK(fetchDescriptors(c)) /\ SameDescs(c, fetchDescriptors(c))
<1> DEFINE free == CacheSize - Len(c.usedCache) - Len(c.unusedCache)
           f == MinOf(IF c.tail >= c.cachePnt THEN c.tail - c.cachePnt
                                              ELSE RingLen - c.cachePnt, free)
<1>1. /\ c.tail \in 0 .. RingLen - 1 /\ c.cachePnt \in 0 .. RingLen - 1
      /\ c.curFetching \in Nat
      /\ Len(c.usedCache) \in Nat /\ Len(c.unusedCache) \in Nat
      /\ Len(c.usedCache) + Len(c.unusedCache) + c.curFetching <= CacheSize
  BY DEF CacheOK, CacheType
<1>2. /\ free \in Nat
      /\ \A g \in Nat : g <= free => Len(c.usedCache) + Len(c.unusedCache) + g <= CacheSize
  BY <1>1, FreeCache, Zenon
<1>3. /\ f \in Nat /\ f <= free
      /\ c.cachePnt + f <= RingLen /\ f <= Dist(c.cachePnt, c.tail)
  <2> HIDE DEF free
  <2> QED
    BY <1>1, <1>2, FetchBounds, Zenon
<1>4. Len(c.usedCache) + Len(c.unusedCache) + f <= CacheSize
  <2> HIDE DEF free, f
  <2> QED
    BY <1>2, <1>3, Zenon
<1>5. CASE c.curFetching # 0 \/ f = 0
  <2>1. fetchDescriptors(c) = c
    BY <1>5 DEF fetchDescriptors, descUsed, descUnused
  <2> QED
    BY <2>1, Zenon DEF CacheOK, SameDescs
<1>6. CASE c.curFetching = 0 /\ f # 0
  <2>1. fetchDescriptors(c) = [c EXCEPT !.curFetching = f, !.fetchEv = "delay"]
    BY <1>6 DEF fetchDescriptors, descUsed, descUnused
  <2> HIDE DEF f
  <2> QED
    BY <2>1, <1>3, <1>4, <1>6, Zenon DEF CacheOK, SameDescs, CacheType, Stage
<1> QED
  BY <1>5, <1>6, Zenon

\* A conditional writeback keeps the cache well formed.
LEMMA WbIfOK == ASSUME NEW c, CacheOK(c), NEW k \in Mask, NEW b
                PROVE  CacheOK(wbIf(b, c, k)) /\ SameDescs(c, wbIf(b, c, k))
<1>1. CASE b
  BY <1>1, WritebackOK DEF wbIf
<1>2. CASE ~ b
  BY <1>2 DEF wbIf, SameDescs
<1> QED
  BY <1>1, <1>2

\* A conditional fetch keeps the cache well formed.
LEMMA FetchIfOK == ASSUME NEW c, CacheOK(c), NEW b
                   PROVE  CacheOK(fetchIf(b, c)) /\ SameDescs(c, fetchIf(b, c))
<1>1. CASE b
  BY <1>1, FetchOK DEF fetchIf
<1>2. CASE ~ b
  BY <1>2 DEF fetchIf, SameDescs
<1> QED
  BY <1>1, <1>2

\* Leaving the queued descriptors alone is transitive.
LEMMA SameDescsTrans == ASSUME NEW c, NEW d, NEW e, SameDescs(c, d), SameDescs(d, e)
                        PROVE  SameDescs(c, e)
  BY DEF SameDescs

\* The writebacks and fetches after a frame keep the cache well formed.
LEMMA AfterPacketOK == ASSUME NEW c, CacheOK(c)
                       PROVE  CacheOK(afterPacket(c)) /\ SameDescs(c, afterPacket(c))
<1> DEFINE c1 == wbIf(belowRdmts(c), c, 0)
           c2 == wbIf(descLeft(c) < LowWater, c1, 0)
           c3 == wbIf(rxFifo = <<>>, c2, 0)
           c4 == wbIf(descLeft(c) = 0, c3, 0)
           c5 == wbIf(Wthresh >= descUsed(c4), c4, wthreshMask)
           c6 == fetchIf(/\ descUnused(c5) < Pthresh
                         /\ descLeft(c5) - descUnused(c5) > Hthresh, c5)
           c7 == fetchIf(descUnused(c6) = 0, c6)
<1>0. 0 \in Mask /\ wthreshMask \in Mask
  BY DEF wthreshMask, Mask, BlockMask, AllOnes
<1>1. CacheOK(c1) /\ SameDescs(c, c1)
  BY <1>0, WbIfOK
<1>2. CacheOK(c2) /\ SameDescs(c1, c2)
  <2> HIDE DEF c1
  <2> QED  BY <1>0, <1>1, WbIfOK
<1>3. CacheOK(c3) /\ SameDescs(c2, c3)
  <2> HIDE DEF c2
  <2> QED  BY <1>0, <1>2, WbIfOK
<1>4. CacheOK(c4) /\ SameDescs(c3, c4)
  <2> HIDE DEF c3
  <2> QED  BY <1>0, <1>3, WbIfOK
<1>5. CacheOK(c5) /\ SameDescs(c4, c5)
  <2> HIDE DEF c4
  <2> QED  BY <1>0, <1>4, WbIfOK
<1>6. CacheOK(c6) /\ SameDescs(c5, c6)
  <2> HIDE DEF c5
  <2> QED  BY <1>5, FetchIfOK, Zenon
<1>7. CacheOK(c7) /\ SameDescs(c6, c7)
  <2> HIDE DEF c6
  <2> QED  BY <1>6, FetchIfOK
<1>8. afterPacket(c) = c7
  BY DEF afterPacket
<1> HIDE DEF c1, c2, c3, c4, c5, c6, c7
<1> QED
  BY <1>1, <1>2, <1>3, <1>4, <1>5, <1>6, <1>7, <1>8, SameDescsTrans

-----------------------------------------------------------------------------
(* Ring arithmetic                                                         *)

\* Advancing a ring index stays in the ring.
LEMMA AdvanceType == ASSUME NEW i \in Slot, NEW n \in 0 .. RingLen
                     PROVE  Advance(i, n) \in Slot
  BY DEF Advance

\* The distance between two ring indices is less than the ring's length.
LEMMA DistType == ASSUME NEW i \in Slot, NEW j \in Slot
                  PROVE  Dist(i, j) \in Slot /\ Dist(i, j) \in Nat /\ Dist(i, j) < RingLen
  BY DEF Dist

\* Advancing by the distance to an index reaches that index.
LEMMA AdvanceDist == ASSUME NEW i \in Slot, NEW j \in Slot
                     PROVE  Advance(i, Dist(i, j)) = j
  BY DEF Advance, Dist

\* The distance to an index n steps ahead is n.
LEMMA DistAdvance == ASSUME NEW i \in Slot, NEW n \in Slot
                     PROVE  Dist(i, Advance(i, n)) = n
  BY DEF Advance, Dist

\* The steps from i to the slot n after j, when that does not come round to i.
LEMMA DistPlus == ASSUME NEW i \in Slot, NEW j \in Slot, NEW n \in Nat,
                         Dist(i, j) + n < RingLen
                  PROVE  Dist(i, Advance(j, n)) = Dist(i, j) + n
  BY DEF Advance, Dist

\* Advancing twice is advancing by the sum.
LEMMA AdvancePlus == ASSUME NEW i \in Slot, NEW a \in Nat, NEW b \in Nat,
                            a + b <= RingLen
                     PROVE  Advance(Advance(i, a), b) = Advance(i, a + b)
  BY DEF Advance

\* Moving the start n steps on, not past the end, shortens the distance by n.
LEMMA DistBack == ASSUME NEW i \in Slot, NEW j \in Slot, NEW n \in Nat, n <= Dist(i, j)
                  PROVE  Dist(Advance(i, n), j) = Dist(i, j) - n
  BY DEF Advance, Dist

\* The slots less than w after hd are those hd .. hd + w - 1, seen from a.
LEMMA WbWindow == ASSUME NEW a \in Slot, NEW hd \in Slot, NEW j \in Slot, NEW w \in Nat,
                         hd + w <= RingLen, Dist(a, hd) + w < RingLen
                  PROVE  Dist(a, j) < Dist(a, hd) + w
                           <=> (Dist(a, j) < Dist(a, hd) \/ (hd <= j /\ j < hd + w))
  BY DEF Dist

\* Moving the start one step on shortens every distance but that of the start.
LEMMA DistStep == ASSUME NEW i \in Slot, NEW j \in Slot
                  PROVE  Dist(Advance(i, 1), j) = IF j = i THEN RingLen - 1
                                                           ELSE Dist(i, j) - 1
  BY DEF Advance, Dist

-----------------------------------------------------------------------------
(* Consequences of the invariant                                           *)

\* The ranges of the quantities DescriptorOwnership adds up.
LEMMA Basics ==
    ASSUME IInv
    PROVE  /\ CacheOK(cache)
           /\ vis \in Nat /\ vis <= Len(cache.usedCache)
           /\ visHead \in Slot /\ ready \in Slot /\ filled \in Nat
           /\ filled = Len(cache.usedCache) - vis
           /\ cache.cachePnt \in Slot /\ cache.tail \in Slot /\ cache.head \in Slot
           /\ Len(cache.usedCache) \in Nat /\ Len(cache.unusedCache) \in Nat
           /\ drv.rx_id \in Slot /\ drv.nb_hold \in Nat /\ drv.nb_rx \in Nat
           /\ Dist(cache.cachePnt, cache.tail) \in Slot
           /\ cache.wbOut \in Nat /\ cache.curFetching \in Nat
           /\ rxFifo \in Seq(Nat) /\ Len(rxFifo) \in Nat /\ Len(rxFifo) <= FifoSize
           /\ accepted \in Nat /\ delivered \in Seq(Nat) /\ Len(delivered) \in Nat
           /\ ready \in Nat
<1>0. /\ rxFifo \in Seq(Nat) /\ Len(rxFifo) \in Nat /\ Len(rxFifo) <= FifoSize
      /\ accepted \in Nat /\ delivered \in Seq(Nat) /\ Len(delivered) \in Nat
  BY DEF IInv, TypeOK
<1>1. CacheOK(cache)
  BY Zenon DEF IInv, TypeOK, AssertsHold, DescriptorOwnership, CacheOK, descUsed, descUnused
<1>2. /\ cache.cachePnt \in Slot /\ cache.tail \in Slot /\ cache.head \in Slot
      /\ Len(cache.usedCache) \in Nat /\ Len(cache.unusedCache) \in Nat
      /\ cache.wbOut \in Nat /\ cache.curFetching \in Nat
      /\ cache.wbOut <= Len(cache.usedCache) /\ cache.head + cache.wbOut <= RingLen
  BY <1>1 DEF CacheOK, CacheType
<1>3. drv.rx_id \in Slot /\ drv.nb_hold \in Nat /\ drv.nb_rx \in Nat
  BY DEF IInv, TypeOK
<1>4. vis \in 0 .. RingLen /\ vis <= Len(cache.usedCache)
  BY <1>2 DEF vis
<1>5. visHead \in Slot
  BY <1>2, <1>4, AdvanceType, Zenon DEF visHead
<1>6. ready \in Slot /\ Dist(cache.cachePnt, cache.tail) \in Slot
  BY <1>2, <1>3, <1>5, DistType, Zenon DEF ready
<1>7. filled = Len(cache.usedCache) - vis /\ filled \in Nat
  BY <1>2, <1>4 DEF filled, descUsed
<1>8. ready \in Nat
  BY <1>6
<1> QED
  BY <1>0, <1>1, <1>2, <1>3, <1>4, <1>5, <1>6, <1>7, <1>8

\* A step that keeps the descriptors, the ring and the driver's position keeps
\* who owns which slot.
LEMMA QuietStep ==
    ASSUME IInv, CacheOK(cache'), SameDescs(cache, cache'), UNCHANGED ring,
           drv'.rx_id = drv.rx_id, drv'.nb_hold = drv.nb_hold
    PROVE  /\ vis' = vis /\ visHead' = visHead /\ ready' = ready /\ filled' = filled
           /\ DescriptorOwnership' /\ DDExact'
<1>1. vis' = vis
  BY DEF vis, SameDescs
<1>2. visHead' = visHead
  BY <1>1 DEF visHead, SameDescs
<1>3. ready' = ready
  BY <1>2 DEF ready
<1>4. filled' = filled
  BY <1>1 DEF filled, descUsed, SameDescs
<1>5. DescriptorOwnership'
  BY <1>1, <1>2, <1>3, <1>4 DEF IInv, DescriptorOwnership, SameDescs, CacheOK,
                                descUsed, descUnused
<1>6. DDExact'
  BY <1>3 DEF IInv, DDExact, SameDescs, descUsed, descUnused
<1> QED
  BY <1>1, <1>2, <1>3, <1>4, <1>5, <1>6

-----------------------------------------------------------------------------
(* Clock and drain bookkeeping                                             *)

SmType == [rxTick : BOOLEAN, tickEvent : BOOLEAN, drain : DrainState]

\* restartClock and enableSm keep the state machine's type and its drain state.
LEMMA ClockOK == ASSUME NEW s \in SmType
                 PROVE  /\ restartClock(s) \in SmType /\ restartClock(s).drain = s.drain
                        /\ enableSm(s) \in SmType /\ enableSm(s).drain = s.drain
<1>1. \A r \in SmType : restartClock(r) \in SmType /\ restartClock(r).drain = r.drain
  BY Zenon DEF restartClock, SmType
<1>2. [s EXCEPT !.rxTick = TRUE] \in SmType /\ [s EXCEPT !.rxTick = TRUE].drain = s.drain
  BY Zenon DEF SmType
<1> QED
  BY <1>1, <1>2, Zenon DEF enableSm

\* A card goes on as it was, or from Draining to Drained.
DrainStep(old, new) == new = old \/ (old = "Draining" /\ new = "Drained")

\* checkDrain keeps the type, and moves the card at most from Draining to Drained.
LEMMA CheckDrainOK == ASSUME NEW s \in SmType, NEW c, NEW p
                      PROVE  /\ checkDrain(s, c, p) \in SmType
                             /\ DrainStep(s.drain, checkDrain(s, c, p).drain)
<1>1. CASE s.drain # "Draining"
  BY <1>1 DEF checkDrain, DrainStep
<1>2. CASE s.drain = "Draining" /\ hasOutstandingEvents(c, p)
  BY <1>2, Zenon DEF checkDrain, DrainStep, SmType, DrainState
<1>3. CASE s.drain = "Draining" /\ ~ hasOutstandingEvents(c, p)
  BY <1>3, Zenon DEF checkDrain, DrainStep, SmType, DrainState
<1> QED
  BY <1>1, <1>2, <1>3

\* The number of objects the manager waits for.
Waiting(card, dma) == (IF card = "Draining" THEN 1 ELSE 0) + (IF dma = "Draining" THEN 1 ELSE 0)

MgrType == [state : DrainState, count : Nat]

\* signalDrainDone keeps the manager's count equal to the number of draining objects.
LEMMA SignalOK ==
    ASSUME NEW m \in MgrType, NEW old, NEW new, NEW other, DrainStep(old, new),
           m.count = Waiting(old, other)
    PROVE  /\ signalDrainDone(m, old, new) \in MgrType
           /\ signalDrainDone(m, old, new).count = Waiting(new, other)
           /\ signalDrainDone(m, old, new).state = m.state
  BY DEF signalDrainDone, Waiting, MgrType, DrainStep

-----------------------------------------------------------------------------
(* Actions that keep every descriptor where it is                          *)

\* What is left to show of IInv after a quiet step.
LEMMA QuietIInv ==
    ASSUME IInv, CacheOK(cache'), SameDescs(cache, cache'), UNCHANGED ring,
           drv'.rx_id = drv.rx_id, drv'.nb_hold = drv.nb_hold, TypeOK', pktEv' # "idle" => descUnused(cache') > 0,
           mgr'.count = Waiting(sm'.drain, port'), FrameOrder', DmaFlags'
    PROVE  IInv'
<1>1. DescriptorOwnership' /\ DDExact'
  BY QuietStep
<1>2. AssertsHold'
  BY Zenon DEF AssertsHold, CacheOK, Waiting, descUsed, descUnused
<1> QED
  BY <1>1, <1>2 DEF IInv

\* A quiet step that moves no frame keeps the order of the frames.
LEMMA QuietFrames ==
    ASSUME IInv, CacheOK(cache'), SameDescs(cache, cache'),
           UNCHANGED <<ring, buf, delivered, rxFifo, accepted, pktEv>>,
           drv'.rx_id = drv.rx_id, drv'.nb_hold = drv.nb_hold,
           pktEv # "idle" => pktPtr' = pktPtr
    PROVE  FrameOrder' /\ (pktEv' # "idle" => descUnused(cache') > 0)
<1>1. vis' = vis /\ visHead' = visHead /\ ready' = ready /\ filled' = filled
  BY QuietStep
<1>2. cache'.unusedCache = cache.unusedCache
  BY DEF SameDescs
<1>3. FrameOrder'
  BY <1>1, <1>2 DEF IInv, FrameOrder
<1> QED
  BY <1>2, <1>3 DEF IInv, AssertsHold, descUnused

\* A frame from the link (ethRxPkt) preserves the invariant.
LEMMA RxPktStep == IInv /\ ethRxPkt => IInv'
<1> SUFFICES ASSUME IInv, ethRxPkt PROVE IInv'
  OBVIOUS
<1>0. /\ UNCHANGED <<cache, pktPtr, pktEv, pktDone, rxDmaPacket, ring, buf, drv,
                     delivered, port, mgr>>
      /\ sm' = restartClock([sm EXCEPT !.rxTick = sm.drain # "Draining"])
      /\ \/ rxFifo' = rxFifo /\ accepted' = accepted
         \/ /\ Len(rxFifo) < FifoSize
            /\ rxFifo' = Append(rxFifo, accepted + 1) /\ accepted' = accepted + 1
  BY DEF ethRxPkt, host, drainVars
<1>1. CacheOK(cache') /\ SameDescs(cache, cache')
  BY <1>0, Basics DEF SameDescs
<1>2. vis' = vis /\ visHead' = visHead /\ ready' = ready /\ filled' = filled
  BY <1>0, <1>1, QuietStep
<1>3. sm' \in SmType /\ sm'.drain = sm.drain
  <2>1. [sm EXCEPT !.rxTick = sm.drain # "Draining"] \in SmType
    BY Zenon DEF IInv, TypeOK, SmType
  <2>2. [sm EXCEPT !.rxTick = sm.drain # "Draining"].drain = sm.drain
    BY DEF IInv, TypeOK
  <2> QED
    BY <1>0, <2>1, <2>2, ClockOK, Zenon
<1>4. /\ rxFifo \in Seq(Nat) /\ Len(rxFifo) \in Nat /\ Len(rxFifo) <= FifoSize
      /\ accepted \in Nat /\ Len(delivered) \in Nat /\ ready \in Nat /\ filled \in Nat
  BY Basics
<1>5. ASSUME Len(rxFifo) < FifoSize,
             rxFifo' = Append(rxFifo, accepted + 1), accepted' = accepted + 1
      PROVE  /\ rxFifo' \in Seq(Nat) /\ Len(rxFifo') <= FifoSize /\ accepted' \in Nat
             /\ Len(rxFifo') = Len(rxFifo) + 1
             /\ \A i \in 1 .. Len(rxFifo) : rxFifo'[i] = rxFifo[i]
             /\ rxFifo'[Len(rxFifo) + 1] = accepted + 1
  BY <1>4, <1>5
<1>6. TypeOK'
  <2>1. rxFifo' \in Seq(Nat) /\ Len(rxFifo') <= FifoSize /\ accepted' \in Nat
    BY <1>0, <1>4, <1>5
  <2> QED
    BY <1>0, <1>3, <2>1, Zenon DEF IInv, TypeOK, SmType
<1>7. mgr'.count = Waiting(sm'.drain, port') /\ (pktEv' # "idle" => descUnused(cache') > 0)
  BY <1>0, <1>3 DEF IInv, AssertsHold, Waiting
<1>8. FrameOrder'
  <2>1. CASE rxFifo' = rxFifo /\ accepted' = accepted
    BY <2>1, <1>0, <1>2 DEF IInv, FrameOrder
  <2>2. CASE /\ Len(rxFifo) < FifoSize
             /\ rxFifo' = Append(rxFifo, accepted + 1) /\ accepted' = accepted + 1
    <3> DEFINE base == Len(delivered) + (ready + filled) + (IF pktEv = "idle" THEN 0 ELSE 1)
    <3>1. /\ \A i \in 1 .. Len(rxFifo) : rxFifo[i] = base + i
          /\ accepted = base + Len(rxFifo)
      BY DEF IInv, FrameOrder
    <3>2. base' = base /\ base \in Nat
      <4>1. Len(delivered') = Len(delivered) /\ ready' = ready /\ filled' = filled /\ pktEv' = pktEv
        BY Zenon, <1>0, <1>2
      <4>2. base' = base
        BY Zenon, <4>1
      <4>3. base \in Nat
        BY <1>4
      <4> QED BY Zenon, <4>2, <4>3
    <3>3. /\ \A i \in 1 .. Len(rxFifo') : rxFifo'[i] = base + i
          /\ accepted' = base + Len(rxFifo')
      <4> HIDE DEF base
      <4> QED
        BY <2>2, <3>1, <3>2, <1>4, <1>5
    <3> QED
      BY <3>2, <3>3, <1>0, <1>2 DEF IInv, FrameOrder
  <2> QED
    BY <1>0, <2>1, <2>2
<1>9. DmaFlags'
  BY <1>0 DEF IInv, DmaFlags
<1> QED
  BY <1>0, <1>1, <1>6, <1>7, <1>8, <1>9, QuietIInv

\* A request is issued: only its stage changes.
LEMMA IssueStep == IInv /\ (fetchDescriptors1 \/ writeback1) => IInv'
<1> SUFFICES ASSUME IInv, fetchDescriptors1 \/ writeback1 PROVE IInv'
  OBVIOUS
<1>0. /\ UNCHANGED <<rxFifo, pktPtr, pktEv, pktDone, rxDmaPacket, sm, ring, buf, drv,
                     delivered, port, mgr, accepted>>
      /\ mgr.state # "Drained"
  BY DEF fetchDescriptors1, writeback1, host, drainVars, simulating
<1>1. CacheOK(cache') /\ SameDescs(cache, cache')
  <2>0. CacheOK(cache)
    BY Basics
  <2>1. CASE fetchDescriptors1
    BY <2>0, <2>1, Zenon DEF fetchDescriptors1, CacheOK, CacheType, SameDescs, Stage
  <2>2. CASE writeback1
    BY <2>0, <2>2, Zenon DEF writeback1, CacheOK, CacheType, SameDescs, Stage
  <2> QED
    BY <2>1, <2>2
<1>2. FrameOrder' /\ (pktEv' # "idle" => descUnused(cache') > 0)
  BY <1>0, <1>1, QuietFrames
<1>3. TypeOK'
  BY <1>0, <1>1 DEF IInv, TypeOK, CacheOK
<1>4. mgr'.count = Waiting(sm'.drain, port') /\ DmaFlags'
  BY <1>0 DEF IInv, AssertsHold, Waiting, DmaFlags
<1> QED
  BY <1>0, <1>1, <1>2, <1>3, <1>4, QuietIInv

\* The end of DmaPort::handleResp, seen by the manager.
LEMMA RespOK == ASSUME IInv, NEW c, NEW p, handleResp(c, p)
                PROVE  /\ port' \in DrainState /\ mgr' \in MgrType
                       /\ mgr'.count = Waiting(sm'.drain, port') /\ mgr'.state = mgr.state
<1>1. port' \in DrainState /\ DrainStep(port, port')
  BY DEF handleResp, portAfterResp, IInv, TypeOK, DrainState, DrainStep
<1>2. mgr \in MgrType /\ mgr.count = Waiting(port, sm.drain)
  BY DEF IInv, TypeOK, AssertsHold, Waiting, MgrType
<1>3. mgr' = signalDrainDone(mgr, port, port') /\ sm' = sm
  BY DEF handleResp
<1>4. mgr' \in MgrType /\ mgr'.count = Waiting(port', sm.drain) /\ mgr'.state = mgr.state
  BY <1>1, <1>2, <1>3, SignalOK
<1> QED
  BY <1>1, <1>3, <1>4 DEF Waiting

\* The response to a descriptor fetch (DmaPort::handleResp) preserves the invariant.
LEMMA FetchRespStep == IInv /\ fetchResp => IInv'
<1> SUFFICES ASSUME IInv, fetchResp PROVE IInv'
  OBVIOUS
<1>0. /\ UNCHANGED <<rxFifo, pktPtr, pktEv, pktDone, rxDmaPacket, sm, ring, buf, drv,
                     delivered, accepted>>
      /\ mgr.state # "Drained" /\ cache.fetchEv = "dma"
      /\ cache' = [cache EXCEPT !.fetchEv = "comp"]
      /\ handleResp(cache', pktEv)
  BY DEF fetchResp, handleResp, simulating
<1>1. CacheOK(cache') /\ SameDescs(cache, cache')
  BY <1>0, Basics, Zenon DEF CacheOK, CacheType, SameDescs, Stage
<1>2. FrameOrder' /\ (pktEv' # "idle" => descUnused(cache') > 0)
  BY <1>0, <1>1, QuietFrames
<1>3. /\ port' \in DrainState /\ mgr' \in MgrType
      /\ mgr'.count = Waiting(sm'.drain, port') /\ mgr'.state = mgr.state
  BY <1>0, RespOK
<1>4. TypeOK'
  BY <1>0, <1>1, <1>3, Zenon DEF IInv, TypeOK, CacheOK, MgrType
<1>5. DmaFlags'
  BY <1>0, <1>3 DEF IInv, DmaFlags
<1> QED
  BY <1>0, <1>1, <1>2, <1>3, <1>4, <1>5, QuietIInv

\* The clock ticks and no frame's DMA is started.
LEMMA TickQuietStep ==
    ASSUME IInv, tick, packetDoneStep \/ waitForDma \/ noDescriptors \/ fifoEmpty
    PROVE  IInv'
<1>0. /\ UNCHANGED <<rxFifo, pktPtr, pktEv, ring, buf, drv, delivered, port, mgr, accepted>>
      /\ mgr.state # "Drained"
  BY DEF tick, packetDoneStep, waitForDma, noDescriptors, fifoEmpty, host, drainVars, simulating
<1>1. CacheOK(cache') /\ SameDescs(cache, cache')
  <2>0. CacheOK(cache)
    BY Basics
  <2>1. CASE packetDoneStep
    BY <2>0, <2>1, AfterPacketOK DEF packetDoneStep
  <2>2. CASE noDescriptors
    BY <2>0, <2>2, FetchOK DEF noDescriptors
  <2>3. CASE waitForDma \/ fifoEmpty
    BY <2>0, <2>3 DEF waitForDma, fifoEmpty, SameDescs
  <2> QED
    BY <2>1, <2>2, <2>3
<1>2. FrameOrder' /\ (pktEv' # "idle" => descUnused(cache') > 0)
  BY <1>0, <1>1, QuietFrames
<1>3. sm' \in SmType /\ sm'.drain = sm.drain
  <2>1. sm \in SmType
    BY DEF IInv, TypeOK, SmType
  <2>2. CASE packetDoneStep
    <3> DEFINE on == descLeft(cache) # 0 /\ descUnused(cache) # 0
    <3>1. on \in BOOLEAN /\ sm' = [sm EXCEPT !.rxTick = on, !.tickEvent = on]
      BY <2>2 DEF packetDoneStep
    <3> HIDE DEF on
    <3> QED
      BY <2>1, <3>1, Zenon DEF SmType
  <2>3. CASE waitForDma \/ noDescriptors \/ fifoEmpty
    BY <2>1, <2>3, Zenon DEF waitForDma, noDescriptors, fifoEmpty, stopTicking, SmType
  <2> QED
    BY <2>2, <2>3
<1>4. pktDone' \in BOOLEAN /\ rxDmaPacket' \in BOOLEAN
  BY Zenon DEF packetDoneStep, waitForDma, noDescriptors, fifoEmpty, IInv, TypeOK
<1>5. TypeOK'
  BY <1>0, <1>1, <1>3, <1>4 DEF IInv, TypeOK, CacheOK, SmType
<1>6. mgr'.count = Waiting(sm'.drain, port')
  BY <1>0, <1>3 DEF IInv, AssertsHold, Waiting
<1>7. DmaFlags'
  BY <1>0 DEF IInv, DmaFlags, packetDoneStep, waitForDma, noDescriptors, fifoEmpty
<1> QED
  BY <1>0, <1>1, <1>2, <1>5, <1>6, <1>7, QuietIInv

\* Length and elements of the tail of a queue.
LEMMA TailFacts ==
    ASSUME NEW S, NEW q \in Seq(S), q # <<>>
    PROVE  /\ Len(q) \in Nat /\ Len(q) > 0 /\ q[1] \in S /\ Head(q) = q[1]
           /\ Tail(q) \in Seq(S) /\ Len(Tail(q)) = Len(q) - 1
           /\ \A i \in 1 .. Len(q) - 1 : Tail(q)[i] = q[i + 1]
  BY HeadTailProperties, EmptySeq, ElementOfSeq, LenProperties

\* A queue of positive length is not empty.
LEMMA NonEmpty == ASSUME NEW S, NEW q \in Seq(S), Len(q) > 0 PROVE q # <<>>
  OBVIOUS

\* The clock ticks and the first frame of the FIFO goes to its DMA.
LEMMA WritePacketStep == ASSUME IInv, tick, writePacket PROVE IInv'
<1>0. /\ UNCHANGED <<cache, ring, buf, drv, delivered, port, mgr, accepted>>
      /\ mgr.state # "Drained" /\ ~ rxDmaPacket /\ descUnused(cache) # 0 /\ rxFifo # <<>>
      /\ pktPtr' = Head(rxFifo) /\ rxFifo' = Tail(rxFifo) /\ pktEv' = "dma"
      /\ pktDone' = FALSE /\ rxDmaPacket' = TRUE
      /\ sm' = [sm EXCEPT !.rxTick = FALSE, !.tickEvent = FALSE]
  BY DEF tick, writePacket, stopTicking, host, drainVars, simulating
<1>1. CacheOK(cache') /\ SameDescs(cache, cache')
  BY <1>0, Basics DEF SameDescs
<1>2. vis' = vis /\ visHead' = visHead /\ ready' = ready /\ filled' = filled
  BY <1>0, <1>1, QuietStep
<1>3. /\ rxFifo \in Seq(Nat) /\ Len(rxFifo) \in Nat /\ Len(rxFifo) <= FifoSize
      /\ accepted \in Nat /\ Len(delivered) \in Nat /\ ready \in Nat /\ filled \in Nat
  BY Basics
<1>4. /\ rxFifo' \in Seq(Nat) /\ Len(rxFifo') = Len(rxFifo) - 1 /\ Len(rxFifo) > 0
      /\ \A i \in 1 .. Len(rxFifo') : rxFifo'[i] = rxFifo[i + 1]
      /\ pktPtr' = rxFifo[1] /\ pktPtr' \in Nat
  BY <1>0, <1>3, TailFacts, Zenon
<1>5. pktEv = "idle"
  BY <1>0 DEF IInv, DmaFlags
<1>6. FrameOrder'
  <2> DEFINE base == Len(delivered) + (ready + filled)
  <2>1. /\ \A i \in 1 .. Len(rxFifo) : rxFifo[i] = base + 0 + i
        /\ accepted = base + 0 + Len(rxFifo)
    BY <1>5 DEF IInv, FrameOrder
  <2>a. delivered' = delivered /\ accepted' = accepted
    BY <1>0
  <2>2. base' = base /\ base \in Nat
    BY <2>a, <1>2, <1>3
  <2>3. /\ \A i \in 1 .. Len(rxFifo') : rxFifo'[i] = base + 1 + i
        /\ accepted' = base + 1 + Len(rxFifo') /\ pktPtr' = base + 1
    <3> HIDE DEF base
    <3> QED
      BY <2>1, <2>2, <2>a, <1>3, <1>4
  <2> QED
    BY <2>2, <2>3, <1>0, <1>2 DEF IInv, FrameOrder
<1>7. TypeOK'
  <2>1. sm' \in SmType
    BY <1>0, Zenon DEF IInv, TypeOK, SmType
  <2>2. Len(rxFifo') <= FifoSize
    BY <1>3, <1>4
  <2> QED
    BY <1>0, <1>4, <2>1, <2>2, Zenon DEF IInv, TypeOK, SmType
<1>8. mgr'.count = Waiting(sm'.drain, port') /\ (pktEv' # "idle" => descUnused(cache') > 0)
  <2>1. sm'.drain = sm.drain
    BY <1>0 DEF IInv, TypeOK
  <2>2. descUnused(cache) \in Nat
    BY Basics DEF descUnused
  <2> QED
    BY <1>0, <2>1, <2>2 DEF IInv, AssertsHold, Waiting
<1>9. DmaFlags'
  BY <1>0 DEF DmaFlags
<1> QED
  BY <1>0, <1>1, <1>6, <1>7, <1>8, <1>9, QuietIInv

\* A tick of the receive state machine (rxStateMachine) preserves the invariant.
LEMMA TickStep == IInv /\ tick => IInv'
  BY TickQuietStep, WritePacketStep DEF tick

\* Drain, resume and restore move no descriptor and no frame.
LEMMA DrainActionsStep == IInv /\ (tryDrain \/ drainResume \/ restore) => IInv'
<1> SUFFICES ASSUME IInv, tryDrain \/ drainResume \/ restore PROVE IInv'
  OBVIOUS
<1>0. UNCHANGED <<rxFifo, pktDone, ring, buf, drv, delivered, accepted>>
  BY DEF tryDrain, drainResume, restore, host
<1>1. /\ mgr.state = "Drained" => /\ pktEv = "idle"
                                  /\ cache.fetchEv \in {"idle", "delay"}
                                  /\ cache.wbEv \in {"idle", "delay"}
      /\ CacheOK(cache)
  BY Basics DEF IInv, DmaFlags
<1>2. CacheOK(cache') /\ SameDescs(cache, cache') /\ pktEv' = pktEv
      /\ (pktEv # "idle" => pktPtr' = pktPtr /\ rxDmaPacket' = rxDmaPacket)
  <2>1. CASE tryDrain \/ drainResume
    BY <2>1, <1>1 DEF tryDrain, drainResume, SameDescs
  <2>2. CASE restore
    <3>1. cache' = cache
      BY <2>2, <1>1, Zenon DEF restore, resumed, CacheOK, CacheType
    <3> QED
      BY <3>1, <2>2, <1>1 DEF restore, resumed, SameDescs
  <2> QED
    BY <2>1, <2>2
<1>3. FrameOrder' /\ (pktEv' # "idle" => descUnused(cache') > 0)
  BY <1>0, <1>2, QuietFrames
<1>4. /\ sm' \in SmType /\ port' \in DrainState /\ mgr' \in MgrType
      /\ mgr'.count = Waiting(sm'.drain, port')
  <2>1. CASE tryDrain
    BY <2>1 DEF tryDrain, SmType, DrainState, MgrType, Waiting
  <2>2. CASE drainResume \/ restore
    <3> DEFINE s == [rxTick |-> TRUE, tickEvent |-> FALSE, drain |-> "Running"]
    <3>0. s \in SmType /\ s.drain = "Running" /\ sm' = restartClock(s)
      BY <2>2 DEF drainResume, restore, resumed, SmType, DrainState
    <3>1. sm' \in SmType /\ sm'.drain = "Running"
      <4> HIDE DEF s
      <4> QED
        BY <3>0, ClockOK
    <3> QED
      BY <2>2, <3>1 DEF drainResume, restore, resumed, DrainState, MgrType, Waiting
  <2> QED
    BY <2>1, <2>2
<1>5. TypeOK'
  <2>1. pktPtr' \in Nat /\ rxDmaPacket' \in BOOLEAN
    <3>1. pktPtr \in Nat /\ rxDmaPacket \in BOOLEAN
      BY DEF IInv, TypeOK
    <3>2. CASE tryDrain
      BY <3>1, <3>2, Zenon DEF tryDrain
    <3>3. CASE drainResume
      BY <3>1, <3>3, Zenon DEF drainResume
    <3>4. CASE restore
      BY <3>1, <3>4, Zenon DEF restore
    <3> QED
      BY <3>2, <3>3, <3>4
  <2> QED
    BY <1>0, <1>2, <1>4, <2>1 DEF IInv, TypeOK, CacheOK, SmType, MgrType
<1>6. DmaFlags'
  <2>1. CASE tryDrain
    <3>1. mgr'.state = "Drained" => /\ ~ hasOutstandingEvents(cache, pktEv)
                                    /\ pendingCount(cache, pktEv) = 0
      BY <2>1 DEF tryDrain
    <3>2. mgr'.state = "Drained" => /\ pktEv \notin {"comp", "dma"}
                                    /\ cache.fetchEv \notin {"comp", "dma"}
                                    /\ cache.wbEv \notin {"comp", "dma"}
      BY <3>1 DEF hasOutstandingEvents, pendingCount
    <3>3. pktEv \in {"idle", "dma", "comp"} /\ cache.fetchEv \in Stage /\ cache.wbEv \in Stage
      BY DEF IInv, TypeOK, CacheType
    <3> QED
      BY <2>1, <3>2, <3>3 DEF tryDrain, IInv, DmaFlags, Stage
  <2>2. CASE drainResume \/ restore
    BY <2>2, <1>0, <1>1 DEF drainResume, restore, resumed, IInv, DmaFlags
  <2> QED
    BY <2>1, <2>2
<1> QED
  BY <1>0, <1>2, <1>3, <1>4, <1>5, <1>6, QuietIInv

-----------------------------------------------------------------------------
(* Actions that move a descriptor or a frame                               *)

\* Ring positions seen from the driver, in any state of the invariant.
LEMMA Positions ==
    ASSUME IInv
    PROVE  /\ drv.nb_hold + 1 + ready + filled + Len(cache.unusedCache)
                + Dist(cache.cachePnt, cache.tail) = RingLen
           /\ \A k \in Nat : ready + k < RingLen
                 => Dist(drv.rx_id, Advance(visHead, k)) = ready + k
<1>1. /\ drv.rx_id \in Slot /\ visHead \in Slot
  BY Basics
<1>2. \A k \in Nat : ready + k < RingLen
         => Dist(drv.rx_id, Advance(visHead, k)) = ready + k
  BY <1>1, DistPlus DEF ready
<1> QED
  BY <1>2 DEF IInv, DescriptorOwnership, descUnused

\* The first unused descriptor is the one after the filled ones.
LEMMA FirstUnused ==
    ASSUME IInv, Len(cache.unusedCache) > 0
    PROVE  LET d == Head(cache.unusedCache)
           IN  /\ d = cache.unusedCache[1] /\ d \in Desc /\ d.slot \in Slot
               /\ d.slot = Advance(visHead, filled)
               /\ Dist(drv.rx_id, d.slot) = ready + filled
<1> DEFINE d == Head(cache.unusedCache)
<1>1. cache.unusedCache \in Seq(Desc)
  BY DEF IInv, TypeOK, CacheType
<1>2. d = cache.unusedCache[1] /\ d \in Desc
  BY <1>1, NonEmpty, TailFacts
<1>3. /\ ready \in Nat /\ filled \in Nat /\ Len(cache.unusedCache) \in Nat
      /\ drv.nb_hold \in Nat /\ Dist(cache.cachePnt, cache.tail) \in Nat
  BY Basics
<1>4. d.slot = Advance(visHead, filled)
  <2>1. \A i \in 1 .. Len(cache.unusedCache) :
           cache.unusedCache[i].slot = Advance(visHead, filled + i - 1)
    BY DEF IInv, DescriptorOwnership, descUnused
  <2>2. 1 \in 1 .. Len(cache.unusedCache) /\ filled + 1 - 1 = filled
    BY <1>3
  <2> QED
    BY <2>1, <2>2, <1>2
<1>5. ready + filled < RingLen
  BY <1>3, Positions
<1>6. d.slot \in Slot
  BY <1>2 DEF Desc
<1> HIDE DEF d
<1>7. Dist(drv.rx_id, d.slot) = ready + filled
  BY <1>3, <1>4, <1>5, Positions
<1> QED
  BY <1>2, <1>4, <1>6, <1>7 DEF d

\* The frame's data arrives in the buffer of the first unused descriptor.
LEMMA PktRespStep == IInv /\ pktResp => IInv'
<1> SUFFICES ASSUME IInv, pktResp PROVE IInv'
  OBVIOUS
<1>0. /\ UNCHANGED <<cache, rxFifo, pktPtr, pktDone, rxDmaPacket, sm, ring, drv,
                     delivered, accepted>>
      /\ mgr.state # "Drained" /\ pktEv = "dma" /\ pktEv' = "comp"
      /\ buf' = [buf EXCEPT ![Head(cache.unusedCache).slot] = pktPtr]
      /\ handleResp(cache, "comp")
  BY DEF pktResp, handleResp, simulating
<1>1. CacheOK(cache') /\ SameDescs(cache, cache')
  BY <1>0, Basics DEF SameDescs
<1>2. vis' = vis /\ visHead' = visHead /\ ready' = ready /\ filled' = filled
  BY <1>0, <1>1, QuietStep
<1>3. /\ port' \in DrainState /\ mgr' \in MgrType
      /\ mgr'.count = Waiting(sm'.drain, port') /\ mgr'.state = mgr.state
  BY <1>0, RespOK
<1>4. /\ cache.unusedCache \in Seq(Desc) /\ Len(cache.unusedCache) > 0
      /\ buf \in [Slot -> Nat] /\ pktPtr \in Nat
  BY <1>0, Zenon DEF IInv, TypeOK, CacheType, AssertsHold, descUnused
<1> DEFINE t == Head(cache.unusedCache).slot
<1>5. t \in Slot /\ Dist(drv.rx_id, t) = ready + filled
  BY <1>4, FirstUnused
<1>6. ready \in Nat /\ filled \in Nat
  BY Basics
<1>8. buf' \in [Slot -> Nat] /\ buf'[t] = pktPtr /\ \A s \in Slot : s # t => buf'[s] = buf[s]
  BY <1>0, <1>4, <1>5
<1>9. FrameOrder'
  <2>1. \A s \in Slot : Dist(drv.rx_id, s) < ready + filled => buf'[s] = buf[s]
    <3> HIDE DEF t
    <3> QED
      BY <1>5, <1>6, <1>8
  <2>2. buf'[Head(cache'.unusedCache).slot] = pktPtr'
    BY <1>0, <1>8
  <2> HIDE DEF t
  <2> QED
    BY <2>1, <2>2, <1>0, <1>2 DEF IInv, FrameOrder
<1>10. TypeOK'
  BY <1>0, <1>1, <1>3, <1>8 DEF IInv, TypeOK, CacheOK, MgrType
<1>11. DmaFlags'
  BY <1>0, <1>3 DEF IInv, DmaFlags
<1>12. pktEv' # "idle" => descUnused(cache') > 0
  BY <1>0, <1>4 DEF descUnused
<1> QED
  BY <1>0, <1>1, <1>3, <1>9, <1>10, <1>11, <1>12, QuietIInv

\* The clock and drain bookkeeping of a completion event.
LEMMA EventOK ==
    ASSUME IInv, sm' \in SmType, DrainStep(sm.drain, sm'.drain),
           mgr' = signalDrainDone(mgr, sm.drain, sm'.drain), port' = port
    PROVE  /\ mgr' \in MgrType /\ mgr'.state = mgr.state
           /\ mgr'.count = Waiting(sm'.drain, port')
<1>1. mgr \in MgrType /\ mgr.count = Waiting(sm.drain, port)
  BY DEF IInv, TypeOK, AssertsHold, Waiting, MgrType
<1> QED
  BY <1>1, SignalOK

\* The first unused descriptor becomes the last used one.
LEMMA PktCompleteStep == IInv /\ pktComplete => IInv'
<1> SUFFICES ASSUME IInv, pktComplete PROVE IInv'
  OBVIOUS
<1> DEFINE u == cache.usedCache
           q == cache.unusedCache
           e == [Head(q) EXCEPT !.dd = TRUE]
<1>0. /\ UNCHANGED <<rxFifo, rxDmaPacket, ring, buf, drv, delivered, port, accepted>>
      /\ mgr.state # "Drained" /\ pktEv = "comp" /\ pktEv' = "idle" /\ pktPtr' = 0
      /\ pktDone' = TRUE
      /\ sm' = enableSm(checkDrain(sm, cache, "idle"))
      /\ mgr' = signalDrainDone(mgr, sm.drain, sm'.drain)
      /\ cache' = [cache EXCEPT !.unusedCache = Tail(q), !.usedCache = Append(u, e)]
  BY DEF pktComplete, descDone, host, simulating
<1>1. /\ cache \in CacheType /\ u \in Seq(Desc) /\ q \in Seq(Desc)
      /\ Len(u) \in Nat /\ Len(q) \in Nat /\ Len(q) > 0 /\ CacheOK(cache)
  <2>1. cache \in CacheType /\ Len(q) > 0
    BY <1>0 DEF IInv, TypeOK, AssertsHold, descUnused
  <2> QED
    BY <2>1, Basics DEF CacheType
<1>n. Len(u) \in Nat /\ Len(q) \in Nat /\ Len(q) > 0
  BY <1>1
<1>2. /\ e \in Desc /\ e.dd = TRUE /\ e.slot = Head(q).slot
      /\ e.slot = Advance(visHead, filled)
      /\ Dist(drv.rx_id, e.slot) = ready + filled /\ e.slot \in Slot
  <2>1. Head(q) \in Desc
    BY <1>1, FirstUnused
  <2>2. e \in Desc /\ e.dd = TRUE /\ e.slot = Head(q).slot
    <3> DEFINE h == Head(q)
    <3> HIDE DEF h
    <3>1. [h EXCEPT !.dd = TRUE] \in Desc /\ [h EXCEPT !.dd = TRUE].dd = TRUE
          /\ [h EXCEPT !.dd = TRUE].slot = h.slot
      BY <2>1, Zenon DEF Desc, h
    <3> QED
      BY <3>1 DEF h
  <2> QED
    BY <2>2, <1>1, FirstUnused
<1> HIDE DEF e
<1>3. /\ Append(u, e) \in Seq(Desc) /\ Len(Append(u, e)) = Len(u) + 1
      /\ \A i \in 1 .. Len(u) : Append(u, e)[i] = u[i]
      /\ Append(u, e)[Len(u) + 1] = e
  BY <1>1, <1>2
<1>4. /\ Tail(q) \in Seq(Desc) /\ Len(Tail(q)) = Len(q) - 1
      /\ \A i \in 1 .. Len(q) - 1 : Tail(q)[i] = q[i + 1]
  BY <1>1, NonEmpty, TailFacts
<1>5. /\ cache' \in CacheType
      /\ cache'.usedCache = Append(u, e) /\ cache'.unusedCache = Tail(q)
      /\ cache'.cachePnt = cache.cachePnt /\ cache'.curFetching = cache.curFetching
      /\ cache'.fetchEv = cache.fetchEv /\ cache'.wbEv = cache.wbEv
      /\ cache'.wbOut = cache.wbOut /\ cache'.head = cache.head /\ cache'.tail = cache.tail
  BY <1>0, <1>1, <1>3, <1>4, Zenon DEF CacheType
<1>6. CacheOK(cache')
  <2>1. /\ Len(cache'.usedCache) = Len(u) + 1 /\ Len(cache'.unusedCache) = Len(q) - 1
    BY <1>3, <1>4, <1>5
  <2>2. cache.wbOut \in Nat /\ cache.curFetching \in Nat
    BY Basics
  <2>3. /\ cache.wbOut <= Len(u) /\ Len(u) + Len(q) + cache.curFetching <= CacheSize
    BY <1>1, Zenon DEF CacheOK
  <2>4. /\ cache.wbOut <= Len(u) + 1
        /\ (Len(u) + 1) + (Len(q) - 1) + cache.curFetching <= CacheSize
    <3> HIDE DEF u, q
    <3> QED
      BY <2>2, <2>3, <1>n
  <2>5. /\ cache'.wbOut <= Len(cache'.usedCache)
        /\ Len(cache'.usedCache) + Len(cache'.unusedCache) + cache'.curFetching <= CacheSize
    BY <2>1, <2>4, <1>5, Zenon
  <2> QED
    BY <2>5, <1>1, <1>5, Zenon DEF CacheOK
<1>7. /\ vis' = vis /\ visHead' = visHead /\ ready' = ready
      /\ filled' = filled + 1
  <2>1. vis' = vis
    BY <1>5 DEF vis
  <2>2. visHead' = visHead
    BY <2>1, <1>5 DEF visHead
  <2>3. ready' = ready
    BY <2>2, <1>0 DEF ready
  <2>4. filled' = Len(cache'.usedCache) - vis
    BY <2>1 DEF filled, descUsed
  <2>5. vis \in Nat /\ filled = Len(u) - vis
    BY Basics
  <2>6. Len(cache'.usedCache) = Len(u) + 1
    BY <1>3, <1>5
  <2>7. filled' = filled + 1
    BY <2>4, <2>5, <2>6, <1>n
  <2> QED
    BY <2>1, <2>2, <2>3, <2>7
<1>8. /\ vis \in Nat /\ vis <= Len(u) /\ filled = Len(u) - vis /\ filled \in Nat
      /\ ready \in Nat /\ drv.nb_hold \in Nat /\ drv.rx_id \in Slot
      /\ Dist(cache.cachePnt, cache.tail) \in Nat /\ Len(delivered) \in Nat
  BY Basics
<1>9. DescriptorOwnership'
  <2>1. /\ drv.nb_hold + 1 + ready + filled + Len(q)
             + Dist(cache.cachePnt, cache.tail) = RingLen
        /\ cache.curFetching <= Dist(cache.cachePnt, cache.tail)
        /\ drv.rx_id = Advance(cache.tail, drv.nb_hold + 1)
        /\ cache.cachePnt = Advance(visHead, filled + Len(q))
        /\ \A i \in vis + 1 .. Len(u) : u[i].slot = Advance(visHead, i - vis - 1)
        /\ \A i \in 1 .. Len(q) : q[i].slot = Advance(visHead, filled + i - 1)
    BY DEF IInv, DescriptorOwnership, descUsed, descUnused
  <2>2. \A i \in vis + 1 .. Len(u) + 1 : Append(u, e)[i].slot = Advance(visHead, i - vis - 1)
    <3> SUFFICES ASSUME NEW i \in vis + 1 .. Len(u) + 1
                 PROVE  Append(u, e)[i].slot = Advance(visHead, i - vis - 1)
      BY Zenon
    <3>1. CASE i = Len(u) + 1
      <4>1. i - vis - 1 = filled
        BY <3>1, <1>1, <1>8
      <4> QED
        BY <4>1, <3>1, <1>2, <1>3
    <3>2. CASE i # Len(u) + 1
      <4>1. i \in vis + 1 .. Len(u) /\ i \in 1 .. Len(u)
        BY <3>2, <1>1, <1>8
      <4> QED
        BY <4>1, <2>1, <1>3
    <3> QED
      BY <3>1, <3>2, Zenon
  <2>3. \A i \in 1 .. Len(q) - 1 : Tail(q)[i].slot = Advance(visHead, filled + 1 + i - 1)
    <3> SUFFICES ASSUME NEW i \in 1 .. Len(q) - 1
                 PROVE  Tail(q)[i].slot = Advance(visHead, filled + 1 + i - 1)
      OBVIOUS
    <3>1. i + 1 \in 1 .. Len(q) /\ filled + (i + 1) - 1 = filled + 1 + i - 1
      BY <1>1, <1>8
    <3> QED
      BY <3>1, <2>1, <1>4
  <2>4. filled + 1 + (Len(q) - 1) = filled + Len(q)
    <3> HIDE DEF q, u
    <3> QED
      BY <1>n, <1>8
  <2>5. drv.nb_hold + 1 + ready + (filled + 1) + (Len(q) - 1)
          + Dist(cache.cachePnt, cache.tail) = RingLen
    <3>1. /\ drv.nb_hold \in Nat /\ ready \in Nat /\ filled \in Nat
          /\ Dist(cache.cachePnt, cache.tail) \in Nat
          /\ drv.nb_hold + 1 + ready + filled + Len(q)
               + Dist(cache.cachePnt, cache.tail) = RingLen
      BY <2>1, <1>8, Zenon
    <3>2. \A a, b, c, d, x \in Nat : a + 1 + b + (c + 1) + (d - 1) + x = a + 1 + b + c + d + x
      OBVIOUS
    <3> DEFINE x == Dist(cache.cachePnt, cache.tail)
               l == Len(q)
               h == drv.nb_hold
    <3>3. l \in Nat /\ h \in Nat /\ x \in Nat /\ h + 1 + ready + filled + l + x = RingLen
      BY <3>1, <1>n
    <3> HIDE DEF x, l, h
    <3>4. h + 1 + ready + (filled + 1) + (l - 1) + x = RingLen
      BY <3>1, <3>2, <3>3
    <3> QED
      BY <3>4 DEF x, l, h
  <2> QED
    BY <2>1, <2>2, <2>3, <2>4, <2>5, <1>0, <1>3, <1>4, <1>5, <1>7, Zenon
       DEF DescriptorOwnership, descUsed, descUnused
<1>10. DDExact'
  <2>1. \A i \in 1 .. Len(u) + 1 : Append(u, e)[i].dd
    <3> SUFFICES ASSUME NEW i \in 1 .. Len(u) + 1 PROVE Append(u, e)[i].dd
      OBVIOUS
    <3>1. CASE i = Len(u) + 1
      BY <3>1, <1>2, <1>3
    <3>2. CASE i # Len(u) + 1
      <4>1. i \in 1 .. Len(u)
        BY <3>2, <1>1
      <4>2. u[i].dd
        BY <4>1 DEF IInv, DDExact, descUsed
      <4> QED
        BY <4>1, <4>2, <1>3
    <3> QED
      BY <3>1, <3>2
  <2>2. \A i \in 1 .. Len(q) - 1 : ~ Tail(q)[i].dd
    <3> SUFFICES ASSUME NEW i \in 1 .. Len(q) - 1 PROVE ~ Tail(q)[i].dd
      OBVIOUS
    <3>1. i + 1 \in 1 .. Len(q)
      BY <1>1
    <3>2. ~ q[i + 1].dd
      BY <3>1 DEF IInv, DDExact, descUnused
    <3> QED
      BY <3>2, <1>4
  <2> QED
    BY <2>1, <2>2, <1>0, <1>3, <1>4, <1>5, <1>7, Zenon DEF IInv, DDExact, descUsed, descUnused
<1>11. FrameOrder'
  <2> DEFINE n == Len(delivered)
  <2>1. /\ \A i \in 1 .. n : delivered[i] = i
        /\ \A s \in Slot : Dist(drv.rx_id, s) < ready + filled
                             => buf[s] = n + 1 + Dist(drv.rx_id, s)
        /\ buf[e.slot] = n + (ready + filled) + 1
        /\ \A i \in 1 .. Len(rxFifo) : rxFifo[i] = n + (ready + filled) + 1 + i
        /\ accepted = n + (ready + filled) + 1 + Len(rxFifo)
    BY <1>0, <1>2 DEF IInv, FrameOrder
  <2>2. \A s \in Slot : Dist(drv.rx_id, s) < ready + (filled + 1)
                          => buf[s] = n + 1 + Dist(drv.rx_id, s)
    <3> SUFFICES ASSUME NEW s \in Slot, Dist(drv.rx_id, s) < ready + (filled + 1)
                 PROVE  buf[s] = n + 1 + Dist(drv.rx_id, s)
      OBVIOUS
    <3>1. Dist(drv.rx_id, s) \in Nat
      BY <1>8, DistType, Zenon
    <3>2. CASE Dist(drv.rx_id, s) < ready + filled
      BY <3>2, <2>1
    <3>3. CASE ~ (Dist(drv.rx_id, s) < ready + filled)
      <4>1. Dist(drv.rx_id, s) = ready + filled
        BY <3>1, <3>3, <1>8
      <4>2. s = e.slot
        <5>1. Advance(drv.rx_id, Dist(drv.rx_id, s)) = s
              /\ Advance(drv.rx_id, Dist(drv.rx_id, e.slot)) = e.slot
          BY <1>2, <1>8, AdvanceDist
        <5> QED
          BY <5>1, <4>1, <1>2
      <4>3. n + (ready + filled) + 1 = n + 1 + (ready + filled)
        <5>1. n \in Nat /\ ready \in Nat /\ filled \in Nat
          BY <1>8
        <5> HIDE DEF n
        <5> QED
          BY <5>1
      <4> QED
        BY <4>1, <4>2, <4>3, <2>1
    <3> QED
      BY <3>2, <3>3
  <2>3. Len(rxFifo) \in Nat /\ n + (ready + (filled + 1)) + 0 = n + (ready + filled) + 1
    BY <1>8, Basics
  <2>4. /\ \A i \in 1 .. Len(rxFifo) : rxFifo[i] = n + (ready + (filled + 1)) + 0 + i
        /\ accepted = n + (ready + (filled + 1)) + 0 + Len(rxFifo)
    BY <2>1, <2>3
  <2> QED
    BY <2>1, <2>2, <2>4, <1>0, <1>7 DEF FrameOrder
<1>12. sm' \in SmType /\ DrainStep(sm.drain, sm'.drain)
  <2>1. sm \in SmType
    BY DEF IInv, TypeOK, SmType
  <2> QED
    BY <2>1, <1>0, CheckDrainOK, ClockOK
<1>13. /\ mgr' \in MgrType /\ mgr'.state = mgr.state
       /\ mgr'.count = Waiting(sm'.drain, port')
  BY <1>0, <1>12, EventOK
<1>14. TypeOK'
  BY <1>0, <1>5, <1>12, <1>13, Zenon DEF IInv, TypeOK, SmType, MgrType
<1>15. DmaFlags'
  BY <1>0, <1>13 DEF IInv, DmaFlags
<1>16. AssertsHold'
  BY <1>0, <1>6, <1>13, Zenon DEF AssertsHold, CacheOK, Waiting, descUsed, descUnused
<1> QED
  BY <1>9, <1>10, <1>11, <1>14, <1>15, <1>16 DEF IInv

\* fetchBuf: every fetched descriptor is the next one of the ring, and re-armed.
LEMMA FetchBufOK ==
    ASSUME IInv
    PROVE  /\ fetchBuf \in Seq(Desc) /\ Len(fetchBuf) = cache.curFetching
           /\ \A i \in 1 .. cache.curFetching :
                 /\ ~ fetchBuf[i].dd
                 /\ fetchBuf[i].slot = Advance(visHead, filled + Len(cache.unusedCache) + i - 1)
<1> DEFINE l == Len(cache.unusedCache)
           f == cache.curFetching
           p == cache.cachePnt
           x == Dist(cache.cachePnt, cache.tail)
           h == drv.nb_hold
<1>1. /\ l \in Nat /\ f \in Nat /\ p \in Slot /\ x \in Nat /\ h \in Nat
      /\ ready \in Nat /\ filled \in Nat /\ visHead \in Slot
  BY Basics
<1>2. /\ p + f <= RingLen /\ f <= x
      /\ p = Advance(visHead, filled + l)
      /\ h + 1 + ready + filled + l + x = RingLen
      /\ \A s \in Slot : ring[s] <=> Dist(drv.rx_id, s) < ready
      /\ ring \in [Slot -> BOOLEAN]
  BY DEF IInv, TypeOK, AssertsHold, DescriptorOwnership, DDExact, descUnused
<1>3. \A k \in Nat : ready + k < RingLen
         => Dist(drv.rx_id, Advance(visHead, k)) = ready + k
  BY Positions
<1>4. fetchBuf = [i \in 1 .. f |-> [slot |-> p + i - 1, dd |-> ring[p + i - 1]]]
  BY DEF fetchBuf, FetchSlots
<1> HIDE DEF l, f, p, x, h
<1>5. ASSUME NEW i \in 1 .. f
      PROVE  /\ p + i - 1 \in Slot
             /\ p + i - 1 = Advance(visHead, filled + l + i - 1)
             /\ ~ ring[p + i - 1]
  <2>1. p + i - 1 \in Slot /\ i - 1 \in Nat /\ filled + l \in Nat
    BY <1>1, <1>2
  <2>2. p + i - 1 = Advance(p, i - 1)
    BY <1>1, <2>1 DEF Advance
  <2>3. filled + l + (i - 1) <= RingLen /\ filled + l + (i - 1) = filled + l + i - 1
    BY <1>1, <1>2
  <2>4. Advance(p, i - 1) = Advance(visHead, filled + l + (i - 1))
    BY <1>1, <1>2, <2>1, <2>3, AdvancePlus
  <2>5. ready + (filled + l + (i - 1)) < RingLen /\ filled + l + (i - 1) \in Nat
    BY <1>1, <1>2
  <2>6. Dist(drv.rx_id, p + i - 1) = ready + (filled + l + (i - 1))
    BY <1>3, <2>2, <2>4, <2>5
  <2>7. ~ (Dist(drv.rx_id, p + i - 1) < ready)
    BY <2>5, <2>6, <1>1
  <2> QED
    BY <2>1, <2>2, <2>3, <2>4, <2>7, <1>2
<1>6. /\ \A i \in 1 .. f : fetchBuf[i] = [slot |-> p + i - 1, dd |-> ring[p + i - 1]]
      /\ DOMAIN fetchBuf = 1 .. f
  BY <1>4
<1>7. \A i \in 1 .. f : [slot |-> p + i - 1, dd |-> ring[p + i - 1]] \in Desc
  BY <1>5, <1>2 DEF Desc
<1>8. fetchBuf \in Seq(Desc) /\ Len(fetchBuf) = f
  <2>1. fetchBuf \in [1 .. f -> Desc]
    BY <1>4, <1>7
  <2>2. \A b \in [1 .. f -> Desc] : b \in Seq(Desc) /\ Len(b) = f
    BY <1>1
  <2> QED
    BY <2>1, <2>2
<1>9. \A i \in 1 .. f : /\ ~ fetchBuf[i].dd
                        /\ fetchBuf[i].slot = Advance(visHead, filled + l + i - 1)
  BY <1>5, <1>6
<1> QED
  BY <1>8, <1>9 DEF l, f

\* Concatenation of two sequences of descriptors (fetchComplete's push_back loop).
LEMMA ConcatFacts ==
    ASSUME NEW a \in Seq(Desc), NEW b \in Seq(Desc)
    PROVE  /\ a \o b \in Seq(Desc) /\ Len(a \o b) = Len(a) + Len(b)
           /\ \A i \in 1 .. Len(a) : (a \o b)[i] = a[i]
           /\ \A i \in 1 .. Len(b) : (a \o b)[Len(a) + i] = b[i]
<1>1. a \o b \in Seq(Desc) /\ Len(a \o b) = Len(a) + Len(b)
  BY ConcatProperties
<1>2. \A i \in 1 .. Len(a) + Len(b) :
         (a \o b)[i] = IF i <= Len(a) THEN a[i] ELSE b[i - Len(a)]
  BY ConcatProperties
<1>3. Len(a) \in Nat /\ Len(b) \in Nat
  OBVIOUS
<1> DEFINE c == a \o b
           m == Len(a)
           n == Len(b)
<1> HIDE DEF c, m, n
<1>4. \A i \in 1 .. m : c[i] = a[i]
  BY <1>2, <1>3 DEF c, m, n
<1>5. ASSUME NEW i \in 1 .. n PROVE c[m + i] = b[i]
  <2>1. m + i \in 1 .. m + n /\ ~ (m + i <= m) /\ (m + i) - m = i
    BY <1>3 DEF m, n
  <2> QED
    BY <2>1, <1>2 DEF c, m, n
<1> QED
  BY <1>1, <1>4, <1>5 DEF c, m, n

\* The fetched descriptors join the unused ones.
LEMMA FetchEventStep == IInv /\ fetchEvent => IInv'
<1> SUFFICES ASSUME IInv, fetchEvent PROVE IInv'
  OBVIOUS
<1> DEFINE q == cache.unusedCache
           f == cache.curFetching
           p == cache.cachePnt
           x == Dist(cache.cachePnt, cache.tail)
           h == drv.nb_hold
           l == Len(q)
           np == IF p + f = RingLen THEN 0 ELSE p + f
<1>0. /\ UNCHANGED <<rxFifo, pktPtr, pktEv, pktDone, rxDmaPacket, ring, buf, drv,
                     delivered, port, accepted>>
      /\ mgr.state # "Drained"
      /\ sm' = checkDrain(enableSm(sm), cache', pktEv)
      /\ mgr' = signalDrainDone(mgr, sm.drain, sm'.drain)
      /\ cache' = [cache EXCEPT !.unusedCache = q \o fetchBuf, !.cachePnt = np,
                                !.curFetching = 0, !.fetchEv = "idle"]
  BY DEF fetchEvent, fetchComplete, host, simulating
<1>1. /\ CacheOK(cache) /\ cache \in CacheType /\ q \in Seq(Desc)
  BY Basics DEF CacheOK, CacheType
<1>2. /\ l \in Nat /\ f \in Nat /\ p \in Slot /\ x \in Nat /\ h \in Nat
      /\ ready \in Nat /\ filled \in Nat /\ visHead \in Slot /\ cache.tail \in Slot
  BY Basics
<1>3. /\ p + f <= RingLen /\ f <= x
      /\ p = Advance(visHead, filled + l)
      /\ h + 1 + ready + filled + l + x = RingLen
      /\ Len(cache.usedCache) + l + f <= CacheSize
      /\ drv.rx_id = Advance(cache.tail, h + 1)
  BY Zenon DEF IInv, AssertsHold, DescriptorOwnership, descUsed, descUnused
<1>4. /\ fetchBuf \in Seq(Desc) /\ Len(fetchBuf) = f
      /\ \A i \in 1 .. f : /\ ~ fetchBuf[i].dd
                           /\ fetchBuf[i].slot = Advance(visHead, filled + l + i - 1)
  BY FetchBufOK
<1>5. /\ q \o fetchBuf \in Seq(Desc) /\ Len(q \o fetchBuf) = l + f
      /\ \A i \in 1 .. l : (q \o fetchBuf)[i] = q[i]
      /\ \A i \in 1 .. f : (q \o fetchBuf)[l + i] = fetchBuf[i]
  <2> DEFINE b == fetchBuf
  <2> HIDE DEF q, f, b
  <2>1. q \in Seq(Desc) /\ b \in Seq(Desc) /\ Len(b) = f
    BY <1>1, <1>4 DEF b
  <2>2. /\ q \o b \in Seq(Desc) /\ Len(q \o b) = Len(q) + Len(b)
        /\ \A i \in 1 .. Len(q) : (q \o b)[i] = q[i]
        /\ \A i \in 1 .. Len(b) : (q \o b)[Len(q) + i] = b[i]
    BY <2>1, ConcatFacts, Zenon
  <2> QED
    BY <2>1, <2>2 DEF b
<1>6. np \in Slot /\ np = Advance(visHead, filled + (l + f)) /\ Dist(np, cache.tail) = x - f
  <2> HIDE DEF q, l, f, p, x, h
  <2>1. np = Advance(p, f) /\ np \in Slot
    BY <1>2, <1>3 DEF Advance
  <2>2. filled + l \in Nat /\ (filled + l) + f <= RingLen /\ (filled + l) + f = filled + (l + f)
    BY <1>2, <1>3
  <2>3. Advance(p, f) = Advance(visHead, (filled + l) + f)
    BY <1>2, <1>3, <2>2, AdvancePlus
  <2>5. x = Dist(p, cache.tail)
    BY DEF x, p
  <2>6. Dist(np, cache.tail) = x - f
    <3>1. f <= Dist(p, cache.tail) /\ f \in Nat /\ p \in Slot /\ cache.tail \in Slot
      BY <1>2, <1>3, <2>5
    <3>2. Dist(Advance(p, f), cache.tail) = Dist(p, cache.tail) - f
      BY <3>1, DistBack
    <3> QED
      BY <3>2, <2>1, <2>5, Zenon
  <2> QED
    BY <2>1, <2>2, <2>3, <2>6
<1> HIDE DEF np
<1>7. /\ cache' \in CacheType
      /\ cache'.usedCache = cache.usedCache /\ cache'.unusedCache = q \o fetchBuf
      /\ cache'.cachePnt = np /\ cache'.curFetching = 0 /\ cache'.fetchEv = "idle"
      /\ cache'.wbEv = cache.wbEv /\ cache'.wbOut = cache.wbOut
      /\ cache'.head = cache.head /\ cache'.tail = cache.tail
  BY <1>0, <1>1, <1>5, <1>6, Zenon DEF CacheType, Stage
<1>8. vis' = vis /\ visHead' = visHead /\ ready' = ready /\ filled' = filled
  BY <1>0, <1>7 DEF vis, visHead, ready, filled, descUsed
<1>9. CacheOK(cache')
  <2>1. Len(cache.usedCache) \in Nat
    BY Basics
  <2>2. Len(cache.usedCache) + (l + f) + 0 <= CacheSize
    <3> DEFINE n == Len(cache.usedCache)
    <3> HIDE DEF l, f, n
    <3>1. n \in Nat /\ n + l + f <= CacheSize
      BY <2>1, <1>3 DEF n
    <3>2. n + (l + f) + 0 <= CacheSize
      BY <3>1, <1>2
    <3> QED
      BY <3>2 DEF n
  <2>3. np + 0 <= RingLen
    BY <1>6
  <2>4. 0 <= Dist(np, cache.tail)
    <3>1. Dist(np, cache.tail) \in Nat
      BY <1>2, <1>6, DistType, Zenon
    <3> QED
      BY <3>1
  <2> QED
    BY <2>2, <2>3, <2>4, <1>1, <1>5, <1>7, Zenon DEF CacheOK
<1>10. ASSUME NEW i \in 1 .. l + f
       PROVE  /\ (q \o fetchBuf)[i].slot = Advance(visHead, filled + i - 1)
              /\ ~ (q \o fetchBuf)[i].dd
  <2>1. CASE i \in 1 .. l
    <3>1. q[i].slot = Advance(visHead, filled + i - 1) /\ ~ q[i].dd
      BY <2>1 DEF IInv, DescriptorOwnership, DDExact, descUnused
    <3> QED
      BY <3>1, <2>1, <1>5
  <2>2. CASE i \notin 1 .. l
    <3>1. i - l \in 1 .. f /\ l + (i - l) = i /\ filled + l + (i - l) - 1 = filled + i - 1
      <4> HIDE DEF l, f
      <4> QED
        BY <2>2, <1>2
    <3>2. (q \o fetchBuf)[i] = fetchBuf[i - l]
      BY <3>1, <1>5
    <3> QED
      BY <3>1, <3>2, <1>4, Zenon
  <2> QED
    BY <2>1, <2>2, Zenon
<1>11. DescriptorOwnership'
  <2>1. h + 1 + ready + filled + (l + f) + (x - f) = RingLen /\ 0 <= x - f
    <3> HIDE DEF l, f, p, x, h
    <3> QED
      BY <1>2, <1>3
  <2>2. \A i \in vis + 1 .. Len(cache.usedCache) :
           cache.usedCache[i].slot = Advance(visHead, i - vis - 1)
    BY DEF IInv, DescriptorOwnership, descUsed
  <2> HIDE DEF l, f, p, x
  <2> QED
    BY <2>1, <2>2, <1>0, <1>3, <1>5, <1>6, <1>7, <1>8, <1>10, Zenon
       DEF DescriptorOwnership, descUsed, descUnused
<1>12. DDExact'
  BY <1>0, <1>5, <1>7, <1>8, <1>10 DEF IInv, DDExact, descUsed, descUnused
<1>13. FrameOrder'
  <2>1. pktEv # "idle" => Head(q \o fetchBuf) = Head(q)
    <3>1. pktEv # "idle" => l > 0
      BY DEF IInv, AssertsHold, descUnused
    <3>2. l > 0 => Head(q) = q[1] /\ 1 \in 1 .. l
      BY <1>1, <1>2, NonEmpty, TailFacts
    <3>3. l > 0 => Len(q \o fetchBuf) > 0
      <4> HIDE DEF l, f
      <4> QED
        BY <1>2, <1>5
    <3>4. l > 0 => Head(q \o fetchBuf) = (q \o fetchBuf)[1]
      BY <3>3, <1>5, NonEmpty, TailFacts
    <3> QED
      BY <3>1, <3>2, <3>4, <1>5
  <2> QED
    BY <2>1, <1>0, <1>7, <1>8, Zenon DEF IInv, FrameOrder
<1>14. sm' \in SmType /\ DrainStep(sm.drain, sm'.drain)
  <2>1. sm \in SmType
    BY DEF IInv, TypeOK, SmType
  <2> QED
    BY <2>1, <1>0, CheckDrainOK, ClockOK
<1>15. /\ mgr' \in MgrType /\ mgr'.state = mgr.state
       /\ mgr'.count = Waiting(sm'.drain, port')
  BY <1>0, <1>14, EventOK
<1>16. TypeOK'
  BY <1>0, <1>7, <1>14, <1>15, Zenon DEF IInv, TypeOK, SmType, MgrType
<1>17. DmaFlags'
  BY <1>0, <1>15 DEF IInv, DmaFlags
<1>18. AssertsHold'
  <2>1. pktEv # "idle" => l + f > 0
    <3>1. pktEv # "idle" => l > 0
      BY DEF IInv, AssertsHold, descUnused
    <3> HIDE DEF l, f
    <3> QED
      BY <3>1, <1>2
  <2> QED
    BY <2>1, <1>0, <1>5, <1>7, <1>9, <1>15, Zenon DEF AssertsHold, CacheOK, Waiting, descUsed, descUnused
<1> QED
  BY <1>11, <1>12, <1>13, <1>16, <1>17, <1>18 DEF IInv

\* A writeback reaches host memory: its descriptors are ready for the driver.
LEMMA WbRespStep == IInv /\ wbResp => IInv'
<1> SUFFICES ASSUME IInv, wbResp PROVE IInv'
  OBVIOUS
<1> DEFINE w == cache.wbOut
           hd == cache.head
           n == Len(cache.usedCache)
           l == Len(cache.unusedCache)
           h == drv.nb_hold
           p == cache.cachePnt
           x == Dist(cache.cachePnt, cache.tail)
           written(i) == \E k \in 1 .. w : WbSlots(cache)[k] = i
<1>0. /\ UNCHANGED <<rxFifo, pktPtr, pktEv, pktDone, rxDmaPacket, sm, buf, drv,
                     delivered, accepted>>
      /\ mgr.state # "Drained" /\ cache.wbEv = "dma"
      /\ cache' = [cache EXCEPT !.wbEv = "comp"]
      /\ handleResp(cache', pktEv)
      /\ ring' = [i \in Slot |-> IF written(i) THEN cache.usedCache[i - hd + 1].dd
                                               ELSE ring[i]]
  BY DEF wbResp, handleResp, simulating
<1>1. /\ CacheOK(cache') /\ cache'.usedCache = cache.usedCache
      /\ cache'.unusedCache = cache.unusedCache /\ cache'.cachePnt = p
      /\ cache'.wbOut = w /\ cache'.head = hd /\ cache'.tail = cache.tail
      /\ cache'.wbEv = "comp" /\ cache'.curFetching = cache.curFetching
      /\ cache'.fetchEv = cache.fetchEv
  BY <1>0, Basics, Zenon DEF CacheOK, CacheType, Stage
<1>2. /\ w \in Nat /\ hd \in Slot /\ n \in Nat /\ l \in Nat /\ h \in Nat /\ x \in Nat
      /\ p \in Slot /\ ready \in Nat /\ drv.rx_id \in Slot /\ visHead \in Slot
  BY Basics
<1>3. vis = 0 /\ visHead = hd /\ filled = n
  <2>1. vis = 0
    BY <1>0 DEF vis
  <2>2. Advance(hd, 0) = hd
    <3> HIDE DEF hd
    <3> QED
      BY <1>2 DEF Advance
  <2>3. n - 0 = n
    <3> HIDE DEF n
    <3> QED
      BY <1>2
  <2> QED
    BY <2>1, <2>2, <2>3 DEF visHead, filled, descUsed
<1>4. /\ w <= n /\ hd + w <= RingLen
      /\ h + 1 + ready + n + l + x = RingLen
      /\ cache.curFetching <= x
      /\ drv.rx_id = Advance(cache.tail, h + 1)
      /\ p = Advance(hd, n + l)
      /\ \A i \in 1 .. n : cache.usedCache[i].slot = Advance(hd, i - 1)
      /\ \A i \in 1 .. l : cache.unusedCache[i].slot = Advance(hd, n + i - 1)
  <2>1. /\ \A i \in 1 .. n : cache.usedCache[i].slot = Advance(hd, i - 0 - 1)
        /\ w <= n /\ hd + w <= RingLen
    BY <1>3 DEF IInv, AssertsHold, DescriptorOwnership, descUsed, descUnused
  <2>2. \A i \in 1 .. n : i - 0 - 1 = i - 1
    <3> HIDE DEF n
    <3> QED
      BY <1>2
  <2> QED
    BY <2>1, <2>2, <1>3, Zenon DEF IInv, DescriptorOwnership, descUsed, descUnused
<1>5. /\ \A j \in Slot : ring[j] <=> Dist(drv.rx_id, j) < ready
      /\ \A i \in 1 .. n : cache.usedCache[i].dd
      /\ \A i \in 1 .. l : ~ cache.unusedCache[i].dd
      /\ ring \in [Slot -> BOOLEAN]
  BY DEF IInv, TypeOK, DDExact, descUsed, descUnused
<1>6. ready = Dist(drv.rx_id, hd)
  BY <1>3 DEF ready
<1>7. \A j \in Slot : written(j) <=> (hd <= j /\ j < hd + w)
  <2>1. \A k \in 1 .. w : WbSlots(cache)[k] = hd + k - 1
    BY DEF WbSlots
  <2>2. \A j \in Slot : (hd <= j /\ j < hd + w) => j - hd + 1 \in 1 .. w /\ hd + (j - hd + 1) - 1 = j
    <3> HIDE DEF hd, w
    <3> QED
      BY <1>2
  <2>3. \A j \in Slot : \A k \in 1 .. w : hd + k - 1 = j => hd <= j /\ j < hd + w
    <3> HIDE DEF hd, w
    <3> QED
      BY <1>2
  <2> HIDE DEF hd, w
  <2> QED
    BY <2>1, <2>2, <2>3
<1> HIDE DEF written
<1>8. vis' = w /\ visHead' = Advance(hd, w) /\ filled' = n - w
  BY <1>1 DEF vis, visHead, filled, descUsed
<1> HIDE DEF w, hd, n, l, h, p, x
<1>9. ready + w < RingLen /\ Advance(hd, w) \in Slot
  <2>1. ready + w < RingLen /\ w \in 0 .. RingLen
    BY <1>2, <1>4
  <2> QED
    BY <2>1, <1>2, AdvanceType
<1>10. ready' = ready + w
  <2>1. Dist(drv.rx_id, Advance(hd, w)) = Dist(drv.rx_id, hd) + w
    BY <1>2, <1>6, <1>9, DistPlus
  <2> QED
    BY <2>1, <1>0, <1>6, <1>8 DEF ready
<1>11. ready' + filled' = ready + n
  BY <1>2, <1>8, <1>10
<1>12. \A k \in Nat : w + k <= RingLen => Advance(Advance(hd, w), k) = Advance(hd, w + k)
  BY <1>2, AdvancePlus
<1>13. p = Advance(visHead', (n - w) + l)
  <2>1. (n - w) + l \in Nat /\ w + ((n - w) + l) = n + l /\ n + l <= RingLen
    BY <1>2, <1>4
  <2> QED
    BY <2>1, <1>4, <1>8, <1>12
<1>14. ASSUME NEW i \in w + 1 .. n
       PROVE  cache.usedCache[i].slot = Advance(visHead', i - w - 1)
  <2>1. i - w - 1 \in Nat /\ w + (i - w - 1) = i - 1 /\ i - 1 <= RingLen /\ i \in 1 .. n
    BY <1>2, <1>4
  <2> QED
    BY <2>1, <1>4, <1>8, <1>12
<1>15. ASSUME NEW i \in 1 .. l
       PROVE  cache.unusedCache[i].slot = Advance(visHead', (n - w) + i - 1)
  <2>1. /\ (n - w) + i - 1 \in Nat /\ w + ((n - w) + i - 1) = n + i - 1
        /\ n + i - 1 <= RingLen
    BY <1>2, <1>4
  <2> QED
    BY <2>1, <1>4, <1>8, <1>12
<1>16. DescriptorOwnership'
  <2>1. h + 1 + (ready + w) + (n - w) + l + x = RingLen
    BY <1>2, <1>4
  <2> QED
    BY <2>1, <1>0, <1>1, <1>4, <1>8, <1>10, <1>13, <1>14, <1>15, Zenon
       DEF DescriptorOwnership, descUsed, descUnused, w, hd, n, l, h, p, x
<1>17. ASSUME NEW j \in Slot
       PROVE  /\ ring'[j] <=> Dist(drv.rx_id, j) < ready + w
              /\ ring'[j] \in BOOLEAN
  <2>1. Dist(drv.rx_id, j) < ready + w
          <=> (Dist(drv.rx_id, j) < ready \/ (hd <= j /\ j < hd + w))
    BY <1>2, <1>4, <1>6, <1>9, WbWindow, SMTT(30)
  <2>2. CASE written(j)
    <3>1. j - hd + 1 \in 1 .. n
      BY <2>2, <1>2, <1>4, <1>7
    <3>2. ring'[j] = cache.usedCache[j - hd + 1].dd
      BY <2>2, <1>0 DEF w, hd
    <3>3. cache.usedCache[j - hd + 1].dd \in BOOLEAN
      <4>1. cache.usedCache \in Seq(Desc)
        BY <1>1 DEF CacheOK, CacheType
      <4>2. \A u \in Seq(Desc) : \A k \in 1 .. Len(u) : u[k] \in Desc
        OBVIOUS
      <4>5. \A e \in Desc : e.dd \in BOOLEAN
        BY DEF Desc
      <4> DEFINE k == j - hd + 1
      <4>3. k \in 1 .. Len(cache.usedCache)
        BY <3>1 DEF n
      <4> HIDE DEF k
      <4>4. cache.usedCache[k].dd \in BOOLEAN
        BY <4>1, <4>2, <4>3, <4>5
      <4> QED
        BY <4>4 DEF k
    <3> QED
      BY <3>1, <3>2, <3>3, <2>1, <2>2, <1>5, <1>7
  <2>3. CASE ~ written(j)
    <3>1. ring'[j] = ring[j]
      BY <2>3, <1>0 DEF w, hd
    <3> QED
      BY <3>1, <2>1, <2>3, <1>5, <1>7
  <2> QED
    BY <2>2, <2>3
<1>18. DDExact' /\ ring' \in [Slot -> BOOLEAN]
  <2>1. ring' = [i \in Slot |-> ring'[i]]
    BY <1>0
  <2>2. ring' \in [Slot -> BOOLEAN]
    BY <2>1, <1>17
  <2> QED
    BY <2>2, <1>0, <1>1, <1>5, <1>10, <1>17 DEF DDExact, descUsed, descUnused, n, l
<1>19. FrameOrder'
  <2>1. ready + filled = ready + n
    BY <1>3
  <2> QED
    BY <2>1, <1>0, <1>1, <1>11 DEF IInv, FrameOrder
<1>20. /\ port' \in DrainState /\ mgr' \in MgrType
       /\ mgr'.count = Waiting(sm'.drain, port') /\ mgr'.state = mgr.state
  BY <1>0, RespOK
<1>21. TypeOK'
  BY <1>0, <1>1, <1>18, <1>20, Zenon DEF IInv, TypeOK, CacheOK, MgrType
<1>22. DmaFlags'
  BY <1>0, <1>20 DEF IInv, DmaFlags
<1>23. AssertsHold'
  <2>1. pktEv' # "idle" => descUnused(cache') > 0
    BY <1>0, <1>1 DEF IInv, AssertsHold, descUnused
  <2> QED
    BY <2>1, <1>1, <1>20, Zenon DEF AssertsHold, CacheOK, Waiting, descUsed, descUnused
<1> QED
  BY <1>16, <1>18, <1>19, <1>21, <1>22, <1>23 DEF IInv

\* What SubSeq keeps when a writeback's descriptors are popped (usedCache.pop_front).
LEMMA PopFacts ==
    ASSUME NEW q \in Seq(Desc), NEW w \in Nat, w <= Len(q)
    PROVE  /\ SubSeq(q, w + 1, Len(q)) \in Seq(Desc)
           /\ Len(SubSeq(q, w + 1, Len(q))) = Len(q) - w
           /\ \A i \in 1 .. Len(q) - w : SubSeq(q, w + 1, Len(q))[i] = q[w + i]
<1>1. Len(q) \in Nat
  OBVIOUS
<1> DEFINE n == Len(q)
           t == SubSeq(q, w + 1, n)
<1>2. t = [i \in 1 .. n - w |-> q[w + i]]
  <2>1. t = [i \in 1 .. n - (w + 1) + 1 |-> q[i + (w + 1) - 1]]
    OBVIOUS
  <2>2. n - (w + 1) + 1 = n - w /\ \A i \in 1 .. n - w : i + (w + 1) - 1 = w + i
    <3> HIDE DEF n
    <3> QED
      BY <1>1 DEF n
  <2> HIDE DEF t, n
  <2> QED
    BY <2>1, <2>2
<1>3. n - w \in Nat /\ \A i \in 1 .. n - w : w + i \in 1 .. n
  <2> HIDE DEF n
  <2> QED
    BY <1>1 DEF n
<1>4. \A i \in 1 .. n - w : q[w + i] \in Desc
  BY <1>3
<1> HIDE DEF t, n
<1>5. t \in [1 .. n - w -> Desc]
  BY <1>2, <1>4
<1>6. \A m \in Nat : \A b \in [1 .. m -> Desc] : b \in Seq(Desc) /\ Len(b) = m
  OBVIOUS
<1>7. t \in Seq(Desc) /\ Len(t) = n - w
  BY <1>3, <1>5, <1>6
<1> QED
  BY <1>2, <1>7 DEF t, n

\* The writeback's completion event pops the used descriptors and moves RDH.
LEMMA WbEventCache ==
    ASSUME IInv, wbEvent
    PROVE  /\ CacheOK(cache')
           /\ cache'.usedCache = SubSeq(cache.usedCache, vis + 1, Len(cache.usedCache))
           /\ cache'.unusedCache = cache.unusedCache
           /\ cache'.cachePnt = cache.cachePnt
           /\ cache'.head = visHead /\ cache'.tail = cache.tail
           /\ cache'.wbEv # "comp"
           /\ CacheOK(wbComplete(cache))
<1> DEFINE u == SubSeq(cache.usedCache, cache.wbOut + 1, Len(cache.usedCache))
           c1 == [cache EXCEPT !.usedCache = u, !.head = Advance(cache.head, cache.wbOut),
                               !.wbOut = 0, !.wbEv = "idle"]
           c2 == [c1 EXCEPT !.moreToWb = FALSE]
           c == wbComplete(cache)
<1>1. cache.wbEv = "comp" /\ \E b \in BOOLEAN : cache' = fetchIf(b, c)
  BY Zenon DEF wbEvent
<1>2. vis = cache.wbOut /\ visHead = Advance(cache.head, cache.wbOut)
  BY <1>1, SMTT(30) DEF vis, visHead
<1>3. /\ CacheOK(cache) /\ visHead \in Slot /\ cache.wbOut \in Nat
      /\ cache.usedCache \in Seq(Desc) /\ cache.wbOut <= Len(cache.usedCache)
      /\ Len(cache.usedCache) \in Nat /\ Len(cache.unusedCache) \in Nat
      /\ cache.curFetching \in Nat /\ cache.wbAlignment \in Mask
      /\ Len(cache.usedCache) + Len(cache.unusedCache) + cache.curFetching <= CacheSize
  BY Basics, SMTT(30) DEF CacheOK, CacheType
<1>4. u \in Seq(Desc) /\ Len(u) = Len(cache.usedCache) - cache.wbOut
  BY <1>3, PopFacts
<1>5. Len(u) \in Nat /\ Len(u) + Len(cache.unusedCache) + cache.curFetching <= CacheSize
  <2> DEFINE n == Len(cache.usedCache)
             l == Len(cache.unusedCache)
             f == cache.curFetching
             w == cache.wbOut
             m == Len(u)
  <2>1. /\ n \in Nat /\ l \in Nat /\ f \in Nat /\ w \in Nat /\ w <= n
        /\ n + l + f <= CacheSize /\ m = n - w
    BY <1>3, <1>4, Zenon
  <2> HIDE DEF n, l, f, w, m
  <2>2. m \in Nat /\ m + l + f <= CacheSize
    BY <2>1
  <2> QED
    BY <2>2, Zenon DEF n, l, f, w, m
<1> HIDE DEF u
<1>6. ASSUME NEW d, d = c1 \/ d = c2
      PROVE  /\ CacheOK(d) /\ d.usedCache = u /\ d.unusedCache = cache.unusedCache
             /\ d.cachePnt = cache.cachePnt /\ d.head = visHead /\ d.tail = cache.tail
             /\ d.wbEv = "idle"
  <2>1. /\ d.usedCache = u /\ d.unusedCache = cache.unusedCache
        /\ d.cachePnt = cache.cachePnt /\ d.head = visHead /\ d.tail = cache.tail
        /\ d.wbEv = "idle" /\ d.wbOut = 0 /\ d.curFetching = cache.curFetching
        /\ d.fetchEv = cache.fetchEv
    BY <1>2, <1>3, <1>6, Zenon DEF CacheOK, CacheType
  <2>2. d \in CacheType
    <3>1. \A e \in CacheType : \A a \in Seq(Desc), i \in Slot :
             [e EXCEPT !.usedCache = a, !.head = i, !.wbOut = 0, !.wbEv = "idle"] \in CacheType
      BY Zenon DEF CacheType, Stage
    <3>2. cache \in CacheType /\ Advance(cache.head, cache.wbOut) \in Slot
      BY <1>2, <1>3 DEF CacheOK
    <3>3. c1 \in CacheType
      BY <3>1, <3>2, <1>4, Zenon
    <3>4. \A e \in CacheType : [e EXCEPT !.moreToWb = FALSE] \in CacheType
      BY Zenon DEF CacheType
    <3> HIDE DEF c1
    <3> QED
      BY <3>3, <3>4, <1>6
  <2>3. d.wbOut <= Len(d.usedCache) /\ d.head + d.wbOut <= RingLen
    BY <2>1, <1>3, <1>5
  <2> QED
    BY <2>1, <2>2, <2>3, <1>3, <1>5 DEF CacheOK
<1>7. PICK d : /\ d = c1 \/ d = c2
               /\ CacheOK(c) /\ SameDescs(d, c)
  <2>1. CASE cache.moreToWb
    <3>1. c = writeback(c2, cache.wbAlignment)
      BY <2>1 DEF wbComplete, u
    <3>2. CacheOK(c2)
      BY <1>6
    <3> HIDE DEF c2, c
    <3> QED
      BY <3>1, <3>2, <1>3, WritebackOK
  <2>2. CASE ~ cache.moreToWb
    <3>1. c = c1
      BY <2>2 DEF wbComplete, u
    <3>2. CacheOK(c1)
      BY <1>6
    <3> HIDE DEF c1, c
    <3> QED
      BY <3>1, <3>2 DEF SameDescs
  <2> QED
    BY <2>1, <2>2
<1>8. /\ d.usedCache = u /\ d.unusedCache = cache.unusedCache
      /\ d.cachePnt = cache.cachePnt /\ d.head = visHead /\ d.tail = cache.tail
      /\ d.wbEv = "idle"
  BY <1>6, <1>7
<1> HIDE DEF c, c1, c2
<1>9. CacheOK(cache') /\ SameDescs(c, cache')
  BY <1>1, <1>7, FetchIfOK
<1>10. SameDescs(d, cache')
  BY <1>7, <1>9, SameDescsTrans
<1>11. CacheOK(wbComplete(cache))
  BY Zenon, <1>7 DEF c
<1>12. /\ cache'.usedCache = SubSeq(cache.usedCache, vis + 1, Len(cache.usedCache))
       /\ cache'.unusedCache = cache.unusedCache
       /\ cache'.cachePnt = cache.cachePnt
       /\ cache'.head = visHead /\ cache'.tail = cache.tail
       /\ cache'.wbEv # "comp"
  BY <1>2, <1>8, <1>10 DEF SameDescs, u
<1> QED
  BY Zenon, <1>9, <1>11, <1>12

\* The completion event of a writeback, its follow-up and fetchAfterWb().
LEMMA WbEventStep == IInv /\ wbEvent => IInv'
<1> SUFFICES ASSUME IInv, wbEvent PROVE IInv'
  OBVIOUS
<1> DEFINE q == cache.usedCache
           n == Len(q)
           t == SubSeq(q, vis + 1, n)
<1>0. /\ UNCHANGED <<rxFifo, pktPtr, pktEv, pktDone, rxDmaPacket, ring, buf, drv,
                     delivered, port, accepted>>
      /\ mgr.state # "Drained"
      /\ mgr' = signalDrainDone(mgr, sm.drain, sm'.drain)
      /\ sm' = sm \/ \E c : sm' = checkDrain(sm, c, pktEv)
  BY DEF wbEvent, host, simulating
<1>1. /\ CacheOK(cache') /\ cache'.usedCache = t
      /\ cache'.unusedCache = cache.unusedCache
      /\ cache'.cachePnt = cache.cachePnt
      /\ cache'.head = visHead /\ cache'.tail = cache.tail
      /\ cache'.wbEv # "comp"
  BY WbEventCache
<1>2. /\ q \in Seq(Desc) /\ vis \in Nat /\ vis <= n /\ n \in Nat /\ visHead \in Slot
      /\ filled = n - vis
  BY Basics DEF CacheOK, CacheType
<1>3. Len(t) = n - vis /\ \A i \in 1 .. n - vis : t[i] = q[vis + i]
  BY <1>2, PopFacts
<1>4. vis' = 0 /\ visHead' = visHead
  <2>1. vis' = 0
    BY <1>1 DEF vis
  <2>2. Advance(visHead, 0) = visHead
    BY <1>2 DEF Advance
  <2> QED
    BY <2>1, <2>2, <1>1 DEF visHead
<1>5. ready' = ready /\ filled' = filled /\ Len(t) - 0 = Len(t)
  <2>1. Len(t) - 0 = Len(t)
    <3> HIDE DEF t, n
    <3> QED
      BY <1>2, <1>3
  <2> QED
    BY <2>1, <1>0, <1>1, <1>2, <1>3, <1>4 DEF ready, filled, descUsed
<1>6. \A i \in vis + 1 .. n : /\ q[i].slot = Advance(visHead, i - vis - 1)
                              /\ q[i].dd
  <2>1. \A i \in 1 .. n : q[i].dd
    BY DEF IInv, DDExact, descUsed
  <2>2. \A i \in vis + 1 .. n : q[i].slot = Advance(visHead, i - vis - 1)
    BY DEF IInv, DescriptorOwnership, descUsed
  <2> HIDE DEF q, n
  <2> QED
    BY <2>1, <2>2, <1>2
<1> HIDE DEF t, q, n
<1>7. ASSUME NEW i \in 1 .. Len(t)
      PROVE  t[i].slot = Advance(visHead, i - 0 - 1) /\ t[i].dd
  <2>1. /\ vis + i \in vis + 1 .. n /\ (vis + i) - vis - 1 = i - 0 - 1
        /\ i \in 1 .. n - vis
    BY <1>2, <1>3
  <2> QED
    BY <2>1, <1>3, <1>6
<1>8. Len(t) \in Nat /\ 0 + 1 .. Len(t) = 1 .. Len(t)
  BY <1>2, <1>3, SMTT(30)
<1>9. DescriptorOwnership'
  <2>1. cache'.curFetching <= Dist(cache.cachePnt, cache.tail)
    BY <1>1 DEF CacheOK
  <2> QED
    BY <2>1, <1>0, <1>1, <1>4, <1>5, <1>7, <1>8
       DEF IInv, DescriptorOwnership, descUsed, descUnused
<1>10. DDExact'
  BY <1>0, <1>1, <1>5, <1>7, Zenon DEF IInv, DDExact, descUsed, descUnused
<1>11. FrameOrder'
  BY <1>0, <1>1, <1>5, Zenon DEF IInv, FrameOrder
<1>12. sm' \in SmType /\ DrainStep(sm.drain, sm'.drain)
  <2>1. sm \in SmType
    BY DEF IInv, TypeOK, SmType
  <2> QED
    BY <2>1, <1>0, CheckDrainOK DEF DrainStep
<1>13. /\ mgr' \in MgrType /\ mgr'.state = mgr.state
       /\ mgr'.count = Waiting(sm'.drain, port')
  BY <1>0, <1>12, EventOK, SMTT(30)
<1>14. TypeOK'
  BY <1>0, <1>1, <1>12, <1>13 DEF IInv, TypeOK, CacheOK, SmType, MgrType
<1>15. DmaFlags'
  BY <1>0, <1>13 DEF IInv, DmaFlags
<1>16. AssertsHold'
  <2>1. pktEv' # "idle" => descUnused(cache') > 0
    BY <1>0, <1>1 DEF IInv, AssertsHold, descUnused
  <2> QED
    BY <2>1, <1>1, <1>13, SMTT(30) DEF AssertsHold, CacheOK, Waiting, descUsed, descUnused
<1> QED
  BY <1>9, <1>10, <1>11, <1>14, <1>15, <1>16 DEF IInv

\* The driver takes the first ready descriptor, returns its frame and re-arms it.
LEMMA RecvDescStep == IInv /\ recvDesc => IInv'
<1> SUFFICES ASSUME IInv, recvDesc PROVE IInv'
  OBVIOUS
<1> DEFINE a == drv.rx_id
           h == drv.nb_hold
           r == ready
           m == ready + filled
           n == Len(delivered)
           l == Len(cache.unusedCache)
           x == Dist(cache.cachePnt, cache.tail)
<1>0. /\ UNCHANGED <<cache, rxFifo, pktPtr, pktEv, pktDone, rxDmaPacket, sm, port, mgr, accepted>>
      /\ mgr.state # "Drained" /\ ring[a]
      /\ delivered' = Append(delivered, buf[a])
      /\ ring' = [ring EXCEPT ![a] = FALSE]
      /\ buf' = [buf EXCEPT ![a] = 0]
      /\ drv' = [rx_id |-> IF a + 1 = RingLen THEN 0 ELSE a + 1,
                 nb_hold |-> h + 1, nb_rx |-> drv.nb_rx + 1]
  BY DEF recvDesc, nic, drainVars, simulating
<1>1. /\ a \in Slot /\ h \in Nat /\ drv.nb_rx \in Nat /\ r \in Nat /\ filled \in Nat
      /\ visHead \in Slot /\ cache.tail \in Slot /\ l \in Nat /\ x \in Nat
      /\ delivered \in Seq(Nat) /\ n \in Nat
  BY Basics, SMTT(30)
<1>2. /\ ring \in [Slot -> BOOLEAN] /\ buf \in [Slot -> Nat]
      /\ \A s \in Slot : ring[s] <=> Dist(a, s) < r
      /\ h + 1 + r + filled + l + x = RingLen
      /\ a = Advance(cache.tail, h + 1)
      /\ r = Dist(a, visHead)
  BY SMTT(30) DEF IInv, TypeOK, DDExact, DescriptorOwnership, descUnused, ready
<1>24. h + 1 + r + filled + l + x = RingLen
  BY <1>2
<1>3. /\ drv'.rx_id = (IF a + 1 = RingLen THEN 0 ELSE a + 1) /\ drv'.nb_hold = h + 1
      /\ drv'.nb_rx = drv.nb_rx + 1
  BY <1>0
<1>4. vis' = vis /\ visHead' = visHead /\ filled' = filled
  BY <1>0 DEF vis, visHead, filled, descUsed
<1> HIDE DEF a, h, r, n, l, x
<1>5. drv'.rx_id = Advance(a, 1) /\ drv'.rx_id \in Slot
  BY <1>1, <1>3 DEF Advance
<1>6. Dist(a, a) = 0 /\ r > 0 /\ r < RingLen
  <2>1. Dist(a, a) = 0
    BY <1>1 DEF Dist
  <2>2. Dist(a, a) < r
    BY <1>0, <1>1, <1>2, Zenon
  <2>3. r < RingLen
    BY <1>1, <1>24
  <2> QED
    BY <2>1, <2>2, <2>3
<1>7. ready' = r - 1
  <2>1. 1 <= Dist(a, visHead)
    BY <1>1, <1>2, <1>6
  <2>2. Dist(Advance(a, 1), visHead) = Dist(a, visHead) - 1
    BY <2>1, <1>1, DistBack
  <2> QED
    BY <2>2, <1>2, <1>4, <1>5 DEF ready
<1>8. \A s \in Slot : /\ Dist(a, s) \in Nat /\ Dist(a, s) < RingLen
                      /\ s = a => Dist(drv'.rx_id, s) = RingLen - 1
                      /\ s # a => Dist(drv'.rx_id, s) = Dist(a, s) - 1
  BY <1>1, <1>5, DistStep, DistType, Zenon
<1>9. drv'.rx_id = Advance(cache.tail, (h + 1) + 1)
  <2>1. h + 1 \in Nat /\ 1 \in Nat /\ (h + 1) + 1 <= RingLen
    BY <1>1, <1>6, <1>24
  <2>2. Advance(Advance(cache.tail, h + 1), 1) = Advance(cache.tail, (h + 1) + 1)
    <3> DEFINE g == h + 1
    <3>1. g \in Nat /\ g + 1 <= RingLen
      BY <2>1
    <3> HIDE DEF g
    <3>2. Advance(Advance(cache.tail, g), 1) = Advance(cache.tail, g + 1)
      BY <3>1, <2>1, <1>1, AdvancePlus, SMTT(30)
    <3> QED
      BY <3>2 DEF g
  <2> QED
    BY <2>2, <1>2, <1>5
<1>10. DescriptorOwnership'
  <2>1. (h + 1) + 1 + (r - 1) + filled + l + x = RingLen
    BY <1>1, <1>2
  <2> QED
    BY <2>1, <1>0, <1>3, <1>4, <1>7, <1>9
       DEF IInv, DescriptorOwnership, descUsed, descUnused, l, x
<1>11. ring' \in [Slot -> BOOLEAN] /\ buf' \in [Slot -> Nat]
  BY <1>0, <1>1, <1>2, Zenon DEF a
<1>12. ASSUME NEW s \in Slot PROVE ring'[s] <=> Dist(drv'.rx_id, s) < r - 1
  <2> DEFINE e == Dist(drv'.rx_id, s)
             d == Dist(a, s)
  <2>1. CASE s = a
    <3>1. ring'[s] = FALSE
      BY <2>1, <1>0, <1>1, <1>2 DEF a
    <3>2. e = RingLen - 1
      BY <2>1, <1>8
    <3> HIDE DEF e
    <3>3. ~ (e < r - 1)
      BY <3>2, <1>1, <1>6
    <3> QED
      BY <3>1, <3>3 DEF e
  <2>2. CASE s # a
    <3>1. ring'[s] = ring[s]
      BY <2>2, <1>0, <1>2 DEF a
    <3>2. e = d - 1 /\ d \in Nat
      BY <2>2, <1>8
    <3>3. ring[s] <=> d < r
      BY <1>2
    <3> HIDE DEF e, d
    <3>4. d < r <=> e < r - 1
      BY <3>2, <1>1
    <3> QED
      BY <3>1, <3>3, <3>4 DEF e
  <2> QED
    BY <2>1, <2>2
<1>13. DDExact'
  BY <1>0, <1>7, <1>12 DEF IInv, DDExact, descUsed, descUnused
<1>14. /\ delivered' \in Seq(Nat) /\ Len(delivered') = n + 1
       /\ delivered'[n + 1] = buf[a]
       /\ \A i \in 1 .. n : delivered'[i] = delivered[i]
  <2> DEFINE b == buf[a]
  <2>1. b \in Nat /\ delivered' = Append(delivered, b)
    BY <1>0, <1>1, <1>2, Zenon DEF a
  <2> HIDE DEF b
  <2>2. \A q \in Seq(Nat), e \in Nat :
           /\ Append(q, e) \in Seq(Nat) /\ Len(Append(q, e)) = Len(q) + 1
           /\ Append(q, e)[Len(q) + 1] = e
           /\ \A i \in 1 .. Len(q) : Append(q, e)[i] = q[i]
    BY AppendProperties
  <2> QED
    BY <2>1, <2>2, <1>1 DEF n, b
<1>15. /\ \A i \in 1 .. n : delivered[i] = i
       /\ \A s \in Slot : Dist(a, s) < m => buf[s] = n + 1 + Dist(a, s)
       /\ pktEv # "idle" => pktPtr = n + m + 1
       /\ pktEv = "comp" => buf[Head(cache.unusedCache).slot] = pktPtr
       /\ \A i \in 1 .. Len(rxFifo) :
             rxFifo[i] = n + m + (IF pktEv = "idle" THEN 0 ELSE 1) + i
       /\ accepted = n + m + (IF pktEv = "idle" THEN 0 ELSE 1) + Len(rxFifo)
  BY DEF IInv, FrameOrder, n, a
<1>16. m \in Nat /\ m > 0 /\ m < RingLen
  <2>1. m = r + filled
    BY DEF r
  <2> HIDE DEF m
  <2> QED
    BY <2>1, <1>1, <1>6, <1>24
<1>17. ready' + filled' = m - 1
  <2>1. m = r + filled
    BY DEF r
  <2> HIDE DEF m
  <2> QED
    BY <2>1, <1>1, <1>4, <1>7
<1>18. \A i \in 1 .. n + 1 : delivered'[i] = i
  <2>1. buf[a] = n + 1
    BY <1>1, <1>6, <1>15, <1>16
  <2>2. \A i \in 1 .. n + 1 : i \in 1 .. n \/ i = n + 1
    BY <1>1
  <2> QED
    BY <2>1, <2>2, <1>14, <1>15
<1> HIDE DEF m
<1>19. ASSUME NEW s \in Slot, Dist(drv'.rx_id, s) < m - 1
       PROVE  buf'[s] = (n + 1) + 1 + Dist(drv'.rx_id, s)
  <2>1. s # a
    BY <1>8, <1>16, <1>19
  <2>2. buf'[s] = buf[s]
    BY <2>1, <1>0, <1>2 DEF a
  <2>3. Dist(drv'.rx_id, s) = Dist(a, s) - 1 /\ Dist(a, s) < m /\ Dist(a, s) \in Nat
    BY <2>1, <1>8, <1>16, <1>19
  <2>4. buf[s] = n + 1 + Dist(a, s)
    BY <2>3, <1>15
  <2> QED
    BY <2>2, <2>3, <2>4, <1>1
<1>20. pktEv = "comp" => buf'[Head(cache.unusedCache).slot] = pktPtr
  <2> SUFFICES ASSUME pktEv = "comp" PROVE buf'[Head(cache.unusedCache).slot] = pktPtr
    OBVIOUS
  <2> DEFINE t == Head(cache.unusedCache).slot
  <2>1. Len(cache.unusedCache) > 0
    BY DEF IInv, AssertsHold, descUnused
  <2>2. t \in Slot /\ Dist(a, t) = m
    BY <2>1, FirstUnused DEF a, m
  <2> HIDE DEF t
  <2>3. t # a
    BY <2>2, <1>6, <1>16
  <2>4. buf'[t] = buf[t]
    BY <2>2, <2>3, <1>0, <1>2 DEF a
  <2> QED
    BY <2>4, <1>15 DEF t
<1>21. FrameOrder'
  <2> DEFINE d == IF pktEv = "idle" THEN 0 ELSE 1
             k == Len(rxFifo)
  <2>1. d \in Nat /\ k \in Nat
    BY Basics
  <2>2. /\ \A i \in 1 .. k : rxFifo[i] = n + m + d + i
        /\ accepted = n + m + d + k
    BY <1>15
  <2> HIDE DEF d, k
  <2>3. /\ \A i \in 1 .. k : rxFifo[i] = (n + 1) + (m - 1) + d + i
        /\ accepted = (n + 1) + (m - 1) + d + k
    BY <2>1, <2>2, <1>1, <1>16
  <2>4. pktEv # "idle" => pktPtr = (n + 1) + (m - 1) + 1
    BY <1>1, <1>15, <1>16
  <2> QED
    BY <2>3, <2>4, <1>0, <1>14, <1>17, <1>18, <1>19, <1>20 DEF FrameOrder, d, k
<1>22. TypeOK'
  <2>1. drv' \in [rx_id : Slot, nb_hold : Nat, nb_rx : Nat]
    BY <1>0, <1>1, <1>3, <1>5
  <2> QED
    BY <2>1, <1>0, <1>11, <1>14, Zenon DEF IInv, TypeOK
<1>23. DmaFlags' /\ AssertsHold'
  BY <1>0, Zenon DEF IInv, DmaFlags, AssertsHold, descUsed, descUnused
<1> QED
  BY <1>10, <1>13, <1>21, <1>22, <1>23 DEF IInv

\* The tail that the write of RDT sets hands the held slots back and leaves the
\* cache well formed.
LEMMA RdtOK ==
    ASSUME IInv
    PROVE  /\ rdt \in Slot /\ drv.rx_id = Advance(rdt, 0 + 1)
           /\ 0 + 1 + ready + filled + Len(cache.unusedCache) + Dist(cache.cachePnt, rdt) = RingLen
           /\ CacheOK([cache EXCEPT !.tail = rdt])
<1> DEFINE c == [cache EXCEPT !.tail = rdt]
           a == drv.rx_id
           h == drv.nb_hold
           p == cache.cachePnt
           x == Dist(p, cache.tail)
           l == Len(cache.unusedCache)
           f == cache.curFetching
<1>0. CacheOK(cache)
  BY Basics
<1>1. /\ a \in Slot /\ h \in Nat /\ p \in Slot /\ x \in Nat /\ l \in Nat
      /\ ready \in Nat /\ filled \in Nat /\ cache.tail \in Slot /\ f \in Nat
  BY Basics
<1>2. /\ h + 1 + ready + filled + l + x = RingLen
      /\ a = Advance(cache.tail, h + 1) /\ f <= x
  BY DEF IInv, DescriptorOwnership, descUnused
<1>4. rdt = (IF a = 0 THEN RingLen - 1 ELSE a - 1)
  BY DEF rdt
<1>5. rdt \in Slot /\ a = Advance(rdt, 0 + 1) /\ Dist(p, rdt) = x + h
  <2> HIDE DEF a, h, p, l
  <2>1. rdt \in Slot /\ a = Advance(rdt, 0 + 1)
    BY <1>1, <1>4 DEF Advance
  <2>2. rdt = Advance(cache.tail, h)
    <3>1. h + 1 <= RingLen
      <4> HIDE DEF x, f
      <4> QED
        BY <1>1, <1>2
    <3> DEFINE t == cache.tail
    <3>2. a = Advance(t, h + 1) /\ t \in Slot
      BY <1>1, <1>2
    <3> HIDE DEF t
    <3>3. rdt = Advance(t, h)
      BY <3>1, <3>2, <1>1, <1>4 DEF Advance
    <3> QED
      BY <3>3 DEF t
  <2>3. x + h < RingLen
    <3> HIDE DEF x, f
    <3> QED
      BY <1>1, <1>2
  <2>4. Dist(p, Advance(cache.tail, h)) = Dist(p, cache.tail) + h
    BY <2>3, <1>1, DistPlus
  <2> QED
    BY <2>1, <2>2, <2>4
<1>6. /\ c.usedCache = cache.usedCache /\ c.unusedCache = cache.unusedCache
      /\ c.cachePnt = p /\ c.head = cache.head /\ c.tail = rdt
      /\ c.wbOut = cache.wbOut /\ c.wbEv = cache.wbEv /\ c.curFetching = f
      /\ c.fetchEv = cache.fetchEv /\ c \in CacheType
  BY <1>5, <1>0, Zenon DEF CacheOK, CacheType
<1>7. f <= Dist(p, rdt) /\ 0 + 1 + ready + filled + l + Dist(p, rdt) = RingLen
  <2> HIDE DEF a, h, p, x, l, f
  <2> QED
    BY <1>1, <1>2, <1>5
<1>8. CacheOK(c)
  <2> HIDE DEF c
  <2> QED
    BY <1>6, <1>7, <1>0, Zenon DEF CacheOK
<1> HIDE DEF c
<1> QED BY Zenon, <1>5, <1>7, <1>8 DEF a, p, l, c

\* The end of eth_em_recv_pkts: the write of RDT hands the held slots back.
LEMMA RecvEndStep == IInv /\ recvEnd => IInv'
<1> SUFFICES ASSUME IInv, recvEnd PROVE IInv'
  OBVIOUS
<1>0. /\ UNCHANGED <<rxFifo, pktPtr, pktEv, pktDone, rxDmaPacket, sm, ring, buf,
                     delivered, port, mgr, accepted>>
      /\ mgr.state # "Drained"
  BY DEF recvEnd, drainVars, simulating
<1>1. /\ CacheOK(cache) /\ drv.rx_id \in Slot /\ drv.nb_hold \in Nat
      /\ drv \in [rx_id : Slot, nb_hold : Nat, nb_rx : Nat]
  BY Basics DEF IInv, TypeOK
<1>2. mgr.count = Waiting(sm.drain, port)
  BY DEF IInv, AssertsHold, Waiting
<1>3. CASE UNCHANGED cache /\ drv' = [drv EXCEPT !.nb_rx = 0]
  <2>1. CacheOK(cache') /\ SameDescs(cache, cache')
    BY <1>1, <1>3 DEF SameDescs
  <2>2. /\ drv' \in [rx_id : Slot, nb_hold : Nat, nb_rx : Nat]
        /\ drv'.rx_id = drv.rx_id /\ drv'.nb_hold = drv.nb_hold
    BY <1>1, <1>3
  <2>3. FrameOrder' /\ (pktEv' # "idle" => descUnused(cache') > 0)
    BY <2>1, <2>2, <1>0, QuietFrames
  <2>4. TypeOK' /\ DmaFlags'
    BY <2>2, <1>0, <1>3, Zenon DEF IInv, TypeOK, DmaFlags
  <2> QED
    BY <2>1, <2>2, <2>3, <2>4, <1>0, <1>2, QuietIInv
<1>4. CASE /\ drv.nb_hold > RxFreeThresh
           /\ cache' = fetchIf(sm.drain = "Running", [cache EXCEPT !.tail = rdt])
           /\ drv' = [drv EXCEPT !.nb_hold = 0, !.nb_rx = 0]
  <2> DEFINE c == [cache EXCEPT !.tail = rdt]
             a == drv.rx_id
             p == cache.cachePnt
             l == Len(cache.unusedCache)
  <2>3. /\ drv' \in [rx_id : Slot, nb_hold : Nat, nb_rx : Nat]
        /\ drv'.rx_id = a /\ drv'.nb_hold = 0
    BY <1>1, <1>4, Zenon
  <2>5. rdt \in Slot /\ a = Advance(rdt, 0 + 1)
    BY Zenon, RdtOK
  <2>6. /\ c.usedCache = cache.usedCache /\ c.unusedCache = cache.unusedCache
        /\ c.cachePnt = p /\ c.head = cache.head /\ c.tail = rdt
        /\ c.wbOut = cache.wbOut /\ c.wbEv = cache.wbEv
    BY <2>5, <1>1, Zenon DEF CacheOK, CacheType
  <2>7. 0 + 1 + ready + filled + l + Dist(p, rdt) = RingLen
    BY Zenon, RdtOK
  <2>8. CacheOK(c)
    BY Zenon, RdtOK
  <2> HIDE DEF c
  <2>9. CacheOK(cache') /\ SameDescs(c, cache')
    BY <2>8, <1>4, FetchIfOK DEF c
  <2>10. /\ cache'.usedCache = cache.usedCache /\ cache'.unusedCache = cache.unusedCache
         /\ cache'.cachePnt = p /\ cache'.head = cache.head /\ cache'.tail = rdt
         /\ cache'.wbEv = "comp" <=> cache.wbEv = "comp"
         /\ cache.wbEv = "comp" => cache'.wbOut = cache.wbOut
    BY <2>6, <2>9 DEF SameDescs
  <2>11. vis' = vis
    BY <2>10 DEF vis
  <2>12. visHead' = visHead /\ filled' = filled
    BY <2>10, <2>11 DEF visHead, filled, descUsed
  <2>13. ready' = ready
    BY <2>3, <2>12, SMTT(30) DEF ready
  <2>14. DescriptorOwnership'
    <3>1. cache'.curFetching <= Dist(p, rdt)
      BY <2>9, <2>10, SMTT(30) DEF CacheOK
    <3> QED
      BY <3>1, <2>3, <2>5, <2>7, <2>10, <2>11, <2>12, <2>13, Zenon
         DEF IInv, DescriptorOwnership, descUsed, descUnused
  <2>15. DDExact' /\ FrameOrder'
    BY <1>0, <2>3, <2>10, <2>12, <2>13, Zenon DEF IInv, DDExact, FrameOrder, descUsed, descUnused
  <2>16. TypeOK' /\ DmaFlags'
    BY <2>3, <2>9, <1>0 DEF IInv, TypeOK, DmaFlags, CacheOK
  <2>17. AssertsHold'
    <3>1. pktEv' # "idle" => descUnused(cache') > 0
      BY <1>0, <2>10 DEF IInv, AssertsHold, descUnused
    <3> QED
      BY <3>1, <2>9, <1>0, <1>2, Zenon DEF AssertsHold, CacheOK, Waiting, descUsed, descUnused
  <2> QED
    BY <2>14, <2>15, <2>16, <2>17 DEF IInv
<1> QED
  BY <1>3, <1>4 DEF recvEnd

-----------------------------------------------------------------------------
(* The invariant                                                           *)

\* eth_em_rx_init leaves a state that satisfies the invariant.
LEMMA InitIInv == Init => IInv
<1> SUFFICES ASSUME Init PROVE IInv
  OBVIOUS
<1> DEFINE c == [EmptyCache EXCEPT !.tail = RingLen - 1]
<1>1. /\ c.usedCache = <<>> /\ c.unusedCache = <<>> /\ c.cachePnt = 0 /\ c.curFetching = 0
      /\ c.fetchEv = "idle" /\ c.wbOut = 0 /\ c.wbEv = "idle" /\ c.head = 0
      /\ c.tail = RingLen - 1
  BY DEF EmptyCache
<1>2. c \in CacheType
  <2>1. <<>> \in Seq(Desc) /\ 0 \in Slot /\ RingLen - 1 \in Slot /\ 0 \in Nat
    OBVIOUS
  <2>2. 0 \in Mask /\ "idle" \in Stage /\ FALSE \in BOOLEAN
    BY DEF Mask, Stage
  <2>3. EmptyCache \in CacheType
    BY <2>1, <2>2 DEF EmptyCache, CacheType
  <2>4. \A e \in CacheType : \A i \in Slot : [e EXCEPT !.tail = i] \in CacheType
    BY Zenon DEF CacheType
  <2> QED
    BY <2>1, <2>3, <2>4
<1>3. Dist(0, RingLen - 1) = RingLen - 1 /\ Dist(0, 0) = 0 /\ Advance(0, 0) = 0
      /\ Advance(RingLen - 1, 0 + 1) = 0 /\ 0 \in Slot
  BY DEF Dist, Advance
<1>4. CacheOK(c)
  <2> HIDE DEF c
  <2>1. Len(c.usedCache) = 0 /\ Len(c.unusedCache) = 0
    BY <1>1
  <2>2. 0 <= 0 /\ 0 + 0 <= RingLen /\ 0 + 0 + 0 <= CacheSize /\ 0 <= RingLen - 1
    OBVIOUS
  <2> QED
    BY <2>1, <2>2, <1>1, <1>2, <1>3 DEF CacheOK
<1>5. cache = fetchDescriptors(c)
  BY DEF Init
<1> HIDE DEF c
<1>6. CacheOK(cache) /\ SameDescs(c, cache)
  BY <1>4, <1>5, FetchOK
<1>7. /\ cache.usedCache = <<>> /\ cache.unusedCache = <<>> /\ cache.cachePnt = 0
      /\ cache.head = 0 /\ cache.tail = RingLen - 1 /\ cache.wbEv # "comp"
  BY <1>1, <1>6 DEF SameDescs
<1>8. vis = 0 /\ filled = 0 /\ visHead = 0
  BY <1>3, <1>7 DEF vis, filled, visHead, descUsed
<1>9. drv.rx_id = 0 /\ drv.nb_hold = 0
  BY DEF Init
<1>10. ready = 0
  BY <1>3, <1>8, <1>9 DEF ready
<1>11. TypeOK
  <2>1. cache \in CacheType /\ rxFifo \in Seq(Nat) /\ Len(rxFifo) <= FifoSize
    BY <1>6 DEF Init, CacheOK
  <2>2. /\ sm \in [rxTick : BOOLEAN, tickEvent : BOOLEAN, drain : DrainState]
        /\ port \in DrainState /\ mgr \in [state : DrainState, count : Nat]
    BY DEF Init, DrainState
  <2>3. ring \in [Slot -> BOOLEAN] /\ buf \in [Slot -> Nat]
    BY DEF Init
  <2>4. drv \in [rx_id : Slot, nb_hold : Nat, nb_rx : Nat]
    BY <1>3 DEF Init
  <2>5. delivered \in Seq(Nat) /\ accepted \in Nat /\ pktPtr \in Nat
    BY DEF Init
  <2>6. pktEv = "idle" /\ pktDone = FALSE /\ rxDmaPacket = FALSE
    BY DEF Init
  <2> QED
    BY <2>1, <2>2, <2>3, <2>4, <2>5, <2>6, Zenon DEF TypeOK
<1>12. AssertsHold
  <2>1. /\ mgr.count = 0 /\ sm.drain = "Running" /\ port = "Running" /\ pktEv = "idle"
    BY DEF Init
  <2>2. 0 = 0 + 0
    OBVIOUS
  <2> QED
    BY <1>6, <2>1, <2>2, Zenon DEF AssertsHold, CacheOK, descUsed, descUnused
<1>13. DescriptorOwnership
  <2>1. cache.curFetching <= Dist(cache.cachePnt, cache.tail)
    BY <1>6 DEF CacheOK
  <2>2. 0 + 1 + 0 + 0 + 0 + (RingLen - 1) = RingLen
    OBVIOUS
  <2> QED
    BY <2>1, <2>2, <1>3, <1>7, <1>8, <1>9, <1>10 DEF DescriptorOwnership, descUsed, descUnused
<1>14. \A s \in Slot : ~ (Dist(0, s) < 0)
  BY DEF Dist
<1>15. DDExact
  <2>1. \A s \in Slot : ring[s] = FALSE
    BY DEF Init
  <2>2. Len(cache.usedCache) = 0 /\ Len(cache.unusedCache) = 0
    BY <1>7
  <2> QED
    BY <2>1, <2>2, <1>9, <1>10, <1>14 DEF DDExact, descUsed, descUnused
<1>16. FrameOrder
  BY <1>8, <1>9, <1>10, <1>14 DEF Init, FrameOrder
<1>17. DmaFlags
  BY DEF Init, DmaFlags
<1> QED
  BY <1>11, <1>12, <1>13, <1>15, <1>16, <1>17 DEF IInv

\* Every step of the card, the driver and the drain protocol keeps the invariant.
LEMMA NextIInv == IInv /\ [Next]_vars => IInv'
<1> SUFFICES ASSUME IInv, [Next]_vars PROVE IInv'
  OBVIOUS
<1>1. CASE Card
  BY <1>1, TickStep, IssueStep, FetchRespStep, WbRespStep, PktRespStep,
     FetchEventStep, WbEventStep, PktCompleteStep DEF Card
<1>2. CASE Driver
  BY <1>2, RecvDescStep, RecvEndStep DEF Driver
<1>3. CASE ethRxPkt
  BY <1>3, RxPktStep
<1>4. CASE tryDrain \/ drainResume \/ restore
  BY <1>4, DrainActionsStep
<1>5. CASE UNCHANGED vars
  <2>1. UNCHANGED <<cache, rxFifo, pktPtr, pktEv, pktDone, rxDmaPacket, sm, ring, buf, drv,
                    delivered, port, mgr, accepted>>
    BY <1>5, Zenon DEF vars, nic, host, drainVars
  <2>2. vis' = vis /\ visHead' = visHead /\ ready' = ready /\ filled' = filled
    <3>1. vis' = vis /\ visHead' = visHead
      BY <2>1, Zenon DEF vis, visHead
    <3> QED
      BY <2>1, <3>1, Zenon DEF ready, filled
  <2>3. TypeOK' /\ AssertsHold' /\ DmaFlags'
    BY <2>1, Zenon DEF IInv, TypeOK, AssertsHold, DmaFlags
  <2>4. DescriptorOwnership' /\ DDExact'
    BY <2>1, <2>2, Zenon DEF IInv, DescriptorOwnership, DDExact
  <2>5. FrameOrder'
    BY <2>1, <2>2, Zenon DEF IInv, FrameOrder
  <2> QED
    BY <2>3, <2>4, <2>5, Zenon DEF IInv
<1> QED
  BY <1>1, <1>2, <1>3, <1>4, <1>5 DEF Next, Work

\* The invariant of the receive path (rxStateMachine, DescCache, eth_em_recv_pkts
\* and the drain protocol together) holds in every reachable state.
THEOREM Invariance == Spec => []IInv
<1>1. Init => IInv
  BY InitIInv
<1>2. IInv /\ [Next]_vars => IInv'
  BY NextIInv
<1> QED
  BY <1>1, <1>2, PTL DEF Spec

-----------------------------------------------------------------------------
(* What follows from the invariant                                         *)

\* Type correctness of the receive path.
THEOREM TypeCorrect == Spec => []TypeOK
<1>1. IInv => TypeOK
  BY DEF IInv
<1> QED
  BY <1>1, Invariance, PTL

\* No assert() of the descriptor cache, the state machine or the DrainManager
\* (i8254xGBe.cc, sim/drain.cc) can fail on the receive path.
THEOREM NoAssertFails == Spec => []AssertsHold
<1>1. IInv => AssertsHold
  BY DEF IInv
<1> QED
  BY <1>1, Invariance, PTL

\* Card and driver never own the same slot of the ring, and none is lost: the
\* registers RDH and RDT, the two queues of the card, the transfers that are out
\* and the driver's nb_hold always account for the whole ring.
THEOREM RingOwnership == Spec => []DescriptorOwnership
<1>1. IInv => DescriptorOwnership
  BY DEF IInv
<1> QED
  BY <1>1, Invariance, PTL

\* The DD bits the driver polls are set for exactly the descriptors that hold a
\* frame it has not read.
THEOREM DDBits == Spec => []DDExact
<1>1. IInv => DDExact
  BY DEF IInv
<1> QED
  BY <1>1, Invariance, PTL

\* No frame the card accepted is lost, duplicated or reordered on its way through
\* FIFO, DMA, descriptor cache and ring, through drains and restores.
THEOREM FramesInOrder == Spec => []FrameOrder
<1>1. IInv => FrameOrder
  BY DEF IInv
<1> QED
  BY <1>1, Invariance, PTL

\* The state machine's flags agree with the frame DMA, and a drained card has no
\* transfer out that a checkpoint would lose.
THEOREM FlagsAgree == Spec => []DmaFlags
<1>1. IInv => DmaFlags
  BY DEF IInv
<1> QED
  BY <1>1, Invariance, PTL

\* ethRxPkt and recvDesc are the only steps that change what the channel shows.
LEMMA ChannelStep == IInv /\ [Next]_vars => [Channel!Next]_<<accepted, delivered>>
<1> SUFFICES ASSUME IInv, [Next]_vars
             PROVE  Channel!Next \/ UNCHANGED <<accepted, delivered>>
  OBVIOUS
<1>1. CASE ethRxPkt
  <2>1. accepted' = accepted + 1 \/ UNCHANGED accepted
    BY <1>1 DEF ethRxPkt
  <2>2. UNCHANGED delivered
    BY <1>1 DEF ethRxPkt, host
  <2> QED
    BY <2>1, <2>2 DEF Channel!Next, Channel!Accept
<1>2. CASE recvDesc
  <2> DEFINE n == Len(delivered)
             a == drv.rx_id
             k == Len(rxFifo)
             d == IF pktEv = "idle" THEN 0 ELSE 1
  <2>1. /\ a \in Slot /\ ready \in Nat /\ filled \in Nat /\ n \in Nat /\ k \in Nat
    BY Basics
  <2>2. /\ ring[a] <=> Dist(a, a) < ready
        /\ Dist(a, a) < ready + filled => buf[a] = n + 1 + Dist(a, a)
        /\ accepted = n + (ready + filled) + d + k
    BY <2>1 DEF IInv, DDExact, FrameOrder
  <2>3. ring[a] /\ delivered' = Append(delivered, buf[a]) /\ UNCHANGED accepted
    BY <1>2 DEF recvDesc
  <2>4. d \in Nat
    OBVIOUS
  <2> HIDE DEF n, a, k, d
  <2>5. Dist(a, a) = 0
    BY <2>1 DEF Dist
  <2>6. ready > 0 /\ buf[a] = n + 1 /\ n < accepted
    BY <2>1, <2>2, <2>3, <2>4, <2>5
  <2> QED
    BY <2>3, <2>6 DEF Channel!Next, Channel!Deliver, n
<1>3. CASE Card \/ recvEnd \/ tryDrain \/ drainResume \/ restore \/ UNCHANGED vars
  BY <1>3 DEF Card, tick, fetchDescriptors1, writeback1, fetchResp, wbResp, pktResp,
              handleResp, fetchEvent, wbEvent, pktComplete, recvEnd, tryDrain, drainResume,
              restore, vars, host
<1> QED
  BY <1>1, <1>2, <1>3 DEF Next, Work, Driver

\* The receive path implements the frame channel: what eth_em_recv_pkts returns is
\* what ethRxPkt accepted, each frame once and in order.
THEOREM ImplementsChannel == Spec => ChannelSpec
<1>1. Init => Channel!Init
  BY DEF Init, Channel!Init
<1>2. IInv /\ [Next]_vars => [Channel!Next]_<<accepted, delivered>>
  BY ChannelStep
<1> QED
  BY <1>1, <1>2, Invariance, PTL DEF Spec, ChannelSpec, Channel!Spec

-----------------------------------------------------------------------------
(* No lost wake-up                                                         *)

\* The card runs and its clock is stopped.
Asleep == sm.drain = "Running" /\ ~ sm.tickEvent

\* Nothing to fill, and a fetch is out or there is nothing to fetch or no room.
Starved(c) ==
    /\ Len(c.unusedCache) = 0
    /\ c.fetchEv # "idle" \/ c.cachePnt = c.tail \/ Len(c.usedCache) = CacheSize

\* Used descriptors that fill the whole cache are being written back, once the
\* state machine has seen the last frame.
FullGoes == Len(cache.usedCache) = CacheSize /\ ~ pktDone => cache.wbEv # "idle"

(***************************************************************************)
(* Why the clock is stopped: it is never stopped on a frame whose DMA has  *)
(* completed, and when it is stopped with frames in the FIFO and no DMA    *)
(* out, the card has no descriptor to fill.                                *)
(***************************************************************************)
WakeInv ==
    /\ sm.drain = "Running" /\ sm.rxTick => sm.tickEvent
    /\ Asleep => ~ pktDone
    /\ Asleep /\ rxFifo # <<>> /\ pktEv = "idle" => Starved(cache)
    /\ FullGoes

\* A fetch that does not start has nothing to fetch or no room.
LEMMA FetchTries ==
    ASSUME NEW c, CacheOK(c)
    PROVE  /\ fetchDescriptors(c).wbEv = c.wbEv
           /\ c.fetchEv # "idle" => fetchDescriptors(c).fetchEv # "idle"
           /\ \/ fetchDescriptors(c).fetchEv # "idle" \/ c.cachePnt = c.tail
              \/ Len(c.usedCache) + Len(c.unusedCache) = CacheSize
<1> DEFINE x == Len(c.usedCache)
           y == Len(c.unusedCache)
           t == IF c.tail >= c.cachePnt THEN c.tail - c.cachePnt ELSE RingLen - c.cachePnt
           f == MinOf(t, CacheSize - x - y)
<1>1. /\ c \in CacheType /\ (c.curFetching = 0 <=> c.fetchEv = "idle")
      /\ c.tail \in Slot /\ c.cachePnt \in Slot /\ x \in Nat /\ y \in Nat
  BY DEF CacheOK, CacheType
<1>2. f = 0 => c.cachePnt = c.tail \/ x + y = CacheSize
  <2> HIDE DEF x, y
  <2> QED BY <1>1 DEF MinOf
<1>3. CASE c.curFetching # 0 \/ f = 0
  <2>1. fetchDescriptors(c) = c
    BY <1>3 DEF fetchDescriptors, descUsed, descUnused
  <2> HIDE DEF f
  <2> QED BY Zenon, <1>1, <1>2, <1>3, <2>1
<1>4. CASE ~ (c.curFetching # 0 \/ f = 0)
  <2>1. fetchDescriptors(c) = [c EXCEPT !.curFetching = f, !.fetchEv = "delay"]
    BY <1>4 DEF fetchDescriptors, descUsed, descUnused
  <2> HIDE DEF f
  <2>2. fetchDescriptors(c).fetchEv = "delay" /\ fetchDescriptors(c).wbEv = c.wbEv
    BY <1>1, <2>1 DEF CacheType
  <2> QED BY <2>2
<1> QED BY Zenon, <1>3, <1>4

\* writeback() with no alignment starts whenever a descriptor is used, and no call
\* stops a writeback that is out.
LEMMA WritebackTries ==
    ASSUME NEW c, CacheOK(c), NEW k \in Mask
    PROVE  /\ c.wbEv # "idle" => writeback(c, k).wbEv # "idle"
           /\ k = 0 /\ Len(c.usedCache) > 0 => writeback(c, k).wbEv # "idle"
<1> DEFINE n == Len(c.usedCache)
           toEnd == n + c.head >= RingLen
           w == IF toEnd THEN RingLen - c.head ELSE AndNot(n, k)
           c1 == [c EXCEPT !.moreToWb = toEnd, !.wbAlignment = k]
<1>1. /\ c \in CacheType /\ (c.wbOut = 0 <=> c.wbEv = "idle") /\ n \in Nat
      /\ c.head \in Nat /\ c.head < RingLen
  BY DEF CacheOK, CacheType
<1>2. k = 0 /\ n > 0 => w > 0
  <2> HIDE DEF n
  <2> QED BY <1>1 DEF AndNot
<1>3. CASE c.wbOut # 0
  <2>1. \/ writeback(c, k) = c
        \/ writeback(c, k) = [c EXCEPT !.moreToWb = TRUE, !.wbAlignment = k]
    BY <1>3 DEF writeback
  <2>2. writeback(c, k).wbEv = c.wbEv
    BY Zenon, <1>1, <2>1 DEF CacheType
  <2> QED BY Zenon, <1>1, <1>3, <2>2
<1>4. CASE c.wbOut = 0 /\ w > 0
  <2>0. ~ (w <= 0) /\ ~ (c.wbOut # 0)
    <3>1. AndNot(n, k) \in Nat
      BY <1>1, AndNotBounds
    <3> HIDE DEF n
    <3> QED BY <1>1, <1>4, <3>1
  <2>1. writeback(c, k) = [c1 EXCEPT !.wbOut = w, !.wbEv = "delay"]
    BY Zenon, <2>0 DEF writeback, descUsed
  <2> HIDE DEF w, toEnd
  <2>2. writeback(c, k).wbEv = "delay"
    BY Zenon, <1>1, <2>1 DEF CacheType
  <2> QED BY <2>2
<1> HIDE DEF w, n, toEnd
<1>5. CASE c.wbOut = 0 /\ ~ (w > 0)
  BY Zenon, <1>1, <1>2, <1>5 DEF n
<1> QED BY Zenon, <1>3, <1>4, <1>5

\* Conditional writebacks and fetches, as WritebackTries and FetchTries.
LEMMA WbIfTries ==
    ASSUME NEW c, CacheOK(c), NEW k \in Mask, NEW b
    PROVE  /\ c.wbEv # "idle" => wbIf(b, c, k).wbEv # "idle"
           /\ b /\ k = 0 /\ Len(c.usedCache) > 0 => wbIf(b, c, k).wbEv # "idle"
BY Zenon, WritebackTries DEF wbIf

LEMMA FetchIfTries ==
    ASSUME NEW c, CacheOK(c), NEW b
    PROVE  /\ fetchIf(b, c).wbEv = c.wbEv
           /\ c.fetchEv # "idle" => fetchIf(b, c).fetchEv # "idle"
           /\ b => \/ fetchIf(b, c).fetchEv # "idle" \/ c.cachePnt = c.tail
                   \/ Len(c.usedCache) + Len(c.unusedCache) = CacheSize
BY Zenon, FetchTries DEF fetchIf

\* RDLEN in bytes is never below the RDMTS fraction of the descriptors left: a
\* frame that is in memory always starts a writeback or finds one out.
LEMMA AlwaysBelow ==
    ASSUME IInv
    PROVE  belowRdmts(cache) /\ (descLeft(cache) = 0 => Len(cache.unusedCache) = 0)
<1> DEFINE l == Len(cache.unusedCache)
           x == Dist(cache.cachePnt, cache.tail)
<1>1. /\ l \in Nat /\ x \in Nat /\ ready \in Nat /\ filled \in Nat /\ drv.nb_hold \in Nat
      /\ cache.cachePnt \in Slot /\ cache.tail \in Slot
  BY Basics
<1>2. drv.nb_hold + 1 + ready + filled + l + x = RingLen
  BY Zenon DEF IInv, DescriptorOwnership, descUnused
<1>3. descLeft(cache) = l + x
  <2>1. (IF cache.cachePnt > cache.tail THEN RingLen - cache.cachePnt + cache.tail
                                        ELSE cache.tail - cache.cachePnt) = x
    BY <1>1 DEF Dist
  <2> QED BY Zenon, <2>1 DEF descLeft, descUnused
<1>4. ratio \in {2, 4, 8}
  BY DEF ratio
<1> HIDE DEF l, x
<1>5. l + x <= RingLen /\ (l + x = 0 => l = 0)
  BY <1>1, <1>2
<1>6. \A r \in {2, 4, 8} : (l + x) * r <= 16 * RingLen
  BY <1>1, <1>5
<1>7. belowRdmts(cache)
  BY Zenon, <1>3, <1>4, <1>6 DEF belowRdmts
<1> QED BY Zenon, <1>3, <1>5, <1>7 DEF l

\* After a frame is in memory a writeback is out, and a fetch if one is possible.
LEMMA AfterPacketTries ==
    ASSUME NEW c, CacheOK(c), belowRdmts(c)
    PROVE  /\ Len(c.usedCache) > 0 => afterPacket(c).wbEv # "idle"
           /\ Len(c.unusedCache) = 0 =>
                \/ afterPacket(c).fetchEv # "idle" \/ c.cachePnt = c.tail
                \/ Len(c.usedCache) = CacheSize
<1> DEFINE quiet == rxFifo = <<>>
           last == descLeft(c) = 0
           c1 == wbIf(belowRdmts(c), c, 0)
           c2 == wbIf(descLeft(c) < LowWater, c1, 0)
           c3 == wbIf(quiet, c2, 0)
           c4 == wbIf(last, c3, 0)
           c5 == wbIf(Wthresh >= descUsed(c4), c4, wthreshMask)
           c6 == fetchIf(/\ descUnused(c5) < Pthresh
                         /\ descLeft(c5) - descUnused(c5) > Hthresh, c5)
           c7 == fetchIf(descUnused(c6) = 0, c6)
           Out(d) == Len(c.usedCache) > 0 => d.wbEv # "idle"
<1>0. 0 \in Mask /\ wthreshMask \in Mask
  BY DEF wthreshMask, Mask, BlockMask, AllOnes
<1>1. CacheOK(c1) /\ SameDescs(c, c1) /\ Out(c1)
  BY Zenon, <1>0, WbIfOK, WbIfTries
<1>2. CacheOK(c2) /\ SameDescs(c1, c2) /\ Out(c2)
  <2> HIDE DEF c1
  <2> QED BY Zenon, <1>0, <1>1, WbIfOK, WbIfTries
<1>3. CacheOK(c3) /\ SameDescs(c2, c3) /\ Out(c3)
  <2> HIDE DEF c2, quiet
  <2> QED BY Zenon, <1>0, <1>2, WbIfOK, WbIfTries
<1>4. CacheOK(c4) /\ SameDescs(c3, c4) /\ Out(c4)
  <2> HIDE DEF c3, last
  <2> QED BY Zenon, <1>0, <1>3, WbIfOK, WbIfTries
<1>5. CacheOK(c5) /\ SameDescs(c4, c5) /\ Out(c5)
  <2> HIDE DEF c4
  <2> QED BY Zenon, <1>0, <1>4, WbIfOK, WbIfTries
<1>6. CacheOK(c6) /\ SameDescs(c5, c6) /\ Out(c6)
  <2> HIDE DEF c5
  <2> QED BY Zenon, <1>5, FetchIfOK, FetchIfTries
<1>7. SameDescs(c, c6)
  <2> HIDE DEF c1, c2, c3, c4, c5, c6
  <2> QED BY Zenon, <1>1, <1>2, <1>3, <1>4, <1>5, <1>6, SameDescsTrans
<1>8. afterPacket(c) = c7
  BY DEF afterPacket
<1> HIDE DEF c6
<1>9. Out(c7)
  BY Zenon, <1>6, FetchIfTries
<1>10. ASSUME Len(c.unusedCache) = 0
       PROVE  c7.fetchEv # "idle" \/ c.cachePnt = c.tail \/ Len(c.usedCache) = CacheSize
  <2>1. /\ c6.usedCache = c.usedCache /\ c6.unusedCache = c.unusedCache
        /\ c6.cachePnt = c.cachePnt /\ c6.tail = c.tail
    BY Zenon, <1>7 DEF SameDescs
  <2>2. \/ c7.fetchEv # "idle" \/ c6.cachePnt = c6.tail
        \/ Len(c6.usedCache) + Len(c6.unusedCache) = CacheSize
    BY Zenon, <1>6, <1>10, <2>1, FetchIfTries DEF descUnused
  <2>3. Len(c.usedCache) \in Nat
    BY DEF CacheOK, CacheType
  <2>4. Len(c.usedCache) + 0 = Len(c.usedCache)
    BY <2>3
  <2> QED BY Zenon, <1>10, <2>1, <2>2, <2>4
<1> HIDE DEF c7
<1> QED BY Zenon, <1>8, <1>9, <1>10

-----------------------------------------------------------------------------
(* Steps that start the clock and steps that leave it alone                *)

\* A clock that runs needs no reason.
LEMMA Awake ==
    ASSUME sm'.drain = "Running" => sm'.tickEvent, FullGoes'
    PROVE  WakeInv'
BY Zenon DEF WakeInv, Asleep

\* A step that leaves the clock and the frames and issues or answers a DMA.
LEMMA StillWake ==
    ASSUME WakeInv, sm' = sm, pktDone' = pktDone, rxFifo' = rxFifo,
           pktEv' = "idle" <=> pktEv = "idle",
           cache'.usedCache = cache.usedCache, cache'.unusedCache = cache.unusedCache,
           cache'.cachePnt = cache.cachePnt, cache'.tail = cache.tail,
           cache'.fetchEv = "idle" <=> cache.fetchEv = "idle",
           cache'.wbEv = "idle" <=> cache.wbEv = "idle"
    PROVE  WakeInv'
<1>1. FullGoes'
  BY Zenon DEF WakeInv, FullGoes
<1>2. Asleep' <=> Asleep
  BY Zenon DEF Asleep
<1>3. Starved(cache) => Starved(cache)'
  BY Zenon DEF Starved
<1> QED BY Zenon, <1>1, <1>2, <1>3 DEF WakeInv

\* Starting the clock of a running card schedules its tick.
LEMMA ClockStarts ==
    ASSUME NEW s \in SmType, s.drain = "Running"
    PROVE  /\ enableSm(s).tickEvent /\ enableSm(s).drain = "Running"
           /\ restartClock([s EXCEPT !.rxTick = s.drain # "Draining"]).tickEvent
<1> DEFINE r == [s EXCEPT !.rxTick = TRUE]
<1>1. r \in SmType /\ r.rxTick = TRUE /\ r.drain = "Running"
  BY Zenon DEF SmType
<1>2. restartClock(r) = [r EXCEPT !.tickEvent = TRUE]
  BY Zenon, <1>1 DEF restartClock
<1>3. restartClock(r).tickEvent = TRUE /\ restartClock(r).drain = "Running"
  <2> HIDE DEF r
  <2> QED BY Zenon, <1>1, <1>2 DEF SmType
<1>4. (s.drain # "Draining") = TRUE
  OBVIOUS
<1>5. enableSm(s) = restartClock(r)
  BY Zenon, <1>4 DEF enableSm
<1>6. [s EXCEPT !.rxTick = s.drain # "Draining"] = r
  BY Zenon, <1>4
<1> HIDE DEF r
<1> QED BY Zenon, <1>3, <1>5, <1>6

\* checkDrain() does nothing on a card that runs.
LEMMA RunningDrain ==
    ASSUME NEW s, s.drain = "Running", NEW c, NEW p
    PROVE  checkDrain(s, c, p) = s
BY DEF checkDrain

\* The steps of the clock.
LEMMA TickWake ==
    ASSUME IInv, WakeInv, tick
    PROVE  WakeInv'
<1>0. CacheOK(cache) /\ sm \in SmType
  BY Zenon, Basics DEF IInv, TypeOK, SmType
<1>1. ASSUME stopTicking
      PROVE  /\ FullGoes' /\ ~ pktDone'
             /\ (Asleep /\ rxFifo # <<>> /\ pktEv = "idle" => Starved(cache))'
             => WakeInv'
  <2>1. sm'.rxTick = FALSE
    BY Zenon, <1>0, <1>1 DEF stopTicking, SmType
  <2> QED BY Zenon, <2>1 DEF WakeInv
<1>2. CASE packetDoneStep
  <2> DEFINE on == descLeft(cache) # 0 /\ descUnused(cache) # 0
  <2>1. /\ sm' = [sm EXCEPT !.rxTick = on, !.tickEvent = on] /\ pktDone' = FALSE
        /\ cache' = afterPacket(cache)
    BY Zenon, <1>2 DEF packetDoneStep
  <2>2. SameDescs(cache, cache')
    BY Zenon, <1>0, <2>1, AfterPacketOK
  <2>3. /\ Len(cache.usedCache) > 0 => cache'.wbEv # "idle"
        /\ Len(cache.unusedCache) = 0 =>
             \/ cache'.fetchEv # "idle" \/ cache.cachePnt = cache.tail
             \/ Len(cache.usedCache) = CacheSize
    BY Zenon, <1>0, <2>1, AlwaysBelow, AfterPacketTries
  <2>4. FullGoes'
    <3>1. Len(cache.usedCache) = CacheSize => Len(cache.usedCache) > 0
      OBVIOUS
    <3> QED BY Zenon, <2>2, <2>3, <3>1 DEF FullGoes, SameDescs
  <2>5. ~ on => Len(cache.unusedCache) = 0
    BY Zenon, AlwaysBelow DEF descUnused
  <2>6. ~ on => Starved(cache)'
    BY Zenon, <2>2, <2>3, <2>5 DEF Starved, SameDescs
  <2>o. on \in BOOLEAN
    OBVIOUS
  <2> HIDE DEF on
  <2>7. sm'.rxTick = on /\ sm'.tickEvent = on
    BY Zenon, <1>0, <2>1 DEF SmType
  <2> QED BY Zenon, <2>1, <2>4, <2>6, <2>7 DEF WakeInv, Asleep
<1>3. CASE waitForDma
  <2>1. /\ stopTicking /\ rxDmaPacket /\ ~ pktDone
        /\ cache' = cache /\ pktDone' = pktDone /\ pktEv' = pktEv
    BY Zenon, <1>3 DEF waitForDma, stopTicking
  <2>2. pktEv # "idle"
    BY Zenon, <2>1 DEF IInv, DmaFlags
  <2>3. FullGoes'
    BY Zenon, <2>1 DEF WakeInv, FullGoes
  <2> QED BY Zenon, <1>1, <2>1, <2>2, <2>3
<1>4. CASE noDescriptors
  <2>1. /\ stopTicking /\ Len(cache.unusedCache) = 0 /\ ~ pktDone
        /\ cache' = fetchDescriptors(cache) /\ pktDone' = pktDone
    BY Zenon, <1>4 DEF noDescriptors, stopTicking, descUnused
  <2>2. /\ SameDescs(cache, cache') /\ cache'.wbEv = cache.wbEv
        /\ \/ cache'.fetchEv # "idle" \/ cache.cachePnt = cache.tail
           \/ Len(cache.usedCache) + Len(cache.unusedCache) = CacheSize
    BY Zenon, <1>0, <2>1, FetchOK, FetchTries
  <2>3. Len(cache.usedCache) + Len(cache.unusedCache) = Len(cache.usedCache)
    <3>1. Len(cache.usedCache) \in Nat
      BY Zenon, Basics
    <3> QED BY <2>1, <3>1
  <2>4. Starved(cache)'
    BY Zenon, <2>1, <2>2, <2>3 DEF Starved, SameDescs
  <2>5. FullGoes'
    BY Zenon, <2>1, <2>2 DEF WakeInv, FullGoes, SameDescs
  <2> QED BY Zenon, <1>1, <2>1, <2>4, <2>5
<1>5. CASE fifoEmpty
  <2>1. /\ stopTicking /\ ~ pktDone /\ cache' = cache /\ pktDone' = pktDone /\ rxFifo' = <<>>
    BY Zenon, <1>5 DEF fifoEmpty, stopTicking
  <2>3. FullGoes'
    BY Zenon, <2>1 DEF WakeInv, FullGoes
  <2> QED BY Zenon, <1>1, <2>1, <2>3
<1>6. CASE writePacket
  <2>1. /\ stopTicking /\ ~ pktDone /\ cache' = cache /\ pktDone' = FALSE /\ pktEv' = "dma"
    BY Zenon, <1>6 DEF writePacket, stopTicking
  <2>2. pktEv' # "idle"
    BY <2>1
  <2>3. FullGoes'
    BY Zenon, <2>1 DEF WakeInv, FullGoes
  <2> QED BY Zenon, <1>1, <2>1, <2>2, <2>3
<1> QED BY Zenon, <1>2, <1>3, <1>4, <1>5, <1>6 DEF tick

\* A frame from the link starts the clock.
LEMMA RxPktWake ==
    ASSUME IInv, WakeInv, ethRxPkt
    PROVE  WakeInv'
<1>1. /\ sm' = restartClock([sm EXCEPT !.rxTick = sm.drain # "Draining"])
      /\ cache' = cache /\ pktDone' = pktDone /\ sm \in SmType
  BY Zenon DEF ethRxPkt, IInv, TypeOK, SmType
<1>2. [sm EXCEPT !.rxTick = sm.drain # "Draining"] \in SmType
  <2>1. \A b \in BOOLEAN : [sm EXCEPT !.rxTick = b] \in SmType
    BY Zenon, <1>1 DEF SmType
  <2> QED BY Zenon, <2>1
<1>3. sm'.drain = sm.drain
  <2>1. \A b : [sm EXCEPT !.rxTick = b].drain = sm.drain
    BY Zenon, <1>1 DEF SmType
  <2> QED BY Zenon, <1>1, <1>2, <2>1, ClockOK
<1>4. FullGoes'
  BY Zenon, <1>1 DEF WakeInv, FullGoes
<1>5. ASSUME sm'.drain = "Running" PROVE sm'.tickEvent
  <2> DEFINE r == restartClock([sm EXCEPT !.rxTick = sm.drain # "Draining"])
  <2>1. sm.drain = "Running"
    BY Zenon, <1>3, <1>5
  <2>2. r.tickEvent
    BY Zenon, <1>1, <2>1, ClockStarts
  <2>3. sm' = r
    BY Zenon, <1>1
  <2> HIDE DEF r
  <2> QED BY Zenon, <2>2, <2>3
<1> QED BY Zenon, <1>4, <1>5, Awake

\* The DMAs that are issued and answered: no transfer begins or ends.
LEMMA DmaWake ==
    ASSUME IInv, WakeInv, fetchDescriptors1 \/ writeback1 \/ fetchResp \/ wbResp \/ pktResp
    PROVE  WakeInv'
<1>0. cache \in CacheType
  BY Zenon DEF IInv, TypeOK
<1>1. /\ sm' = sm /\ pktDone' = pktDone /\ rxFifo' = rxFifo
      /\ pktEv' = "idle" <=> pktEv = "idle"
  <2>1. /\ sm' = sm /\ pktDone' = pktDone /\ rxFifo' = rxFifo
        /\ pktEv' = pktEv \/ (pktEv = "dma" /\ pktEv' = "comp")
    BY Zenon DEF fetchDescriptors1, writeback1, fetchResp, wbResp, pktResp, handleResp
  <2> QED BY <2>1
<1>2. \/ cache' = cache
      \/ cache.fetchEv # "idle" /\ \E e \in {"dma", "comp"} : cache' = [cache EXCEPT !.fetchEv = e]
      \/ cache.wbEv # "idle" /\ \E e \in {"dma", "comp"} : cache' = [cache EXCEPT !.wbEv = e]
  BY DEF fetchDescriptors1, writeback1, fetchResp, wbResp, pktResp, handleResp
<1>3. /\ cache'.usedCache = cache.usedCache /\ cache'.unusedCache = cache.unusedCache
      /\ cache'.cachePnt = cache.cachePnt /\ cache'.tail = cache.tail
      /\ cache'.fetchEv = "idle" <=> cache.fetchEv = "idle"
      /\ cache'.wbEv = "idle" <=> cache.wbEv = "idle"
  BY <1>0, <1>2 DEF CacheType
<1> QED BY Zenon, <1>1, <1>3, StillWake

\* A fetch that completes and a frame that is in memory start the clock.
LEMMA CompleteWake ==
    ASSUME IInv, WakeInv, fetchEvent \/ pktComplete
    PROVE  WakeInv'
<1>0. sm \in SmType /\ cache \in CacheType
  BY Zenon DEF IInv, TypeOK, SmType
<1>1. CASE fetchEvent
  <2>1. sm' = checkDrain(enableSm(sm), cache', pktEv) /\ pktDone' = pktDone
        /\ cache' = fetchComplete(cache, fetchBuf)
    BY Zenon, <1>1 DEF fetchEvent
  <2>2. enableSm(sm) \in SmType /\ enableSm(sm).drain = sm.drain
    BY Zenon, <1>0, ClockOK
  <2>3. sm'.drain = sm.drain \/ sm'.drain = "Drained"
    BY Zenon, <2>1, <2>2, CheckDrainOK DEF DrainStep
  <2>4. ASSUME sm'.drain = "Running" PROVE sm'.tickEvent
    <3>1. sm.drain = "Running"
      BY <2>3, <2>4
    <3>2. enableSm(sm).tickEvent /\ enableSm(sm).drain = "Running"
      BY Zenon, <1>0, <3>1, ClockStarts
    <3>3. sm' = enableSm(sm)
      BY Zenon, <2>1, <3>2, RunningDrain
    <3> QED BY Zenon, <3>2, <3>3
  <2>5. cache'.usedCache = cache.usedCache /\ cache'.wbEv = cache.wbEv
    BY Zenon, <1>0, <2>1 DEF fetchComplete, CacheType
  <2>6. FullGoes'
    BY Zenon, <2>1, <2>5 DEF WakeInv, FullGoes
  <2> QED BY Zenon, <2>4, <2>6, Awake
<1>2. CASE pktComplete
  <2>1. sm' = enableSm(checkDrain(sm, cache, "idle")) /\ pktDone' = TRUE
    BY Zenon, <1>2 DEF pktComplete
  <2> DEFINE s == checkDrain(sm, cache, "idle")
  <2>2. s \in SmType /\ DrainStep(sm.drain, s.drain)
    BY Zenon, <1>0, CheckDrainOK
  <2> HIDE DEF s
  <2>3. sm' = enableSm(s)
    BY Zenon, <2>1 DEF s
  <2>4. sm'.drain = s.drain
    BY Zenon, <2>2, <2>3, ClockOK
  <2>5. sm'.drain = "Running" => sm'.tickEvent
    BY Zenon, <2>2, <2>3, <2>4, ClockStarts
  <2>6. FullGoes'
    BY Zenon, <2>1 DEF FullGoes
  <2> QED BY Zenon, <2>5, <2>6, Awake
<1> QED BY Zenon, <1>1, <1>2

\* fetchAfterWb(): the room a writeback leaves is used when the clock is stopped.
LEMMA WbWake ==
    ASSUME IInv, WakeInv, wbEvent
    PROVE  WakeInv'
<1> DEFINE n == Len(cache.usedCache)
           m == Len(cache'.usedCache)
           l == Len(cache.unusedCache)
           c == wbComplete(cache)
<1>1. /\ cache'.usedCache = SubSeq(cache.usedCache, vis + 1, Len(cache.usedCache))
      /\ cache'.unusedCache = cache.unusedCache /\ cache'.cachePnt = cache.cachePnt
      /\ cache'.tail = cache.tail
  BY Zenon, WbEventCache
<1>2. /\ cache.usedCache \in Seq(Desc) /\ n \in Nat /\ l \in Nat /\ vis \in Nat /\ vis <= n
      /\ sm \in SmType
  <2>1. cache \in CacheType /\ sm \in SmType
    BY Zenon DEF IInv, TypeOK, SmType
  <2> QED BY Zenon, <2>1, Basics DEF CacheType
<1>3. m = n - vis
  BY Zenon, <1>1, <1>2, PopFacts
<1>4. vis > 0 /\ n + l <= CacheSize
  <2>1. cache.wbEv = "comp" /\ cache.wbOut # 0
    <3>1. cache.wbEv = "comp" /\ (cache.wbOut = 0 <=> cache.wbEv = "idle")
      BY Zenon DEF wbEvent, IInv, AssertsHold
    <3> QED BY <3>1
  <2>2. vis = cache.wbOut
    BY Zenon, <2>1 DEF vis
  <2>3. n + l + cache.curFetching <= CacheSize /\ cache.curFetching \in Nat
    BY Zenon, Basics DEF CacheOK
  <2> HIDE DEF n, l
  <2> QED BY <1>2, <2>1, <2>2, <2>3
<1>5. m \in Nat /\ m + l < CacheSize /\ m # CacheSize
  <2> HIDE DEF n, l, m
  <2> QED BY <1>2, <1>3, <1>4
<1>6. FullGoes'
  BY Zenon, <1>5 DEF FullGoes
<1>7. /\ pktDone' = pktDone /\ rxFifo' = rxFifo /\ pktEv' = pktEv
      /\ sm' = sm \/ \E d : sm' = checkDrain(sm, d, pktEv)
      /\ cache' = fetchIf(~ sm'.rxTick /\ sm'.drain = "Running", c)
  BY Zenon DEF wbEvent
<1>8. CASE sm'.drain = "Running"
  <2>1. sm' = sm
    <3>1. sm.drain = "Running"
      <4>1. DrainStep(sm.drain, sm'.drain)
        BY <1>2, <1>7, CheckDrainOK DEF DrainStep
      <4> QED BY <1>8, <4>1 DEF DrainStep
    <3> QED BY <1>7, <3>1, RunningDrain
  <2>2. ASSUME Asleep', rxFifo' # <<>>, pktEv' = "idle" PROVE Starved(cache)'
    <3>1. Asleep /\ Starved(cache) /\ ~ sm'.rxTick
      BY Zenon, <1>7, <2>1, <2>2 DEF WakeInv, Asleep
    <3>2. cache' = fetchIf(TRUE, c)
      BY Zenon, <1>7, <1>8, <3>1
    <3>3. CacheOK(c) /\ SameDescs(c, cache')
      <4>1. CacheOK(c)
        BY Zenon, WbEventCache
      <4> QED BY Zenon, <3>2, <4>1, FetchIfOK
    <3>4. \/ cache'.fetchEv # "idle" \/ c.cachePnt = c.tail
          \/ Len(c.usedCache) + Len(c.unusedCache) = CacheSize
      <4> HIDE DEF c
      <4> QED BY Zenon, <3>2, <3>3, FetchIfTries
    <3>5. \/ cache'.fetchEv # "idle" \/ cache'.cachePnt = cache'.tail
          \/ m + l = CacheSize
      <4> HIDE DEF c
      <4> QED BY Zenon, <1>1, <3>3, <3>4 DEF SameDescs
    <3>6. ~ (m + l = CacheSize)
      <4> HIDE DEF m, l
      <4> QED BY <1>2, <1>5
    <3> QED BY Zenon, <1>1, <3>1, <3>5, <3>6 DEF Starved
  <2>3. Asleep' => ~ pktDone'
    BY Zenon, <1>7, <2>1 DEF WakeInv, Asleep
  <2>4. sm'.rxTick => sm'.tickEvent
    BY Zenon, <1>8, <2>1 DEF WakeInv
  <2> QED BY Zenon, <1>6, <2>2, <2>3, <2>4 DEF WakeInv
<1>9. CASE sm'.drain # "Running"
  BY Zenon, <1>6, <1>9, Awake
<1> QED BY Zenon, <1>8, <1>9

\* The driver hands over descriptors: the write of RDT fetches.
LEMMA DriverWake ==
    ASSUME IInv, WakeInv, Driver
    PROVE  WakeInv'
<1>1. CASE recvDesc
  <2>1. UNCHANGED <<cache, sm, pktDone, rxFifo, pktEv>>
    BY Zenon, <1>1 DEF recvDesc, nic
  <2> QED BY Zenon, <2>1, StillWake
<1>2. CASE recvEnd
  <2>1. sm' = sm /\ pktDone' = pktDone /\ rxFifo' = rxFifo /\ pktEv' = pktEv
    BY Zenon, <1>2 DEF recvEnd
  <2>2. CASE cache' = cache
    BY Zenon, <2>1, <2>2, StillWake
  <2>3. CASE cache' = fetchIf(sm.drain = "Running", [cache EXCEPT !.tail = rdt])
    <3> DEFINE c == [cache EXCEPT !.tail = rdt]
               run == sm.drain = "Running"
    <3>1. /\ c.usedCache = cache.usedCache /\ c.unusedCache = cache.unusedCache
          /\ c.cachePnt = cache.cachePnt /\ c.wbEv = cache.wbEv /\ c.fetchEv = cache.fetchEv
      BY Zenon DEF IInv, TypeOK, CacheType
    <3>2. CacheOK(c)
      BY Zenon, <1>2, RdtOK
    <3>3. cache' = fetchIf(run, c)
      BY Zenon, <2>3
    <3> HIDE DEF c, run
    <3>4. /\ SameDescs(c, cache') /\ cache'.wbEv = c.wbEv
          /\ run => \/ cache'.fetchEv # "idle" \/ c.cachePnt = c.tail
                    \/ Len(c.usedCache) + Len(c.unusedCache) = CacheSize
      BY Zenon, <3>2, <3>3, FetchIfOK, FetchIfTries
    <3>5. FullGoes'
      BY Zenon, <2>1, <3>1, <3>4 DEF WakeInv, FullGoes, SameDescs
    <3>6. ASSUME Asleep', rxFifo' # <<>>, pktEv' = "idle" PROVE Starved(cache)'
      <4>1. Starved(cache) /\ run
        BY Zenon, <2>1, <3>6 DEF WakeInv, Asleep, run
      <4>2. Len(cache.unusedCache) = 0
        BY Zenon, <4>1 DEF Starved
      <4>3. Len(cache.usedCache) + Len(cache.unusedCache) = Len(cache.usedCache)
        <5>1. Len(cache.usedCache) \in Nat
          BY Zenon, Basics
        <5> QED BY <4>2, <5>1
      <4> QED BY Zenon, <3>1, <3>4, <4>1, <4>2, <4>3 DEF Starved, SameDescs
    <3>7. (Asleep' => ~ pktDone') /\ (sm'.drain = "Running" /\ sm'.rxTick => sm'.tickEvent)
      BY Zenon, <2>1 DEF WakeInv, Asleep
    <3> QED BY Zenon, <3>5, <3>6, <3>7 DEF WakeInv
  <2> QED BY Zenon, <1>2, <2>2, <2>3 DEF recvEnd
<1> QED BY Zenon, <1>1, <1>2 DEF Driver

\* A drain stops the clock of a card that does not run, and the end of one starts it.
LEMMA DrainWake ==
    ASSUME IInv, WakeInv, tryDrain \/ drainResume \/ restore
    PROVE  WakeInv'
<1>1. CASE tryDrain
  <2>1. /\ sm'.drain \in {"Draining", "Drained"} /\ cache' = cache /\ pktDone' = pktDone
    BY <1>1 DEF tryDrain
  <2>2. FullGoes'
    BY Zenon, <2>1 DEF WakeInv, FullGoes
  <2>3. sm'.drain # "Running"
    BY <2>1
  <2> QED BY Zenon, <2>2, <2>3, Awake
<1>2. CASE drainResume \/ restore
  <2> DEFINE s == [rxTick |-> TRUE, tickEvent |-> FALSE, drain |-> "Running"]
  <2>1. resumed /\ pktDone' = pktDone
    BY Zenon, <1>2 DEF drainResume, restore
  <2>2. sm' = restartClock(s)
    BY Zenon, <2>1 DEF resumed
  <2>3. sm'.tickEvent
    BY <2>2 DEF restartClock
  <2>4. cache'.usedCache = cache.usedCache /\ cache'.wbEv = cache.wbEv
    <3>1. CASE drainResume
      BY Zenon, <3>1 DEF drainResume
    <3>2. CASE restore
      <4>1. cache \in CacheType /\ cache.wbEv \in {"idle", "delay"}
        BY Zenon, <2>1 DEF resumed, IInv, TypeOK, DmaFlags
      <4>2. PICK x : cache' = [cache EXCEPT !.fetchEv = x,
                                 !.wbEv = IF cache.wbEv = "delay" THEN "delay" ELSE "idle"]
        BY <3>2, <4>1 DEF restore, CacheType
      <4>3. (IF cache.wbEv = "delay" THEN "delay" ELSE "idle") = cache.wbEv
        BY <4>1
      <4> QED BY Zenon, <4>1, <4>2, <4>3 DEF CacheType
    <3> QED BY Zenon, <1>2, <3>1, <3>2
  <2>5. FullGoes'
    BY Zenon, <2>1, <2>4 DEF WakeInv, FullGoes
  <2> QED BY Zenon, <2>3, <2>5, Awake
<1> QED BY Zenon, <1>1, <1>2

\* Initially the clock runs and no descriptor is used.
LEMMA InitWake == Init => WakeInv
<1> SUFFICES ASSUME Init PROVE WakeInv
  OBVIOUS
<1>1. IInv
  BY Zenon, InitIInv
<1>2. sm.tickEvent = TRUE
  BY DEF Init
<1>3. cache.usedCache = <<>>
  <2> DEFINE c == [EmptyCache EXCEPT !.tail = RingLen - 1]
  <2>1. c.usedCache = <<>>
    BY DEF EmptyCache
  <2>2. \A d : fetchDescriptors(d) = d \/ \E x : fetchDescriptors(d) = [d EXCEPT !.curFetching = x, !.fetchEv = "delay"]
    BY DEF fetchDescriptors
  <2>3. cache = c \/ \E x : cache = [c EXCEPT !.curFetching = x, !.fetchEv = "delay"]
    BY Zenon, <2>2 DEF Init
  <2>4. \A x : [c EXCEPT !.curFetching = x, !.fetchEv = "delay"].usedCache = <<>>
    BY DEF EmptyCache
  <2> HIDE DEF c
  <2> QED BY Zenon, <2>1, <2>3, <2>4
<1>4. Len(cache.usedCache) # CacheSize
  BY <1>3
<1> QED BY Zenon, <1>2, <1>4 DEF WakeInv, Asleep, FullGoes

\* Every step keeps a reason for a clock that is stopped.
LEMMA NextWake == IInv /\ WakeInv /\ [Next]_vars => WakeInv'
<1> SUFFICES ASSUME IInv, WakeInv, [Next]_vars PROVE WakeInv'
  OBVIOUS
<1>1. CASE UNCHANGED vars
  <2>1. UNCHANGED <<cache, sm, pktDone, rxFifo, pktEv>>
    BY Zenon, <1>1 DEF vars, nic
  <2> QED BY Zenon, <2>1, StillWake
<1>2. CASE Card
  BY Zenon, <1>2, TickWake, DmaWake, CompleteWake, WbWake DEF Card
<1>3. CASE ethRxPkt \/ Driver
  BY Zenon, <1>3, RxPktWake, DriverWake
<1>4. CASE tryDrain \/ drainResume \/ restore
  BY Zenon, <1>4, DrainWake
<1> QED BY Zenon, <1>1, <1>2, <1>3, <1>4 DEF Next, Work

(***************************************************************************)
(* No wake-up of the receive state machine is lost: when the card runs,    *)
(* frames wait in the FIFO and the clock is stopped, a DMA that starts it  *)
(* again is out or the driver has given the card no other descriptor, for  *)
(* every ring, cache and threshold, through drains and restores.           *)
(***************************************************************************)
THEOREM NoLostWakeUp == Spec => []NotStuck
<1>1. IInv /\ WakeInv => NotStuck
  <2> SUFFICES ASSUME IInv, WakeInv, sm.drain = "Running", rxFifo # <<>>, ~ sm.tickEvent,
                      pktEv = "idle", cache.fetchEv = "idle", ~ (cache.cachePnt = cache.tail)
               PROVE  cache.wbEv # "idle" /\ descUsed(cache) + descUnused(cache) = CacheSize
    BY Zenon DEF NotStuck
  <2>1. ~ pktDone /\ Starved(cache) /\ FullGoes
    BY Zenon DEF WakeInv, Asleep
  <2>2. Len(cache.unusedCache) = 0 /\ Len(cache.usedCache) = CacheSize
    BY Zenon, <2>1 DEF Starved
  <2>3. Len(cache.usedCache) + Len(cache.unusedCache) = CacheSize
    BY <2>2
  <2> QED BY Zenon, <2>1, <2>2, <2>3 DEF FullGoes, descUsed, descUnused
<1> QED BY <1>1, InitWake, NextWake, Invariance, PTL DEF Spec
=============================================================================
