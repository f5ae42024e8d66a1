------------------------------- MODULE IGbERx --------------------------------
(***************************************************************************)
(* The receive path of the IGbE network card, with the DPDK em poll-mode   *)
(* driver that owns the other end of the receive ring and the simulator's  *)
(* drain protocol that stops both for a checkpoint.                        *)
(*                                                                         *)
(*   gem5/src/dev/net/i8254xGBe.cc    ethRxPkt, rxStateMachine,            *)
(*                                    RxDescCache, drain, checkDrain       *)
(*   gem5/src/dev/dma_device.cc       DmaPort: responses and drain         *)
(*   gem5/src/sim/drain.cc            DrainManager                         *)
(*   em_rxtx.c                        eth_em_recv_pkts                     *)
(*                                                                         *)
(* The registers are as eth_em_rx_init leaves them: legacy descriptors,    *)
(* receiver enabled, no interrupt delays, interrupts masked.  The load     *)
(* generator sends frames of one size, so the FIFO is counted in frames.   *)
(* Frames are numbered 1, 2, ... in the order the card accepts them.       *)
(***************************************************************************)
EXTENDS DescCache

CONSTANTS
    FifoSize,       \* frames that fit in rxFifo
    Rdmts,          \* RCTL.RDMTS: 0, 1, 2
    Wthresh,        \* RXDCTL.WTHRESH
    Pthresh,        \* RXDCTL.PTHRESH
    Hthresh,        \* RXDCTL.HTHRESH
    LowWater,       \* descLeft below which a frame is written back at once (32)
    NbPkts,         \* nb_pkts: burst size of the polling application
    RxFreeThresh,   \* rx_free_thresh of the driver's queue
    MaxFrames       \* bound: frames the card accepts in one behaviour

ASSUME FifoAssumption == FifoSize \in Nat \ {0}
ASSUME ThreshAssumption == /\ Rdmts \in {0, 1, 2}
                           /\ Wthresh \in Nat /\ Pthresh \in Nat /\ Hthresh \in Nat
                           /\ LowWater \in Nat
ASSUME DriverAssumption == /\ NbPkts \in Nat \ {0} /\ RxFreeThresh \in Nat
                           /\ RingLen >= 2
ASSUME BoundAssumption == MaxFrames \in Nat

VARIABLES
    cache,      \* rxDescCache, with the RDH and RDT registers
    rxFifo,     \* frames accepted and not yet being written to memory
    pktPtr,     \* the frame whose DMA is out, 0 for none
    pktEv,      \* stage of that DMA: "idle", "dma", "comp" (pktEvent scheduled)
    pktDone,    \* a frame was written and the state machine has not seen it
    rxDmaPacket,\* the state machine believes a frame's DMA is out
    sm,         \* [rxTick, tickEvent, drain: the card's DrainState]
    port,       \* the DMA port's DrainState
    mgr,        \* [state, count] of the DrainManager
    ring,       \* host memory: the DD bit of every descriptor of the ring
    buf,        \* host memory: the frame in every descriptor's buffer, 0 for none
    drv,        \* driver: [rx_id, nb_hold, nb_rx]
    accepted,   \* history: number of frames the card has accepted
    delivered   \* history: the frames the driver has returned, in order

nic == <<cache, rxFifo, pktPtr, pktEv, pktDone, rxDmaPacket, sm>>
host == <<ring, buf, drv, delivered>>
drainVars == <<port, mgr>>
vars == <<nic, host, drainVars, accepted>>

DrainState == {"Running", "Draining", "Drained"}

\* Once every object is drained the simulation loop has exited and no event runs.
simulating == mgr.state # "Drained"

-----------------------------------------------------------------------------
(* Clock and drain bookkeeping of the card                                 *)

restartClock(s) ==
    IF s.rxTick /\ s.drain = "Running" THEN [s EXCEPT !.tickEvent = TRUE] ELSE s

\* Fault: the state machine is enabled and its clock is not started.
enableSm_noClock(s) ==
    IF s.drain # "Draining" THEN [s EXCEPT !.rxTick = TRUE] ELSE s

enableSm(s) ==
    IF s.drain # "Draining" THEN restartClock([s EXCEPT !.rxTick = TRUE]) ELSE s

\* Faults: one completion event is left out.
hasOutstandingEvents_noWb(c, pkt) == pkt = "comp" \/ c.fetchEv = "comp"
hasOutstandingEvents_noPkt(c, pkt) == c.wbEv = "comp" \/ c.fetchEv = "comp"

\* Completion events that are scheduled; DMAs still in the port do not count.
hasOutstandingEvents(c, pkt) ==
    pkt = "comp" \/ c.wbEv = "comp" \/ c.fetchEv = "comp"

\* checkDrain() when the events still scheduled are those of c and pkt.
checkDrain(s, c, pkt) ==
    IF s.drain # "Draining" THEN s
    ELSE [s EXCEPT !.rxTick = FALSE,
                   !.drain = IF hasOutstandingEvents(c, pkt) THEN @ ELSE "Drained"]

\* signalDrainDone(): the manager counts one object less when it goes from
\* Draining to Drained.
signalDrainDone(m, old, new) ==
    IF old = "Draining" /\ new = "Drained" THEN [m EXCEPT !.count = @ - 1] ELSE m

\* DmaPort: number of DMA requests in the port.
pendingCount(c, pkt) ==
    (IF c.fetchEv = "dma" THEN 1 ELSE 0) + (IF c.wbEv = "dma" THEN 1 ELSE 0)
      + (IF pkt = "dma" THEN 1 ELSE 0)

\* Fault: the port does not signal that it is drained.
portAfterResp_silent(c, pkt) == port

\* The end of DmaPort::handleResp.
portAfterResp(c, pkt) ==
    IF port = "Draining" /\ pendingCount(c, pkt) = 0 THEN "Drained" ELSE port

-----------------------------------------------------------------------------
(* The state after eth_em_rx_init: RDH = 0, RDT = RingLen - 1; the writes  *)
(* of RDT and of RCTL.EN have started a fetch and the receive clock.       *)

Init ==
    /\ cache = fetchDescriptors([EmptyCache EXCEPT !.tail = RingLen - 1])
    /\ rxFifo = <<>>
    /\ pktPtr = 0 /\ pktEv = "idle" /\ pktDone = FALSE /\ rxDmaPacket = FALSE
    /\ sm = [rxTick |-> TRUE, tickEvent |-> TRUE, drain |-> "Running"]
    /\ port = "Running"
    /\ mgr = [state |-> "Running", count |-> 0]
    /\ ring = [i \in Slot |-> FALSE]
    /\ buf = [i \in Slot |-> 0]
    /\ drv = [rx_id |-> 0, nb_hold |-> 0, nb_rx |-> 0]
    /\ accepted = 0
    /\ delivered = <<>>

-----------------------------------------------------------------------------
(* A frame arrives from the link: ethRxPkt                                 *)

ethRxPkt ==
    /\ simulating
    /\ accepted < MaxFrames
    /\ sm' = restartClock([sm EXCEPT !.rxTick = sm.drain # "Draining"])
    /\ IF Len(rxFifo) < FifoSize
       THEN /\ rxFifo' = Append(rxFifo, accepted + 1)
            /\ accepted' = accepted + 1
       ELSE UNCHANGED <<rxFifo, accepted>>       \* dropped, receive overrun
    /\ UNCHANGED <<cache, pktPtr, pktEv, pktDone, rxDmaPacket, host, drainVars>>

-----------------------------------------------------------------------------
(* One clock tick of the receive state machine: rxStateMachine and tick    *)

\* The descriptors left have fallen to the RDMTS fraction of RDLEN, as the code
\* computes it: RDLEN is in bytes and a descriptor has 16 of them.
ratio == CASE Rdmts = 0 -> 2 [] Rdmts = 1 -> 4 [] OTHER -> 8
belowRdmts(c) == descLeft(c) * ratio <= 16 * RingLen

wbIf(cond, c, aMask) == IF cond THEN writeback(c, aMask) ELSE c
fetchIf(cond, c) == IF cond THEN fetchDescriptors(c) ELSE c

wthreshMask == CASE Wthresh = 0 -> AllOnes
                 [] Wthresh \in 1 .. 3 -> Wthresh - 1
                 [] OTHER -> BlockMask

\* The writebacks and fetches after a frame is in memory, in the code's order.
afterPacket(c) ==
    LET c1 == wbIf(belowRdmts(c), c, 0)
        c2 == wbIf(descLeft(c) < LowWater, c1, 0)
        c3 == wbIf(rxFifo = <<>>, c2, 0)
        c4 == wbIf(descLeft(c) = 0, c3, 0)
        c5 == wbIf(Wthresh >= descUsed(c4), c4, wthreshMask)
        c6 == fetchIf(/\ descUnused(c5) < Pthresh
                      /\ descLeft(c5) - descUnused(c5) > Hthresh, c5)
    IN  fetchIf(descUnused(c6) = 0, c6)

packetDoneStep ==
    /\ pktDone
    /\ pktDone' = FALSE
    /\ rxDmaPacket' = FALSE
    /\ cache' = afterPacket(cache)
    /\ sm' = [sm EXCEPT !.rxTick = descLeft(cache) # 0 /\ descUnused(cache) # 0,
                        !.tickEvent = descLeft(cache) # 0 /\ descUnused(cache) # 0]
    /\ UNCHANGED <<rxFifo, pktPtr, pktEv>>

\* Every other outcome of the state machine stops the clock.
stopTicking ==
    /\ ~ pktDone
    /\ sm' = [sm EXCEPT !.rxTick = FALSE, !.tickEvent = FALSE]

waitForDma ==
    /\ stopTicking
    /\ rxDmaPacket
    /\ UNCHANGED <<cache, rxFifo, pktPtr, pktEv, pktDone, rxDmaPacket>>

noDescriptors ==
    /\ stopTicking
    /\ ~ rxDmaPacket
    /\ descUnused(cache) = 0
    /\ cache' = fetchDescriptors(cache)
    /\ UNCHANGED <<rxFifo, pktPtr, pktEv, pktDone, rxDmaPacket>>

fifoEmpty ==
    /\ stopTicking
    /\ ~ rxDmaPacket /\ descUnused(cache) # 0
    /\ rxFifo = <<>>
    /\ UNCHANGED <<cache, rxFifo, pktPtr, pktEv, pktDone, rxDmaPacket>>

\* writePacket() for legacy descriptors: the whole frame in one DMA.
writePacket ==
    /\ stopTicking
    /\ ~ rxDmaPacket /\ descUnused(cache) # 0
    /\ rxFifo # <<>>
    /\ pktPtr' = Head(rxFifo)
    /\ pktEv' = "dma"
    /\ pktDone' = FALSE
    /\ rxFifo' = Tail(rxFifo)
    /\ rxDmaPacket' = TRUE
    /\ UNCHANGED cache

tick ==
    /\ simulating
    /\ sm.tickEvent /\ sm.rxTick
    /\ packetDoneStep \/ waitForDma \/ noDescriptors \/ fifoEmpty \/ writePacket
    /\ UNCHANGED <<host, drainVars, accepted>>

-----------------------------------------------------------------------------
(* DMA.  A delay event that fires while the card is not Running only       *)
(* schedules itself again, so the request is issued when it is Running.    *)

fetchDescriptors1 ==
    /\ simulating
    /\ cache.fetchEv = "delay" /\ sm.drain = "Running"
    /\ cache' = [cache EXCEPT !.fetchEv = "dma"]
    /\ UNCHANGED <<rxFifo, pktPtr, pktEv, pktDone, rxDmaPacket, sm,
                   host, drainVars, accepted>>

writeback1 ==
    /\ simulating
    /\ cache.wbEv = "delay" /\ sm.drain = "Running"
    /\ cache' = [cache EXCEPT !.wbEv = "dma"]
    /\ UNCHANGED <<rxFifo, pktPtr, pktEv, pktDone, rxDmaPacket, sm,
                   host, drainVars, accepted>>

\* DmaPort::handleResp for the last response of a request: the completion event
\* is scheduled, and a draining port with nothing left signals it is drained.
handleResp(c, pkt) ==
    /\ cache' = c
    /\ pktEv' = pkt
    /\ port' = portAfterResp(c, pkt)
    /\ mgr' = signalDrainDone(mgr, port, port')
    /\ UNCHANGED <<rxFifo, pktPtr, pktDone, rxDmaPacket, sm, drv, accepted, delivered>>

fetchResp ==
    /\ simulating
    /\ cache.fetchEv = "dma"
    /\ handleResp([cache EXCEPT !.fetchEv = "comp"], pktEv)
    /\ UNCHANGED <<ring, buf>>

\* The used descriptors, with their DD bits, are in host memory.
wbResp ==
    /\ simulating
    /\ cache.wbEv = "dma"
    /\ handleResp([cache EXCEPT !.wbEv = "comp"], pktEv)
    /\ ring' = [i \in Slot |->
                  IF \E k \in 1 .. cache.wbOut : WbSlots(cache)[k] = i
                  THEN cache.usedCache[i - cache.head + 1].dd
                  ELSE ring[i]]
    /\ UNCHANGED buf

\* The frame is in the buffer of the first unused descriptor.
pktResp ==
    /\ simulating
    /\ pktEv = "dma"
    /\ handleResp(cache, "comp")
    /\ buf' = [buf EXCEPT ![Head(cache.unusedCache).slot] = pktPtr]
    /\ UNCHANGED ring

-----------------------------------------------------------------------------
(* Completion events                                                       *)

\* fetchBuf: the descriptors as they are in host memory.  The slots of a fetch and
\* of a writeback belong to the card while it is out (DescriptorOwnership), so the
\* moment the bytes are copied makes no difference.
fetchBuf == [i \in 1 .. cache.curFetching |->
               [slot |-> FetchSlots(cache)[i], dd |-> ring[FetchSlots(cache)[i]]]]

fetchEvent ==
    /\ simulating
    /\ cache.fetchEv = "comp"
    /\ cache' = fetchComplete(cache, fetchBuf)
    /\ sm' = checkDrain(enableSm(sm), cache', pktEv)
    /\ mgr' = signalDrainDone(mgr, sm.drain, sm'.drain)
    /\ UNCHANGED <<rxFifo, pktPtr, pktEv, pktDone, rxDmaPacket, host, port, accepted>>

\* wbComplete() with RxDescCache::fetchAfterWb().
wbEvent ==
    /\ simulating
    /\ cache.wbEv = "comp"
    /\ LET c == wbComplete(cache)
       IN  /\ sm' = IF c.wbOut = 0 THEN checkDrain(sm, c, pktEv) ELSE sm
           /\ cache' = fetchIf(~ sm'.rxTick /\ sm'.drain = "Running", c)
    /\ mgr' = signalDrainDone(mgr, sm.drain, sm'.drain)
    /\ UNCHANGED <<rxFifo, pktPtr, pktEv, pktDone, rxDmaPacket, host, port, accepted>>

pktComplete ==
    /\ simulating
    /\ pktEv = "comp"
    /\ pktEv' = "idle"
    /\ pktPtr' = 0
    /\ sm' = enableSm(checkDrain(sm, cache, "idle"))
    /\ mgr' = signalDrainDone(mgr, sm.drain, sm'.drain)
    /\ pktDone' = TRUE
    /\ cache' = descDone(cache, [Head(cache.unusedCache) EXCEPT !.dd = TRUE])
    /\ UNCHANGED <<rxFifo, rxDmaPacket, host, port, accepted>>

-----------------------------------------------------------------------------
(* The driver: eth_em_recv_pkts, one iteration of its loop and its end     *)

recvDesc ==
    /\ simulating
    /\ drv.nb_rx < NbPkts
    /\ ring[drv.rx_id]
    /\ delivered' = Append(delivered, buf[drv.rx_id])
    /\ ring' = [ring EXCEPT ![drv.rx_id] = FALSE]
    /\ buf' = [buf EXCEPT ![drv.rx_id] = 0]           \* a fresh mbuf
    /\ drv' = [rx_id |-> IF drv.rx_id + 1 = RingLen THEN 0 ELSE drv.rx_id + 1,
               nb_hold |-> drv.nb_hold + 1,
               nb_rx |-> drv.nb_rx + 1]
    /\ UNCHANGED <<nic, drainVars, accepted>>

\* Fault: RDT is the next descriptor to read, not the one before it.
rdt_atRxId == drv.rx_id

\* The value the driver writes to RDT.
rdt == IF drv.rx_id = 0 THEN RingLen - 1 ELSE drv.rx_id - 1

\* The loop ends when the burst is full, when the next descriptor is not done
\* and, at any point, when no mbuf can be allocated.  The write of RDT is the
\* card's write handler, which fetches unless the card is draining.
recvEnd ==
    /\ simulating
    /\ \/ drv.nb_hold > RxFreeThresh
          /\ cache' = fetchIf(sm.drain = "Running", [cache EXCEPT !.tail = rdt])
          /\ drv' = [drv EXCEPT !.nb_hold = 0, !.nb_rx = 0]
       \/ drv.nb_hold <= RxFreeThresh /\ drv.nb_rx > 0
          /\ drv' = [drv EXCEPT !.nb_rx = 0]
          /\ UNCHANGED cache
    /\ UNCHANGED <<rxFifo, pktPtr, pktEv, pktDone, rxDmaPacket, sm,
                   ring, buf, delivered, drainVars, accepted>>

-----------------------------------------------------------------------------
(* Drain, checkpoint and resume                                            *)

\* tryDrain(), first called by a checkpoint request and again after every
\* "Finished drain" exit, until every object answers Drained.
tryDrain ==
    /\ mgr.state = "Running" \/ (mgr.state = "Draining" /\ mgr.count = 0)
    /\ LET d == IF hasOutstandingEvents(cache, pktEv) THEN "Draining" ELSE "Drained"
           p == IF pendingCount(cache, pktEv) = 0 THEN "Drained" ELSE "Draining"
           left == (IF d = "Draining" THEN 1 ELSE 0) + (IF p = "Draining" THEN 1 ELSE 0)
       IN  /\ sm' = [rxTick |-> FALSE, tickEvent |-> FALSE, drain |-> d]
           /\ port' = p
           /\ mgr' = [state |-> IF left = 0 THEN "Drained" ELSE "Draining", count |-> left]
    /\ UNCHANGED <<cache, rxFifo, pktPtr, pktEv, pktDone, rxDmaPacket, host, accepted>>

resumed ==
    /\ mgr.state = "Drained"
    /\ sm' = restartClock([rxTick |-> TRUE, tickEvent |-> FALSE, drain |-> "Running"])
    /\ port' = "Running"
    /\ mgr' = [state |-> "Running", count |-> 0]

drainResume ==
    /\ resumed
    /\ UNCHANGED <<cache, rxFifo, pktPtr, pktEv, pktDone, rxDmaPacket, host, accepted>>

\* A new simulator process restores the checkpoint: what serialize() writes is
\* kept; rxDmaPacket and pktPtr are not written, and scheduled completion
\* events and requests in the port are lost.
restore ==
    /\ resumed
    /\ rxDmaPacket' = FALSE
    /\ pktPtr' = 0
    /\ pktEv' = "idle"
    /\ LET lost(ev) == IF ev = "delay" THEN "delay" ELSE "idle"
       IN  cache' = [cache EXCEPT !.fetchEv = lost(@), !.wbEv = lost(@)]
    /\ UNCHANGED <<rxFifo, pktDone, host, accepted>>

-----------------------------------------------------------------------------
Card == \/ tick \/ fetchDescriptors1 \/ writeback1
        \/ fetchResp \/ wbResp \/ pktResp
        \/ fetchEvent \/ wbEvent \/ pktComplete

Driver == recvDesc \/ recvEnd

Work == ethRxPkt \/ Card \/ Driver

Next == Work \/ tryDrain \/ drainResume \/ restore

Spec == Init /\ [][Next]_vars

(***************************************************************************)
(* Fairness.  The event queue runs every event that is scheduled, the      *)
(* memory system answers every request, the polling application calls the  *)
(* driver for ever and mbufs are freed again.  m5.drain() calls tryDrain   *)
(* again after every "Finished drain".  Nothing forces a frame to arrive,  *)
(* or a checkpoint to be taken or resumed.                                 *)
(***************************************************************************)
retryDrain == mgr.state = "Draining" /\ tryDrain

Fairness ==
    /\ WF_vars(tick) /\ WF_vars(fetchDescriptors1) /\ WF_vars(writeback1)
    /\ WF_vars(fetchResp) /\ WF_vars(wbResp) /\ WF_vars(pktResp)
    /\ WF_vars(fetchEvent) /\ WF_vars(wbEvent) /\ WF_vars(pktComplete)
    /\ WF_vars(recvDesc) /\ WF_vars(recvEnd) /\ WF_vars(retryDrain)

FairSpec == Spec /\ Fairness

\* No checkpoint is requested.
UndisturbedSpec == Init /\ [][Work]_vars /\ Fairness

-----------------------------------------------------------------------------
(* Properties                                                              *)

\* Descriptors whose DD bit is in host memory while wbComplete() has not yet run.
vis == IF cache.wbEv = "comp" THEN cache.wbOut ELSE 0

\* First slot the card has not written back.
visHead == Advance(cache.head, vis)

\* Steps from ring index i to ring index j.
Dist(i, j) == IF j >= i THEN j - i ELSE j - i + RingLen

\* Descriptors the card has handed to the driver and the driver has not read.
ready == Dist(drv.rx_id, visHead)

\* Frames that are in memory and not yet handed to the driver.
filled == descUsed(cache) - vis

Desc == [slot : Slot, dd : BOOLEAN]

CacheType ==
    [usedCache : Seq(Desc), unusedCache : Seq(Desc), cachePnt : Slot,
     curFetching : Nat, fetchEv : Stage,
     wbOut : Nat, moreToWb : BOOLEAN, wbAlignment : Mask, wbEv : Stage,
     head : Slot, tail : Slot]

\* Type invariant of the receive path.
TypeOK ==
    /\ cache \in CacheType
    /\ rxFifo \in Seq(Nat) /\ Len(rxFifo) <= FifoSize
    /\ pktPtr \in Nat
    /\ pktEv \in {"idle", "dma", "comp"}
    /\ pktDone \in BOOLEAN /\ rxDmaPacket \in BOOLEAN
    /\ sm \in [rxTick : BOOLEAN, tickEvent : BOOLEAN, drain : DrainState]
    /\ port \in DrainState
    /\ mgr \in [state : DrainState, count : Nat]
    /\ ring \in [Slot -> BOOLEAN]
    /\ buf \in [Slot -> Nat]
    /\ drv \in [rx_id : Slot, nb_hold : Nat, nb_rx : Nat]
    /\ accepted \in Nat
    /\ delivered \in Seq(Nat)

(***************************************************************************)
(* No assert() of the receive path fails: the descriptors a writeback pops *)
(* are there, a fetch never runs past the end of the ring, a delay event   *)
(* is never scheduled twice, free_cache never goes below zero, a frame's   *)
(* DMA has its descriptor, and the DrainManager's counter is never         *)
(* decremented at zero.                                                    *)
(***************************************************************************)
AssertsHold ==
    /\ cache.wbOut <= descUsed(cache)
    /\ cache.wbOut = 0 <=> cache.wbEv = "idle"
    /\ cache.curFetching = 0 <=> cache.fetchEv = "idle"
    /\ cache.cachePnt + cache.curFetching <= RingLen
    /\ cache.head + cache.wbOut <= RingLen
    /\ descUsed(cache) + descUnused(cache) + cache.curFetching <= CacheSize
    /\ pktEv # "idle" => descUnused(cache) > 0
    /\ mgr.count = (IF sm.drain = "Draining" THEN 1 ELSE 0)
                     + (IF port = "Draining" THEN 1 ELSE 0)

(***************************************************************************)
(* Every slot of the ring has one owner.  Going round the ring from the    *)
(* tail: the tail and the slots the driver holds back, the slots that are  *)
(* ready for the driver, the filled ones, the cached unused ones, the ones *)
(* the card may still fetch.  The cached descriptors are consecutive, so   *)
(* each one is written back to the slot it was fetched from.               *)
(***************************************************************************)
DescriptorOwnership ==
    /\ drv.nb_hold + 1 + ready + filled + descUnused(cache)
         + Dist(cache.cachePnt, cache.tail) = RingLen
    /\ cache.curFetching <= Dist(cache.cachePnt, cache.tail)
    /\ drv.rx_id = Advance(cache.tail, drv.nb_hold + 1)
    /\ cache.cachePnt = Advance(visHead, filled + descUnused(cache))
    /\ \A i \in vis + 1 .. descUsed(cache) :
          cache.usedCache[i].slot = Advance(visHead, i - vis - 1)
    /\ \A i \in 1 .. descUnused(cache) :
          cache.unusedCache[i].slot = Advance(visHead, filled + i - 1)

(***************************************************************************)
(* The DD bit tells the truth: it is set exactly in the slots that are     *)
(* ready for the driver, and the card never holds as unused a descriptor   *)
(* that the driver has not re-armed.                                       *)
(***************************************************************************)
DDExact ==
    /\ \A s \in Slot : ring[s] <=> Dist(drv.rx_id, s) < ready
    /\ \A i \in 1 .. descUsed(cache) : cache.usedCache[i].dd
    /\ \A i \in 1 .. descUnused(cache) : ~ cache.unusedCache[i].dd

(***************************************************************************)
(* Every accepted frame is in exactly one place and the places are in      *)
(* order: delivered, ready or filled in memory, in the DMA, in the FIFO.   *)
(***************************************************************************)
FrameOrder ==
    LET n == Len(delivered)
        inMemory == ready + filled
        inDma == IF pktEv = "idle" THEN 0 ELSE 1
    IN  /\ \A i \in 1 .. n : delivered[i] = i
        /\ \A s \in Slot : Dist(drv.rx_id, s) < inMemory
                             => buf[s] = n + 1 + Dist(drv.rx_id, s)
        /\ pktEv # "idle" => pktPtr = n + inMemory + 1
        /\ pktEv = "comp" => buf[Head(cache.unusedCache).slot] = pktPtr
        /\ \A i \in 1 .. Len(rxFifo) : rxFifo[i] = n + inMemory + inDma + i
        /\ accepted = n + inMemory + inDma + Len(rxFifo)

(***************************************************************************)
(* rxDmaPacket and pktDone agree with the DMA: the state machine never     *)
(* starts a second frame while one is out, also after a restore.           *)
(***************************************************************************)
DmaFlags ==
    /\ pktEv # "idle" => rxDmaPacket /\ ~ pktDone
    /\ rxDmaPacket /\ pktEv = "idle" => pktDone
    /\ mgr.state = "Drained" => /\ pktEv = "idle"
                                /\ cache.fetchEv \in {"idle", "delay"}
                                /\ cache.wbEv \in {"idle", "delay"}

(***************************************************************************)
(* No lost wake-up: when the card is running, frames wait in the FIFO and  *)
(* the clock is stopped, something that starts it again is on its way (a   *)
(* frame's DMA, a fetch, a writeback that frees the cache) or the driver   *)
(* has handed over no descriptor the card has not fetched.                 *)
(***************************************************************************)
NotStuck ==
    (sm.drain = "Running" /\ rxFifo # <<>> /\ ~ sm.tickEvent)
      => \/ pktEv # "idle" \/ cache.fetchEv # "idle"
         \/ cache.wbEv # "idle" /\ descUsed(cache) + descUnused(cache) = CacheSize
         \/ cache.cachePnt = cache.tail

IInv == TypeOK /\ AssertsHold /\ DescriptorOwnership /\ DDExact /\ FrameOrder /\ DmaFlags

\* The receive path is a channel: what the driver returns is what the card
\* accepted, each frame once and in order, through drains and restores.
Channel == INSTANCE FrameChannel WITH accepted <- accepted, delivered <- delivered

ChannelSpec == Channel!Spec

(***************************************************************************)
(* When the ring is longer than the cache and checkpoints stop being       *)
(* requested, whatever they interrupted before, every accepted frame is    *)
(* eventually delivered or parked: it is in memory, in a used descriptor   *)
(* for which no writeback is out.  (A request for a writeback made while   *)
(* one is out is dropped unless it is less restrictive, so the last frames *)
(* of a burst can stay parked until another frame arrives.)                *)
(***************************************************************************)
DeliveredOrParked ==
    LET parked == IF cache.wbEv = "idle" THEN filled ELSE 0
    IN  <>[](mgr.state = "Running")
          => (Len(delivered) < accepted ~> accepted = Len(delivered) + parked)

(***************************************************************************)
(* A drain that has started completes (sim/drain.hh: an object that has    *)
(* finished draining signals it, and the simulation stops when no object   *)
(* is left undrained).                                                     *)
(***************************************************************************)
DrainCompletes == mgr.state = "Draining" ~> mgr.state = "Drained"

(***************************************************************************)
(* The one way a drain does not complete: a writeback that finishes while  *)
(* the card is draining starts its follow-up, whose delay event then waits *)
(* for the card to be running again.                                       *)
(***************************************************************************)
DrainCompletesOrFollowUp ==
    mgr.state = "Draining" ~>
      \/ mgr.state = "Drained"
      \/ /\ sm.drain = "Draining" /\ cache.wbEv = "delay"
         /\ ~ hasOutstandingEvents(cache, pktEv)

(***************************************************************************)
(* "No descriptors left in ring, forcing writeback" (rxStateMachine): when *)
(* the card has filled its last descriptor, the filled ones are eventually *)
(* written back, or the driver adds descriptors.                           *)
(***************************************************************************)
ForcedWriteback ==
    descLeft(cache) = 0 ~> (descLeft(cache) # 0 \/ descUsed(cache) = 0)

(***************************************************************************)
(* eth_em_recv_pkts writes RDT so as "to guarantee that the RDT register   *)
(* is never equal to the RDH register": a write of RDT leaves the two      *)
(* registers different.                                                    *)
(***************************************************************************)
RdtNeverRdh == [][cache'.tail # cache.tail => cache'.tail # cache'.head]_vars

(***************************************************************************)
(* "rdmts 2->1/8, 1->1/4, 0->1/2" (rxStateMachine): while more than that   *)
(* fraction of the ring is left, and none of the other reasons for a       *)
(* writeback applies, a completed frame starts none.                       *)
(***************************************************************************)
RdmtsHonoured ==
    [][(/\ pktDone /\ ~ pktDone'
        /\ descLeft(cache) * ratio > RingLen
        /\ descLeft(cache) >= LowWater
        /\ rxFifo # <<>>
        /\ Wthresh < descUsed(cache)
        /\ cache.wbOut = 0) => cache'.wbOut = 0]_vars
=============================================================================
