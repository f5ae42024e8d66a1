------------------------------- MODULE IGbETx --------------------------------
(***************************************************************************)
(* The transmit path of the IGbE network card, with the DPDK em poll-mode  *)
(* driver that fills the transmit ring, the link that takes the frames and *)
(* the simulator's drain protocol that stops the card for a checkpoint.    *)
(*                                                                         *)
(*   gem5/src/dev/net/i8254xGBe.cc    TxDescCache, txStateMachine, txWire, *)
(*                                    ethTxDone, drain, checkDrain         *)
(*   gem5/src/dev/net/pktfifo.hh      txFifo                               *)
(*   em_rxtx.c                        eth_em_xmit_pkts, em_xmit_cleanup    *)
(*                                                                         *)
(* The registers are as eth_em_tx_init leaves them: transmitter enabled,   *)
(* TXDCTL.GRAN set, no completion writeback, interrupts masked.            *)
(*                                                                         *)
(* A packet is a list of segments, each in a buffer of its own.  Its bytes *)
(* are numbered from 1, and a frame is the sequence of <<packet, byte>>    *)
(* pairs the card has put together, so that a frame shows where its data   *)
(* came from.  The em driver asks for checksums, never for segmentation; a *)
(* packet with a header length stands for one that another driver hands    *)
(* over to be segmented (TSO), in the ring handling of the em driver.      *)
(***************************************************************************)
EXTENDS DescCache, PacketFifo, FiniteSets

CONSTANTS
    NbPkts,         \* largest nb_pkts of a call to the driver
    Setups          \* the queue configurations and workloads (see Setup)

\* segs: segment lengths; offload: 0 for none, otherwise the checksum context it
\* needs; hdr, mss: header length and segment size of a TSO packet, 0 for none.
Packet == [segs : Seq(Nat \ {0}), offload : Nat, hdr : Nat, mss : Nat]

\* Bytes of packet p before segment s.
Offset(p, s) ==
    LET off[i \in 1 .. Len(p.segs) + 1] == IF i = 1 THEN 0 ELSE off[i - 1] + p.segs[i - 1]
    IN  off[s]
Length(p) == Offset(p, Len(p.segs) + 1)

(***************************************************************************)
(* What eth_em_tx_queue_setup accepts, with one restriction: the initial   *)
(* DD bits are never taken for finished descriptors only when the two      *)
(* thresholds fit in the ring together.  A packet needs no more            *)
(* descriptors than can be cleaned while fewer than tx_rs_thresh wait for  *)
(* their RS bit; its frames fit in the FIFO; and the header of a TSO       *)
(* packet is in its first segment.                                         *)
(***************************************************************************)
Setup ==
    {s \in [wthresh : Nat, tx_rs_thresh : Nat \ {0}, tx_free_thresh : Nat, load : Seq(Packet)] :
       /\ s.tx_rs_thresh <= s.tx_free_thresh /\ s.tx_free_thresh < RingLen - 3
       /\ s.tx_rs_thresh + s.tx_free_thresh <= RingLen
       /\ s.wthresh # 0 => s.tx_rs_thresh = 1
       /\ \A k \in DOMAIN s.load :
            LET p == s.load[k]
            IN  /\ Len(p.segs) \in 1 .. RingLen - s.tx_rs_thresh - 1
                /\ IF p.hdr = 0 THEN Length(p) < FifoSize
                   ELSE /\ p.mss > 0 /\ p.hdr + p.mss < FifoSize
                        /\ p.hdr <= p.segs[1] /\ p.hdr < Length(p)}

ASSUME SetupAssumption == NbPkts \in Nat \ {0} /\ \A s \in Setups : s \in Setup

VARIABLES
    setup,      \* queue configuration and workload, fixed from the start
    cache,      \* txDescCache, with the TDH and TDT registers
    tx,         \* the packet and TSO state of txDescCache (see newTx)
    txPacket,   \* the frame being put together
    pktEv,      \* stage of the DMA of its data: "idle", "dma", "comp"
    hdrEv,      \* stage of the DMA of a TSO header
    txFifo,     \* frames ready for the wire
    sm,         \* [txTick, txFifoTick, tickEvent, drain: the card's DrainState]
    port,       \* the DMA port's DrainState
    mgr,        \* [state, count] of the DrainManager
    link,       \* external: "idle", or "busy" with the last frame
    ring,       \* host memory: the descriptors of the ring
    sw_ring,    \* driver: mbuf and last_id of every ring entry
    txq,        \* driver: the queue's counters (see newQueue)
    posted,     \* history: number of packets the driver has put in the ring
    wire        \* history: the frames handed to the link, in order

data == <<cache, tx, txPacket, pktEv, hdrEv>>
out == <<txFifo, link, wire>>
host == <<ring, sw_ring, txq, posted>>
drainVars == <<port, mgr>>
vars == <<setup, data, out, host, sm, drainVars>>

load == setup.load
Wthresh == setup.wthresh
TxRsThresh == setup.tx_rs_thresh
TxFreeThresh == setup.tx_free_thresh

DrainState == {"Running", "Draining", "Drained"}

\* Once every object is drained the simulation loop has exited and no event runs.
simulating == mgr.state # "Drained"

(***************************************************************************)
(* A descriptor: its ring index, the packet and the segment it is for      *)
(* (segment 0 is the context), the RS bit and the DD bit.                  *)
(***************************************************************************)
isContext(d) == d.seg = 0
tse(d) == load[d.pkt].hdr > 0
getLen(d) == load[d.pkt].segs[d.seg]
eop(d) == d.seg = Len(load[d.pkt].segs)

\* Bytes a + 1 .. a + n of packet k.
bytes(k, a, n) == [i \in 1 .. n |-> <<k, a + i>>]

-----------------------------------------------------------------------------
(* The state after em_reset_tx_queue and eth_em_tx_init                    *)

newTx == [pktDone |-> FALSE, pktWaiting |-> FALSE, pktMultiDesc |-> FALSE,
          useTso |-> FALSE, tsoHeaderLen |-> 0, tsoMss |-> 0,
          tsoTotalLen |-> 0, tsoUsedLen |-> 0,
          tsoHeader |-> 0,           \* packet whose header is loaded, 0 for none
          tsoPktHasHeader |-> FALSE, tsoDescBytesUsed |-> 0, tsoCopyBytes |-> 0]

\* Between calls nb_tx is -1; during a call it counts the packets done.
newQueue == [tx_tail |-> 0, nb_tx_used |-> 0, nb_tx_free |-> RingLen - 1,
             last_desc_cleaned |-> RingLen - 1, ctx_cache |-> 0, nb_tx |-> -1]

Init ==
    /\ setup \in Setups
    /\ cache = EmptyCache
    /\ tx = newTx /\ txPacket = <<>> /\ pktEv = "idle" /\ hdrEv = "idle"
    /\ txFifo = EmptyFifo
    /\ sm = [txTick |-> FALSE, txFifoTick |-> FALSE, tickEvent |-> FALSE, drain |-> "Running"]
    /\ port = "Running"
    /\ mgr = [state |-> "Running", count |-> 0]
    /\ link = "idle"
    /\ ring = [i \in Slot |-> [slot |-> i, pkt |-> 0, seg |-> 0, rs |-> FALSE, dd |-> TRUE]]
    /\ sw_ring = [i \in Slot |-> [mbuf |-> <<0, 0>>, last_id |-> i]]
    /\ txq = newQueue
    /\ posted = 0
    /\ wire = <<>>

-----------------------------------------------------------------------------
(* Clock and drain bookkeeping of the card                                 *)

restartClock(s) ==
    IF (s.txTick \/ s.txFifoTick) /\ s.drain = "Running"
    THEN [s EXCEPT !.tickEvent = TRUE] ELSE s

enableSm(s) ==
    IF s.drain # "Draining" THEN restartClock([s EXCEPT !.txTick = TRUE]) ELSE s

\* Fault: the completion of a data DMA is left out.
hasOutstandingEvents_noPkt(c, pkt) == c.wbEv = "comp" \/ c.fetchEv = "comp"

\* The completion event of a TSO header is not among them.
hasOutstandingEvents(c, pkt) ==
    pkt = "comp" \/ c.wbEv = "comp" \/ c.fetchEv = "comp"

checkDrain(s, c, pkt) ==
    IF s.drain # "Draining" THEN s
    ELSE [s EXCEPT !.txTick = FALSE, !.txFifoTick = FALSE,
                   !.drain = IF hasOutstandingEvents(c, pkt) THEN @ ELSE "Drained"]

signalDrainDone(m, old, new) ==
    IF old = "Draining" /\ new = "Drained" THEN [m EXCEPT !.count = @ - 1] ELSE m

\* DMA requests in the port.
pendingCount(c, pkt, hdr) ==
    Cardinality({k \in 1 .. 4 : <<c.fetchEv, c.wbEv, pkt, hdr>>[k] = "dma"})

wbIf(cond, c, aMask) == IF cond THEN writeback(c, aMask) ELSE c
fetchIf(cond, c) == IF cond THEN fetchDescriptors(c) ELSE c

-----------------------------------------------------------------------------
(* One clock tick: txStateMachine, then txWire                             *)

\* txWire(): the first frame goes to the link unless the link is busy.
wireTakes(f, s) == s.txFifoTick /\ f.packets # <<>> /\ link = "idle"

\* Fault: a frame leaves the FIFO although the link is busy.
fifoAfterWire_busy(f, s) == IF s.txFifoTick /\ f.packets # <<>> THEN pop(f) ELSE f

fifoAfterWire(f, s) == IF wireTakes(f, s) THEN pop(f) ELSE f

\* The end of tick(), with f and s as the state machine leaves txFifo and the
\* clock: txWire(), and the clock goes on if the state machine does.
finishTick(f, s) ==
    /\ txFifo' = fifoAfterWire(f, s)
    /\ wire' = IF wireTakes(f, s) THEN Append(wire, Head(f.packets)) ELSE wire
    /\ link' = IF wireTakes(f, s) THEN "busy" ELSE link
    /\ sm' = [s EXCEPT !.txFifoTick = FALSE, !.tickEvent = s.txTick]

\* packetAvailable(): the flag is cleared by asking.
packetAvailable == tx.pktDone /\ ~ tx.pktMultiDesc /\ txPacket # <<>>
asked == [tx EXCEPT !.pktDone = FALSE]

placeInFifo ==
    /\ packetAvailable
    /\ tx' = asked
    /\ txPacket' = <<>>
    /\ cache' = writeback(cache, BlockMask)
    /\ finishTick(push(txFifo, txPacket), [sm EXCEPT !.txFifoTick = TRUE])
    /\ UNCHANGED <<pktEv, hdrEv>>

\* Nothing to do before the DMA that is out completes.
waitForDma ==
    /\ ~ packetAvailable
    /\ tx.pktWaiting
    /\ tx' = asked
    /\ finishTick(txFifo, [sm EXCEPT !.txTick = FALSE])
    /\ UNCHANGED <<cache, txPacket, pktEv, hdrEv>>

\* The descriptors up to the tail are used up, or none of them is cached.
noDescriptors ==
    /\ ~ packetAvailable /\ ~ tx.pktWaiting
    /\ descUnused(cache) = 0
    /\ tx' = asked
    /\ cache' = fetchDescriptors(wbIf(descLeft(cache) = 0, cache, 0))
    /\ finishTick(txFifo, [sm EXCEPT !.txTick = FALSE])
    /\ UNCHANGED <<txPacket, pktEv, hdrEv>>

\* processContextDesc(): a context at the front is used up at once.  The driver
\* never puts two of them in a row, so the loop runs at most once.
context == isContext(Head(cache.unusedCache)) /\ ~ tx.useTso
ctxCache == IF context THEN descDone(cache, [Head(cache.unusedCache) EXCEPT !.dd = TRUE])
                       ELSE cache
ctxTx ==
    LET d == Head(cache.unusedCache)
        p == load[d.pkt]
        t == [asked EXCEPT !.tsoHeaderLen = p.hdr, !.tsoMss = p.mss]
    IN  IF ~ context THEN asked
        ELSE IF ~ tse(d) THEN t
        ELSE [t EXCEPT !.useTso = TRUE, !.tsoTotalLen = Length(p) - p.hdr,
                       !.tsoHeader = 0, !.tsoDescBytesUsed = 0, !.tsoUsedLen = 0,
                       !.tsoPktHasHeader = FALSE, !.tsoCopyBytes = 0]

needsHeader == ctxTx.useTso /\ ctxTx.tsoHeader = 0 /\ descUnused(ctxCache) # 0

processing == ~ packetAvailable /\ ~ tx.pktWaiting /\ descUnused(cache) # 0

fetchHeader ==
    /\ processing /\ needsHeader
    /\ cache' = ctxCache
    /\ tx' = [ctxTx EXCEPT !.pktWaiting = TRUE]
    /\ hdrEv' = "dma"
    /\ finishTick(txFifo, [sm EXCEPT !.txTick = FALSE])
    /\ UNCHANGED <<txPacket, pktEv>>

\* tsoCopyBytes: what the next DMA takes from the descriptor at the front.
copyBytes(c, t) ==
    MinOf(IF t.tsoPktHasHeader THEN t.tsoMss + t.tsoHeaderLen - Len(txPacket) ELSE t.tsoMss,
          getLen(Head(c.unusedCache)) - t.tsoDescBytesUsed)

getPacketSize(c, t) ==
    IF descUnused(c) = 0 THEN 0
    ELSE IF t.useTso THEN copyBytes(c, t) + (IF t.tsoPktHasHeader THEN 0 ELSE t.tsoHeaderLen)
    ELSE getLen(Head(c.unusedCache))

\* getPacketData(): the header goes in front of a new TSO frame at once, the
\* data follows with the DMA.
getPacketData ==
    LET t == ctxTx
        size == getPacketSize(ctxCache, t)
        n == copyBytes(ctxCache, t)
    IN  /\ processing /\ ~ needsHeader
        /\ size > 0 /\ avail(txFifo) > size
        /\ cache' = ctxCache
        /\ tx' = IF t.useTso THEN [t EXCEPT !.pktWaiting = TRUE, !.tsoPktHasHeader = TRUE,
                                            !.tsoCopyBytes = n, !.tsoDescBytesUsed = @ + n]
                             ELSE [t EXCEPT !.pktWaiting = TRUE]
        /\ txPacket' = IF t.useTso /\ ~ t.tsoPktHasHeader
                       THEN bytes(t.tsoHeader, 0, t.tsoHeaderLen) ELSE txPacket
        /\ pktEv' = "dma"
        /\ finishTick(reserve(txFifo, size), sm)
        /\ UNCHANGED hdrEv

\* No packet to get, or no room in the FIFO for it.  (tsoCopyBytes is left alone: it
\* is computed again before it is used.)
noPacketData ==
    LET size == getPacketSize(ctxCache, ctxTx)
    IN  /\ processing /\ ~ needsHeader
        /\ size = 0 \/ avail(txFifo) <= size
        /\ cache' = wbIf(size = 0, ctxCache, 0)
        /\ tx' = ctxTx
        /\ finishTick(txFifo, [sm EXCEPT !.txTick = (size = 0)])
        /\ UNCHANGED <<txPacket, pktEv, hdrEv>>

txStateMachine ==
    placeInFifo \/ waitForDma \/ noDescriptors \/ fetchHeader \/ getPacketData \/ noPacketData

tick ==
    /\ simulating
    /\ sm.tickEvent
    /\ \/ sm.txTick /\ txStateMachine
       \/ ~ sm.txTick /\ finishTick(txFifo, sm) /\ UNCHANGED data
    /\ UNCHANGED <<setup, host, drainVars>>

-----------------------------------------------------------------------------
(* DMA.  A delay event that fires while the card is not Running only       *)
(* schedules itself again, so the request is issued when it is Running.    *)
(* In atomic memory mode the response follows the request at once, and the *)
(* memory's latency delays the completion event instead.                   *)

startDma(c) ==
    /\ simulating /\ sm.drain = "Running"
    /\ cache' = c
    /\ UNCHANGED <<setup, tx, txPacket, pktEv, hdrEv, out, host, sm, drainVars>>

fetchDescriptors1 == cache.fetchEv = "delay" /\ startDma([cache EXCEPT !.fetchEv = "dma"])
writeback1 == cache.wbEv = "delay" /\ startDma([cache EXCEPT !.wbEv = "dma"])

\* Fault: the port does not signal that it is drained.
portAfterResp_silent(c, pkt, hdr) == port

\* The end of DmaPort::handleResp.
portAfterResp(c, pkt, hdr) ==
    IF port = "Draining" /\ pendingCount(c, pkt, hdr) = 0 THEN "Drained" ELSE port

\* DmaPort::handleResp for the last response of a request.
handleResp(c, pkt, hdr) ==
    /\ simulating
    /\ cache' = c /\ pktEv' = pkt /\ hdrEv' = hdr
    /\ port' = portAfterResp(c, pkt, hdr)
    /\ mgr' = signalDrainDone(mgr, port, port')
    /\ UNCHANGED <<setup, tx, txPacket, out, sw_ring, txq, posted, sm>>

fetchResp ==
    /\ cache.fetchEv = "dma"
    /\ handleResp([cache EXCEPT !.fetchEv = "comp"], pktEv, hdrEv)
    /\ UNCHANGED ring

\* The used descriptors are in host memory, every one as a whole.
wbResp ==
    /\ cache.wbEv = "dma"
    /\ handleResp([cache EXCEPT !.wbEv = "comp"], pktEv, hdrEv)
    /\ ring' = [i \in Slot |-> IF \E k \in 1 .. cache.wbOut : WbSlots(cache)[k] = i
                               THEN cache.usedCache[i - cache.head + 1] ELSE ring[i]]

pktResp == pktEv = "dma" /\ handleResp(cache, "comp", hdrEv) /\ UNCHANGED ring
hdrResp == hdrEv = "dma" /\ handleResp(cache, pktEv, "comp") /\ UNCHANGED ring

-----------------------------------------------------------------------------
(* Completion events                                                       *)

fetchBuf == [i \in 1 .. cache.curFetching |-> ring[FetchSlots(cache)[i]]]

fetchEvent ==
    /\ simulating
    /\ cache.fetchEv = "comp"
    /\ cache' = fetchComplete(cache, fetchBuf)
    /\ sm' = checkDrain(enableSm(sm), cache', pktEv)
    /\ mgr' = signalDrainDone(mgr, sm.drain, sm'.drain)
    /\ UNCHANGED <<setup, tx, txPacket, pktEv, hdrEv, out, host, port>>

\* wbComplete() with TxDescCache::fetchAfterWb().
wbEvent ==
    /\ simulating
    /\ cache.wbEv = "comp"
    /\ LET c == wbComplete(cache)
       IN  /\ sm' = IF c.wbOut = 0 THEN checkDrain(sm, c, pktEv) ELSE sm
           /\ cache' = fetchIf(~ sm'.txTick /\ sm'.drain = "Running", c)
    /\ mgr' = signalDrainDone(mgr, sm.drain, sm'.drain)
    /\ UNCHANGED <<setup, tx, txPacket, pktEv, hdrEv, out, host, port>>

headerComplete ==
    LET d == Head(cache.unusedCache)
        alone == getLen(d) = tx.tsoHeaderLen
    IN  /\ simulating
        /\ hdrEv = "comp" /\ hdrEv' = "idle"
        /\ tx' = [tx EXCEPT !.pktWaiting = FALSE, !.tsoHeader = d.pkt,
                            !.tsoDescBytesUsed = IF alone THEN 0 ELSE tx.tsoHeaderLen]
        /\ cache' = IF alone THEN descDone(cache, d) ELSE cache
        /\ sm' = checkDrain(enableSm(sm), cache, pktEv)
        /\ mgr' = signalDrainDone(mgr, sm.drain, sm'.drain)
        /\ UNCHANGED <<setup, txPacket, pktEv, out, host, port>>

\* The bytes that the DMA has added to the frame.
dmaBytes(d) ==
    IF tx.useTso
    THEN bytes(d.pkt, Offset(load[d.pkt], d.seg) + tx.tsoDescBytesUsed - tx.tsoCopyBytes,
               tx.tsoCopyBytes)
    ELSE bytes(d.pkt, Offset(load[d.pkt], d.seg), getLen(d))

usedLen == IF tx.useTso THEN tx.tsoUsedLen + tx.tsoCopyBytes ELSE tx.tsoUsedLen

\* Fault: a TSO frame ends with its descriptor.
partial_eop(d, frame) == ~ eop(d) /\ ~ tx.useTso

\* More descriptors follow for this frame.
partial(d, frame) ==
    IF tx.useTso THEN Len(frame) < tx.tsoMss + tx.tsoHeaderLen /\ tx.tsoTotalLen # usedLen
                 ELSE ~ eop(d)

\* The writebacks at the end of a frame.
wbAfterPkt(c) ==
    IF Wthresh = 0 THEN writeback(c, 0) ELSE wbIf(Wthresh <= descUsed(c), c, BlockMask)

pktPartial(d, frame) ==
    /\ partial(d, frame)
    /\ cache' = descDone(cache, d)
    /\ tx' = [tx EXCEPT !.tsoUsedLen = usedLen, !.tsoDescBytesUsed = 0, !.pktDone = TRUE,
                        !.pktWaiting = FALSE, !.pktMultiDesc = TRUE]

pktFinal(d, frame) ==
    LET done == [d EXCEPT !.dd = @ \/ d.rs]
        finished == ~ tx.useTso \/ getLen(d) = tx.tsoDescBytesUsed
        c == IF finished THEN descDone(cache, done)
                         ELSE [cache EXCEPT !.unusedCache = <<done>> \o Tail(@)]
    IN  /\ ~ partial(d, frame)
        /\ cache' = wbAfterPkt(c)
        /\ tx' = [tx EXCEPT !.tsoUsedLen = usedLen,
                            !.tsoDescBytesUsed = IF finished THEN 0 ELSE @,
                            !.useTso = @ /\ usedLen # tx.tsoTotalLen,
                            !.tsoPktHasHeader = FALSE, !.pktDone = TRUE,
                            !.pktWaiting = FALSE, !.pktMultiDesc = FALSE]

pktComplete ==
    LET d == Head(cache.unusedCache)
        frame == txPacket \o dmaBytes(d)
    IN  /\ simulating
        /\ pktEv = "comp" /\ pktEv' = "idle"
        /\ txPacket' = frame
        /\ pktPartial(d, frame) \/ pktFinal(d, frame)
        /\ sm' = checkDrain(enableSm(sm), cache, "idle")
        /\ mgr' = signalDrainDone(mgr, sm.drain, sm'.drain)
        /\ UNCHANGED <<setup, hdrEv, out, host, port>>

\* Fault: the state machine is not started again for the descriptors that a full
\* FIFO has kept waiting.
ticksAfterTx_fifoOnly(s) == [s EXCEPT !.txFifoTick = s.drain # "Draining"]

ticksAfterTx(s) ==
    [s EXCEPT !.txFifoTick = s.drain # "Draining",
              !.txTick = @ \/ (descLeft(cache) # 0 /\ s.drain # "Draining")]

\* The link has sent the frame: ethTxDone().
ethTxDone ==
    /\ simulating
    /\ link = "busy" /\ link' = "idle"
    /\ sm' = restartClock(ticksAfterTx(sm))
    /\ UNCHANGED <<setup, data, txFifo, wire, host, drainVars>>

-----------------------------------------------------------------------------
(* The driver: eth_em_xmit_pkts                                            *)

\* em_xmit_cleanup(): the last descriptor of the packet tx_rs_thresh away.
desc_to_clean_to == sw_ring[Advance(txq.last_desc_cleaned, TxRsThresh)].last_id

\* Fault: the first descriptor to clean is looked at, not the last.
cleanable_first == ring[Advance(txq.last_desc_cleaned, 1)].dd

cleanable == ring[desc_to_clean_to].dd

\* Steps from ring index i to ring index j.
Dist(i, j) == IF i > j THEN RingLen - i + j ELSE j - i

\* Fault: tx_rs_thresh descriptors are counted as free, not those cleaned.
cleaned_thresh == [txq EXCEPT !.last_desc_cleaned = desc_to_clean_to,
                              !.nb_tx_free = @ + TxRsThresh]

cleaned == [txq EXCEPT !.last_desc_cleaned = desc_to_clean_to,
                       !.nb_tx_free = @ + Dist(txq.last_desc_cleaned, desc_to_clean_to)]

\* The descriptors the next packet needs: one per segment, and a context unless
\* what_ctx_update() finds the last one to fit.
pkt == load[posted + 1]
new_ctx == (pkt.offload # 0 /\ pkt.offload # txq.ctx_cache) \/ pkt.hdr > 0
nb_used == Len(pkt.segs) + (IF new_ctx THEN 1 ELSE 0)

inCall == simulating /\ txq.nb_tx >= 0
hasPkt == txq.nb_tx < NbPkts /\ posted < Len(load)

xmitStart ==
    /\ simulating
    /\ txq.nb_tx = -1 /\ posted < Len(load)
    /\ LET clean == txq.nb_tx_free < TxFreeThresh /\ cleanable
       IN  /\ txq' = [(IF clean THEN cleaned ELSE txq) EXCEPT !.nb_tx = 0]
           /\ ring' = IF clean THEN [ring EXCEPT ![desc_to_clean_to].dd = FALSE] ELSE ring
    /\ UNCHANGED <<setup, data, out, sw_ring, posted, sm, drainVars>>

xmitClean ==
    /\ inCall /\ hasPkt
    /\ nb_used > txq.nb_tx_free
    /\ cleanable
    /\ txq' = cleaned
    /\ ring' = [ring EXCEPT ![desc_to_clean_to].dd = FALSE]
    /\ UNCHANGED <<setup, data, out, sw_ring, posted, sm, drainVars>>

\* Fault: the RS bit comes one descriptor late.
rsBit_late(used) == used > TxRsThresh

\* Whether the packet that brings nb_tx_used to used asks for its status.
rsBit(used) == used >= TxRsThresh

xmitPkt ==
    LET used == txq.nb_tx_used + nb_used
        tx_last == Advance(txq.tx_tail, nb_used - 1)
        nth(i) == Dist(txq.tx_tail, i)
        seg(i) == IF new_ctx THEN nth(i) ELSE nth(i) + 1
    IN  /\ inCall /\ hasPkt
        /\ nb_used <= txq.nb_tx_free
        /\ ring' = [i \in Slot |->
                      IF nth(i) >= nb_used THEN ring[i]
                      ELSE [slot |-> i, pkt |-> posted + 1, seg |-> seg(i), dd |-> FALSE,
                            rs |-> i = tx_last /\ rsBit(used)]]
        /\ sw_ring' = [i \in Slot |->
                         IF nth(i) >= nb_used THEN sw_ring[i]
                         ELSE [mbuf |-> IF seg(i) = 0 THEN <<0, 0>> ELSE <<posted + 1, seg(i)>>,
                               last_id |-> tx_last]]
        /\ txq' = [txq EXCEPT !.tx_tail = Advance(@, nb_used),
                              !.nb_tx_used = IF rsBit(used) THEN 0 ELSE used,
                              !.nb_tx_free = @ - nb_used,
                              !.ctx_cache = IF new_ctx THEN pkt.offload ELSE @,
                              !.nb_tx = @ + 1]
        /\ posted' = posted + 1
        /\ UNCHANGED <<setup, data, out, sm, drainVars>>

\* The call ends when the application's packets are used up (it passes any
\* number up to NbPkts) or no descriptor can be cleaned for the next one.  The
\* write of TDT is the card's handler, which fetches unless it is draining.
xmitEnd ==
    /\ inCall
    /\ \/ txq.nb_tx > 0
          /\ cache' = fetchIf(sm.drain = "Running", [cache EXCEPT !.tail = txq.tx_tail])
       \/ txq.nb_tx = 0 /\ nb_used > txq.nb_tx_free /\ ~ cleanable
          /\ UNCHANGED cache
    /\ txq' = [txq EXCEPT !.nb_tx = -1]
    /\ UNCHANGED <<setup, tx, txPacket, pktEv, hdrEv, out, ring, sw_ring, posted, sm, drainVars>>

-----------------------------------------------------------------------------
(* Drain, checkpoint and resume                                            *)

\* tryDrain() runs outside the simulation loop.
tryDrain ==
    /\ mgr.state = "Running" \/ (mgr.state = "Draining" /\ mgr.count = 0)
    /\ LET d == IF hasOutstandingEvents(cache, pktEv) THEN "Draining" ELSE "Drained"
           p == IF pendingCount(cache, pktEv, hdrEv) = 0 THEN "Drained" ELSE "Draining"
           left == Cardinality({k \in 1 .. 2 : <<d, p>>[k] = "Draining"})
       IN  /\ sm' = [txTick |-> FALSE, txFifoTick |-> FALSE, tickEvent |-> FALSE, drain |-> d]
           /\ port' = p
           /\ mgr' = [state |-> IF left = 0 THEN "Drained" ELSE "Draining", count |-> left]
    /\ UNCHANGED <<setup, data, out, host>>

resumed ==
    /\ mgr.state = "Drained"
    /\ sm' = restartClock([txTick |-> TRUE, txFifoTick |-> TRUE, tickEvent |-> FALSE,
                           drain |-> "Running"])
    /\ port' = "Running"
    /\ mgr' = [state |-> "Running", count |-> 0]

drainResume == resumed /\ UNCHANGED <<setup, data, out, host>>

\* A new simulator process restores the checkpoint: serialize() writes all of
\* the state but the DMAs and the completion events that are scheduled.
restore ==
    /\ resumed
    /\ pktEv' = "idle" /\ hdrEv' = "idle"
    /\ LET lost(ev) == IF ev = "delay" THEN "delay" ELSE "idle"
       IN  cache' = [cache EXCEPT !.fetchEv = lost(@), !.wbEv = lost(@)]
    /\ UNCHANGED <<setup, tx, txPacket, out, host>>

-----------------------------------------------------------------------------
Card == \/ tick \/ fetchDescriptors1 \/ writeback1
        \/ fetchResp \/ wbResp \/ pktResp \/ hdrResp
        \/ fetchEvent \/ wbEvent \/ headerComplete \/ pktComplete \/ ethTxDone

Driver == xmitStart \/ xmitClean \/ xmitPkt \/ xmitEnd

Next == Card \/ Driver \/ tryDrain \/ drainResume \/ restore

Spec == Init /\ [][Next]_vars

(***************************************************************************)
(* Fairness.  The event queue runs every event that is scheduled, the      *)
(* memory system answers every request, the link sends what it has taken   *)
(* and the application calls the driver until its packets are sent.        *)
(* m5.drain() calls tryDrain again after every "Finished drain".  Nothing  *)
(* forces a checkpoint to be taken or resumed.                             *)
(***************************************************************************)
retryDrain == mgr.state = "Draining" /\ tryDrain

Fairness ==
    /\ WF_vars(tick) /\ WF_vars(fetchDescriptors1) /\ WF_vars(writeback1)
    /\ WF_vars(fetchResp) /\ WF_vars(wbResp) /\ WF_vars(pktResp) /\ WF_vars(hdrResp)
    /\ WF_vars(fetchEvent) /\ WF_vars(wbEvent) /\ WF_vars(headerComplete)
    /\ WF_vars(pktComplete) /\ WF_vars(ethTxDone)
    /\ WF_vars(xmitStart) /\ WF_vars(xmitClean) /\ WF_vars(xmitPkt) /\ WF_vars(xmitEnd)
    /\ WF_vars(retryDrain)

FairSpec == Spec /\ Fairness

-----------------------------------------------------------------------------
(* Properties                                                              *)

Desc == [slot : Slot, pkt : Nat, seg : Nat, rs : BOOLEAN, dd : BOOLEAN]
Frame == Seq(Nat \X Nat)

\* Type invariant of the transmit path.
TypeOK ==
    /\ setup \in Setups
    /\ cache \in [usedCache : Seq(Desc), unusedCache : Seq(Desc), cachePnt : Slot,
                   curFetching : 0 .. CacheSize, fetchEv : Stage,
                   wbOut : 0 .. CacheSize, moreToWb : BOOLEAN, wbAlignment : Mask,
                   wbEv : Stage, head : Slot, tail : Slot]
    /\ tx \in [pktDone : BOOLEAN, pktWaiting : BOOLEAN, pktMultiDesc : BOOLEAN,
                useTso : BOOLEAN, tsoHeaderLen : Nat, tsoMss : Nat, tsoTotalLen : Nat,
                tsoUsedLen : Nat, tsoHeader : Nat, tsoPktHasHeader : BOOLEAN,
                tsoDescBytesUsed : Nat, tsoCopyBytes : Nat]
    /\ txPacket \in Frame
    /\ pktEv \in {"idle", "dma", "comp"} /\ hdrEv \in {"idle", "dma", "comp"}
    /\ txFifo \in [packets : Seq(Frame), size : 0 .. FifoSize, reserved : 0 .. FifoSize]
    /\ sm \in [txTick : BOOLEAN, txFifoTick : BOOLEAN, tickEvent : BOOLEAN, drain : DrainState]
    /\ port \in DrainState
    /\ mgr \in [state : DrainState, count : 0 .. 2]
    /\ link \in {"idle", "busy"}
    /\ ring \in [Slot -> Desc]
    /\ sw_ring \in [Slot -> [mbuf : Nat \X Nat, last_id : Slot]]
    /\ txq \in [tx_tail : Slot, nb_tx_used : 0 .. TxRsThresh - 1, nb_tx_free : 0 .. RingLen - 1,
                 last_desc_cleaned : Slot, ctx_cache : Nat, nb_tx : -1 .. NbPkts]
    /\ posted \in 0 .. Len(load)
    /\ wire \in Seq(Frame)

(***************************************************************************)
(* The assertions of the transmit code: a frame fits in the FIFO when it   *)
(* is pushed; a DMA completes with its descriptor still at the front; a    *)
(* TSO header is in the first data descriptor and is loaded before data    *)
(* is; a descriptor given up in the middle of a frame has been read to its *)
(* end, and no more than a descriptor holds is read.                       *)
(***************************************************************************)
AssertsHold ==
    LET d == Head(cache.unusedCache)
    IN  /\ packetAvailable => pushable(txFifo, txPacket)
        /\ pktEv # "idle" \/ hdrEv # "idle" => cache.unusedCache # <<>> /\ ~ isContext(d)
        /\ hdrEv # "idle" => getLen(d) >= tx.tsoHeaderLen
        /\ tx.useTso /\ pktEv # "idle" => tx.tsoHeader # 0 /\ tx.tsoDescBytesUsed <= getLen(d)
        /\ pktEv = "comp" =>
             LET frame == txPacket \o dmaBytes(d)
             IN  /\ tx.useTso /\ partial(d, frame) => tx.tsoDescBytesUsed = getLen(d)
                 /\ ~ tx.useTso /\ ~ partial(d, frame) => eop(d)
        /\ cache.curFetching <= CacheSize - descUsed(cache) - descUnused(cache)
        /\ cache.wbOut <= descUsed(cache)
        /\ (cache.curFetching = 0) = (cache.fetchEv = "idle")
        /\ (cache.wbOut = 0) = (cache.wbEv = "idle")

\* Descriptors whose writeback is in host memory while wbComplete() has not run.
vis == IF cache.wbEv = "comp" THEN cache.wbOut ELSE 0
visHead == Advance(cache.head, vis)
firstUsed == Advance(txq.last_desc_cleaned, 1)

(***************************************************************************)
(* em_xmit_cleanup: "The last descriptor to clean is done, so that means   *)
(* all the descriptors from the last descriptor that was cleaned up to the *)
(* last descriptor with the RS bit set are done."  nb_tx_free counts       *)
(* exactly the entries the driver does not have in use, and the entries    *)
(* from the first the card has not written back to its tail are in use.    *)
(***************************************************************************)
RingOwnership ==
    /\ txq.nb_tx_free = RingLen - 1 - Dist(firstUsed, txq.tx_tail)
    /\ Dist(firstUsed, txq.tx_tail)
         = Dist(firstUsed, visHead) + Dist(visHead, cache.tail) + Dist(cache.tail, txq.tx_tail)

(***************************************************************************)
(* The driver frees a buffer when it uses its ring entry again: whatever   *)
(* the card has yet to read, in the ring or in its cache, is still the     *)
(* descriptor the driver wrote, with its buffer held in sw_ring.           *)
(***************************************************************************)
BuffersHeld ==
    LET held(d) == /\ [ring[d.slot] EXCEPT !.dd = d.dd] = d
                   /\ d.seg > 0 => sw_ring[d.slot].mbuf = <<d.pkt, d.seg>>
    IN  /\ \A k \in DOMAIN cache.unusedCache : held(cache.unusedCache[k])
        /\ \A i \in Slot : Dist(cache.cachePnt, i) < Dist(cache.cachePnt, cache.tail)
                             => held(ring[i])

(***************************************************************************)
(* What the application asked to be sent for packet k: the packet, or one  *)
(* frame per tsoMss bytes of payload, each behind a copy of the header.    *)
(***************************************************************************)
Frames(k) ==
    LET p == load[k]
        payload == Length(p) - p.hdr
        frame(i) == bytes(k, 0, p.hdr) \o bytes(k, p.hdr + (i - 1) * p.mss,
                                                MinOf(p.mss, payload - (i - 1) * p.mss))
    IN  IF p.hdr = 0 THEN <<bytes(k, 0, Length(p))>>
        ELSE [i \in 1 .. (payload + p.mss - 1) \div p.mss |-> frame(i)]

AllFrames ==
    LET upTo[k \in 0 .. Len(load)] == IF k = 0 THEN <<>> ELSE upTo[k - 1] \o Frames(k)
    IN  upTo[posted]

(***************************************************************************)
(* Every byte of every frame on the wire or ready for it is the one the    *)
(* application asked for, in order: nothing is lost, repeated or mixed up  *)
(* by multi-descriptor packets, segmentation, a full FIFO or a restore.    *)
(***************************************************************************)
WireExact ==
    LET done == wire \o txFifo.packets \o (IF packetAvailable THEN <<txPacket>> ELSE <<>>)
    IN  Len(done) <= Len(AllFrames) /\ done = SubSeq(AllFrames, 1, Len(done))

\* The state machine waits for a DMA, and none is out.
headerLost == tx.pktWaiting /\ pktEv = "idle" /\ hdrEv = "idle"

(***************************************************************************)
(* pktWaiting is saved in a checkpoint and the DMA it waits for is not.    *)
(* It is set while a DMA is out or its completion is scheduled, at most    *)
(* one of the two DMAs is out at a time, and in a drained system only the  *)
(* completion of a TSO header can be scheduled, which drain() does not ask *)
(* for.  So a restored card never waits for packet data that nobody will   *)
(* complete, and what it may wait for in vain is a header not yet loaded.  *)
(***************************************************************************)
DmaFlags ==
    /\ pktEv # "idle" \/ hdrEv # "idle" => tx.pktWaiting
    /\ pktEv = "idle" \/ hdrEv = "idle"
    /\ tx.pktDone => ~ tx.pktWaiting
    /\ mgr.state = "Drained" => pktEv = "idle" /\ hdrEv # "dma"
    /\ hdrEv # "idle" \/ headerLost => tx.useTso /\ tx.tsoHeader = 0

(***************************************************************************)
(* "return true if all objects are in a the Drained state at which point   *)
(* the whole simulator is in a consistent state and ready for              *)
(* checkpointing" (DrainManager::tryDrain): a drained card waits for no    *)
(* completion, which the checkpoint would not hold.                        *)
(***************************************************************************)
DrainedIsConsistent == mgr.state = "Drained" => pktEv = "idle" /\ hdrEv = "idle"

\* The packets whose last frame is on the wire.
sentPkts ==
    LET last(f) == f[Len(f)]
        finals == SelectSeq(wire, LAMBDA f : last(f)[2] = Length(load[last(f)[1]]))
    IN  [i \in DOMAIN finals |-> last(finals[i])[1]]

(***************************************************************************)
(* The transmit path implements the frame channel: each packet the driver  *)
(* puts in the ring is sent exactly once and in order.                     *)
(***************************************************************************)
Channel == INSTANCE FrameChannel WITH accepted <- posted, delivered <- sentPkts

ChannelSpec == Channel!Spec

\* The cache is full of used descriptors that no writeback is out for.
stalled == descUsed(cache) = CacheSize /\ cache.wbEv = "idle"

(***************************************************************************)
(* Once checkpoints stop being requested, every packet in the ring is sent *)
(* unless the card stalls for ever or was restored without the completion  *)
(* of a header: txTick and txFifoTick are cleared in many places and every *)
(* other reason to stop has an event that sets them again.                 *)
(***************************************************************************)
Transmitted ==
    <>[](mgr.state = "Running") =>
      \/ Len(sentPkts) < posted ~> Len(sentPkts) = posted
      \/ <>[] stalled
      \/ <>[] headerLost

\* The card has used the descriptor whose DD bit the driver waits for, and keeps it
\* in its cache with no writeback out.
parked ==
    /\ cache.wbEv = "idle"
    /\ \E k \in DOMAIN cache.usedCache : cache.usedCache[k].slot = desc_to_clean_to

(***************************************************************************)
(* Once checkpoints stop being requested, the driver finds room for every  *)
(* packet unless the transmitter has stopped or the descriptor it waits    *)
(* for stays parked in the card (a writeback asked for while one is out is *)
(* dropped).                                                               *)
(***************************************************************************)
DriverProgress ==
    <>[](mgr.state = "Running") =>
      <>(posted = Len(load)) \/ <>[] parked \/ <>[] stalled \/ <>[] headerLost

(***************************************************************************)
(* A drain completes, whatever DMA of a packet or a header it finds out,   *)
(* unless a writeback that finishes meanwhile starts its follow-up.        *)
(***************************************************************************)
DrainCompletesOrFollowUp ==
    mgr.state = "Draining" ~>
      \/ mgr.state = "Drained"
      \/ /\ sm.drain = "Draining" /\ cache.wbEv = "delay"
         /\ ~ hasOutstandingEvents(cache, pktEv)

(***************************************************************************)
(* "No descriptors available in cache, fetching and stopping ticking": the *)
(* descriptors up to the tail do get into the cache, once checkpoints stop *)
(* being requested.                                                        *)
(***************************************************************************)
FetchFollows ==
    <>[](mgr.state = "Running") =>
      (descUnused(cache) = 0 /\ descLeft(cache) # 0 ~> descUnused(cache) # 0)
=============================================================================
