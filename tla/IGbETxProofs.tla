---------------------------- MODULE IGbETxProofs -----------------------------
(***************************************************************************)
(* The transmit state machine waits while a DMA is out, and of the two     *)
(* DMAs a checkpoint can lose only the header's completion, for every      *)
(* queue set-up, workload, ring, cache and FIFO size.                      *)
(***************************************************************************)
EXTENDS IGbETx, FiniteSetTheorems, TLAPS

\* The parts of the state the argument is about.
Shape ==
    /\ {"pktDone", "pktWaiting", "useTso", "tsoHeader"} \subseteq DOMAIN tx
    /\ "state" \in DOMAIN mgr
    /\ pktEv \in {"idle", "dma", "comp"} /\ hdrEv \in {"idle", "dma", "comp"}

IInv == Shape /\ DmaFlags

\* A step that touches neither the DMAs nor the flags.
LEMMA QuietStep ==
    ASSUME IInv, pktEv' = pktEv, hdrEv' = hdrEv, tx' = tx, mgr' = mgr
    PROVE  IInv'
BY DEF IInv, Shape, DmaFlags, headerLost

\* The signal to the DrainManager changes its count only.
LEMMA SignalState ==
    ASSUME NEW m, NEW a, NEW b, "state" \in DOMAIN m
    PROVE  /\ signalDrainDone(m, a, b).state = m.state
           /\ "state" \in DOMAIN signalDrainDone(m, a, b)
BY DEF signalDrainDone

LEMMA InitIInv == Init => IInv
<1> SUFFICES ASSUME Init PROVE IInv
  OBVIOUS
<1>1. /\ {"pktDone", "pktWaiting", "useTso", "tsoHeader"} \subseteq DOMAIN tx
      /\ tx.pktDone = FALSE /\ tx.pktWaiting = FALSE
  BY DEF Init, newTx
<1>2. "state" \in DOMAIN mgr /\ mgr.state = "Running" /\ pktEv = "idle" /\ hdrEv = "idle"
  BY DEF Init
<1> QED BY <1>1, <1>2 DEF IInv, Shape, DmaFlags, headerLost

\* What asking for a packet and a context descriptor do to the two flags.
LEMMA AskedFlags ==
    ASSUME Shape
    PROVE  /\ DOMAIN asked = DOMAIN tx /\ DOMAIN ctxTx = DOMAIN tx
           /\ asked.pktDone = FALSE /\ asked.pktWaiting = tx.pktWaiting
           /\ asked.useTso = tx.useTso /\ asked.tsoHeader = tx.tsoHeader
           /\ ctxTx.pktDone = FALSE /\ ctxTx.pktWaiting = tx.pktWaiting
<1>1. /\ DOMAIN asked = DOMAIN tx
      /\ asked.pktDone = FALSE /\ asked.pktWaiting = tx.pktWaiting
      /\ asked.useTso = tx.useTso /\ asked.tsoHeader = tx.tsoHeader
  BY DEF Shape, asked
<1> DEFINE d == Head(cache.unusedCache)
           p == load[d.pkt]
           t == [asked EXCEPT !.tsoHeaderLen = p.hdr, !.tsoMss = p.mss]
           u == [t EXCEPT !.useTso = TRUE, !.tsoTotalLen = Length(p) - p.hdr,
                          !.tsoHeader = 0, !.tsoDescBytesUsed = 0, !.tsoUsedLen = 0,
                          !.tsoPktHasHeader = FALSE, !.tsoCopyBytes = 0]
<1>2. ctxTx = asked \/ ctxTx = t \/ ctxTx = u
  BY DEF ctxTx
<1> HIDE DEF d, p
<1>3. DOMAIN t = DOMAIN asked /\ t.pktDone = asked.pktDone /\ t.pktWaiting = asked.pktWaiting
  BY <1>1 DEF Shape
<1>4. DOMAIN u = DOMAIN t /\ u.pktDone = t.pktDone /\ u.pktWaiting = t.pktWaiting
  BY <1>1, <1>3 DEF Shape
<1> HIDE DEF t, u
<1> QED BY <1>1, <1>2, <1>3, <1>4

\* One clock tick: only a DMA that is started sets pktWaiting.
LEMMA TickIInv ==
    ASSUME IInv, tick
    PROVE  IInv'
<1>1. Shape /\ DmaFlags /\ mgr.state # "Drained" /\ mgr' = mgr
  BY DEF IInv, tick, simulating, drainVars
<1>2. CASE UNCHANGED data
  BY <1>1, <1>2, QuietStep DEF data
<1>3. CASE placeInFifo \/ waitForDma \/ noDescriptors
  <2>1. tx' = asked /\ pktEv' = pktEv /\ hdrEv' = hdrEv
    BY <1>3 DEF placeInFifo, waitForDma, noDescriptors
  <2> QED BY <1>1, <2>1, AskedFlags DEF IInv, Shape, DmaFlags, headerLost
<1>4. CASE noPacketData
  <2>1. ~ tx.pktWaiting /\ tx' = ctxTx /\ pktEv' = pktEv /\ hdrEv' = hdrEv
    BY <1>4 DEF noPacketData, processing
  <2> QED BY <1>1, <2>1, AskedFlags DEF IInv, Shape, DmaFlags, headerLost
<1>5. CASE fetchHeader
  <2>1. /\ ~ tx.pktWaiting /\ hdrEv' = "dma" /\ pktEv' = pktEv
        /\ tx' = [ctxTx EXCEPT !.pktWaiting = TRUE]
        /\ ctxTx.useTso /\ ctxTx.tsoHeader = 0
    BY <1>5 DEF fetchHeader, processing, needsHeader
  <2>2. pktEv = "idle" /\ hdrEv = "idle"
    BY <1>1, <2>1 DEF DmaFlags
  <2>3. /\ DOMAIN tx' = DOMAIN tx /\ tx'.pktWaiting = TRUE /\ tx'.pktDone = FALSE
        /\ tx'.useTso /\ tx'.tsoHeader = 0
    BY <1>1, <2>1, AskedFlags DEF Shape
  <2> QED BY <1>1, <2>1, <2>2, <2>3 DEF IInv, Shape, DmaFlags, headerLost
<1>6. CASE getPacketData
  <2> DEFINE n == copyBytes(ctxCache, ctxTx)
             t == [ctxTx EXCEPT !.pktWaiting = TRUE, !.tsoPktHasHeader = TRUE,
                                !.tsoCopyBytes = n, !.tsoDescBytesUsed = @ + n]
             u == [ctxTx EXCEPT !.pktWaiting = TRUE]
  <2>1. ~ tx.pktWaiting /\ pktEv' = "dma" /\ hdrEv' = hdrEv /\ (tx' = t \/ tx' = u)
    BY <1>6 DEF getPacketData, processing
  <2>2. pktEv = "idle" /\ hdrEv = "idle"
    BY <1>1, <2>1 DEF DmaFlags
  <2> HIDE DEF n
  <2>3. DOMAIN t = DOMAIN tx /\ t.pktWaiting = TRUE /\ t.pktDone = FALSE
    BY <1>1, AskedFlags DEF Shape
  <2>4. DOMAIN u = DOMAIN tx /\ u.pktWaiting = TRUE /\ u.pktDone = FALSE
    BY <1>1, AskedFlags DEF Shape
  <2> HIDE DEF t, u
  <2> QED BY <1>1, <2>1, <2>2, <2>3, <2>4 DEF IInv, Shape, DmaFlags, headerLost
<1> QED BY <1>2, <1>3, <1>4, <1>5, <1>6 DEF tick, txStateMachine

\* A response moves a DMA from "dma" to "comp", and the flags stay.
LEMMA RespIInv ==
    ASSUME IInv, fetchResp \/ wbResp \/ pktResp \/ hdrResp
    PROVE  IInv'
<1>1. mgr'.state = mgr.state /\ "state" \in DOMAIN mgr' /\ tx' = tx /\ mgr.state # "Drained"
  BY SignalState DEF IInv, Shape, fetchResp, wbResp, pktResp, hdrResp, handleResp, simulating
<1>2. \/ pktEv' = pktEv /\ hdrEv' = hdrEv
      \/ pktEv = "dma" /\ pktEv' = "comp" /\ hdrEv' = hdrEv
      \/ hdrEv = "dma" /\ hdrEv' = "comp" /\ pktEv' = pktEv
  BY DEF fetchResp, wbResp, pktResp, hdrResp, handleResp
<1> QED BY <1>1, <1>2 DEF IInv, Shape, DmaFlags, headerLost

\* The completions that end no DMA of data.
LEMMA CacheEventIInv ==
    ASSUME IInv, fetchEvent \/ wbEvent
    PROVE  IInv'
<1>1. mgr'.state = mgr.state /\ "state" \in DOMAIN mgr' /\ tx' = tx /\ mgr.state # "Drained"
  BY SignalState DEF IInv, Shape, fetchEvent, wbEvent, simulating
<1>2. pktEv' = pktEv /\ hdrEv' = hdrEv
  BY DEF fetchEvent, wbEvent
<1> QED BY <1>1, <1>2 DEF IInv, Shape, DmaFlags, headerLost

LEMMA HeaderIInv ==
    ASSUME IInv, headerComplete
    PROVE  IInv'
<1> DEFINE d == Head(cache.unusedCache)
           n == IF getLen(d) = tx.tsoHeaderLen THEN 0 ELSE tx.tsoHeaderLen
<1>1. mgr'.state = mgr.state /\ "state" \in DOMAIN mgr' /\ mgr.state # "Drained"
  BY SignalState DEF IInv, Shape, headerComplete, simulating
<1>2. /\ hdrEv = "comp" /\ hdrEv' = "idle" /\ pktEv' = pktEv
      /\ tx' = [tx EXCEPT !.pktWaiting = FALSE, !.tsoHeader = d.pkt, !.tsoDescBytesUsed = n]
  BY DEF headerComplete
<1> HIDE DEF d, n
<1>3. DOMAIN tx' = DOMAIN tx /\ tx'.pktWaiting = FALSE /\ tx'.pktDone = tx.pktDone
  BY <1>2 DEF IInv, Shape
<1> QED BY <1>1, <1>2, <1>3 DEF IInv, Shape, DmaFlags, headerLost

LEMMA PktCompleteIInv ==
    ASSUME IInv, pktComplete
    PROVE  IInv'
<1> DEFINE e == Head(cache.unusedCache)
           frame == txPacket \o dmaBytes(e)
<1>1. mgr'.state = mgr.state /\ "state" \in DOMAIN mgr' /\ mgr.state # "Drained"
  BY SignalState DEF IInv, Shape, pktComplete, simulating
<1>2. pktEv = "comp" /\ pktEv' = "idle" /\ hdrEv' = hdrEv
  BY DEF pktComplete
<1>3. pktPartial(e, frame) \/ pktFinal(e, frame)
  BY DEF pktComplete
<1> HIDE DEF e, frame
<1>4. ASSUME pktPartial(e, frame)
      PROVE  DOMAIN tx' = DOMAIN tx /\ tx'.pktWaiting = FALSE
  <2>1. tx' = [tx EXCEPT !.tsoUsedLen = usedLen, !.tsoDescBytesUsed = 0, !.pktDone = TRUE,
                         !.pktWaiting = FALSE, !.pktMultiDesc = TRUE]
    BY <1>4 DEF pktPartial
  <2> QED BY <2>1 DEF IInv, Shape
<1>5. ASSUME pktFinal(e, frame)
      PROVE  DOMAIN tx' = DOMAIN tx /\ tx'.pktWaiting = FALSE
  <2> DEFINE n == IF ~ tx.useTso \/ getLen(e) = tx.tsoDescBytesUsed
                  THEN 0 ELSE tx.tsoDescBytesUsed
             b == tx.useTso /\ usedLen # tx.tsoTotalLen
  <2>1. tx' = [tx EXCEPT !.tsoUsedLen = usedLen, !.tsoDescBytesUsed = n, !.useTso = b,
                         !.tsoPktHasHeader = FALSE, !.pktDone = TRUE,
                         !.pktWaiting = FALSE, !.pktMultiDesc = FALSE]
    BY <1>5 DEF pktFinal
  <2> HIDE DEF n, b
  <2> QED BY <2>1 DEF IInv, Shape
<1> QED BY <1>1, <1>2, <1>3, <1>4, <1>5 DEF IInv, Shape, DmaFlags, headerLost

\* tryDrain() reports the system drained only when no DMA is out; it does not ask
\* for the completion of a header.
LEMMA TryDrainIInv ==
    ASSUME IInv, tryDrain
    PROVE  IInv'
<1> DEFINE d == IF hasOutstandingEvents(cache, pktEv) THEN "Draining" ELSE "Drained"
           p == IF pendingCount(cache, pktEv, hdrEv) = 0 THEN "Drained" ELSE "Draining"
           left == Cardinality({k \in 1 .. 2 : <<d, p>>[k] = "Draining"})
<1>1. /\ mgr' = [state |-> IF left = 0 THEN "Drained" ELSE "Draining", count |-> left]
      /\ tx' = tx /\ pktEv' = pktEv /\ hdrEv' = hdrEv
  BY DEF tryDrain, data
<1>2. ASSUME NEW n \in Nat, NEW S \in SUBSET (1 .. n), Cardinality(S) = 0
      PROVE  S = {}
  <2>1. IsFiniteSet(1 .. n)
    BY FS_Interval
  <2>2. IsFiniteSet(S)
    BY <2>1, FS_Subset
  <2> QED BY <1>2, <2>2, FS_EmptySet
<1>3. ASSUME left = 0 PROVE d # "Draining" /\ p # "Draining"
  <2>1. {k \in 1 .. 2 : <<d, p>>[k] = "Draining"} = {}
    BY <1>2, <1>3
  <2> QED BY <2>1
<1>4. ASSUME left = 0 PROVE pktEv # "comp"
  BY <1>3, <1>4 DEF hasOutstandingEvents
<1>5. ASSUME left = 0 PROVE pktEv # "dma" /\ hdrEv # "dma"
  <2>1. pendingCount(cache, pktEv, hdrEv) = 0
    BY <1>3, <1>5
  <2>2. {k \in 1 .. 4 : <<cache.fetchEv, cache.wbEv, pktEv, hdrEv>>[k] = "dma"} = {}
    BY <1>2, <2>1 DEF pendingCount
  <2> QED BY <2>2
<1> HIDE DEF left
<1>6. mgr'.state = "Drained" => left = 0
  BY <1>1
<1>7. "state" \in DOMAIN mgr'
  BY <1>1
<1> QED BY <1>1, <1>4, <1>5, <1>6, <1>7 DEF IInv, Shape, DmaFlags, headerLost

\* A restore forgets DMAs and completions; a header's completion is all it can lose.
LEMMA ResumeIInv ==
    ASSUME IInv, drainResume \/ restore
    PROVE  IInv'
<1>1. /\ mgr.state = "Drained" /\ mgr' = [state |-> "Running", count |-> 0] /\ tx' = tx
      /\ \/ pktEv' = pktEv /\ hdrEv' = hdrEv
         \/ pktEv' = "idle" /\ hdrEv' = "idle"
  BY DEF drainResume, restore, resumed, data
<1>2. pktEv = "idle" /\ hdrEv # "dma"
  BY <1>1 DEF IInv, DmaFlags
<1>3. mgr'.state = "Running" /\ "state" \in DOMAIN mgr'
  BY <1>1
<1> QED BY <1>1, <1>2, <1>3 DEF IInv, Shape, DmaFlags, headerLost

LEMMA NextIInv ==
    ASSUME IInv, [Next]_vars
    PROVE  IInv'
<1>1. CASE tick
  BY <1>1, TickIInv
<1>2. CASE fetchDescriptors1 \/ writeback1
  BY <1>2, QuietStep DEF fetchDescriptors1, writeback1, startDma, drainVars
<1>3. CASE fetchResp \/ wbResp \/ pktResp \/ hdrResp
  BY <1>3, RespIInv
<1>4. CASE fetchEvent \/ wbEvent
  BY <1>4, CacheEventIInv
<1>5. CASE headerComplete
  BY <1>5, HeaderIInv
<1>6. CASE pktComplete
  BY <1>6, PktCompleteIInv
<1>7. CASE ethTxDone
  BY <1>7, QuietStep DEF ethTxDone, data, drainVars
<1>8. CASE Driver
  BY <1>8, QuietStep DEF Driver, xmitStart, xmitClean, xmitPkt, xmitEnd, data, drainVars
<1>9. CASE tryDrain
  BY <1>9, TryDrainIInv
<1>10. CASE drainResume \/ restore
  BY <1>10, ResumeIInv
<1>11. CASE UNCHANGED vars
  BY <1>11, QuietStep DEF vars, data, drainVars
<1> QED BY <1>1, <1>2, <1>3, <1>4, <1>5, <1>6, <1>7, <1>8, <1>9, <1>10, <1>11 DEF Next, Card

\* For every set-up, pktWaiting is set while the DMA of a header or of packet data is
\* out, no checkpoint is taken with a request out or with packet data not yet
\* completed, and since drain() does not ask for headerEvent, the completion that a
\* restored card can wait for in vain is that of a header not yet loaded.
THEOREM WaitsForDma == Spec => []DmaFlags
<1>1. Init => IInv
  BY InitIInv
<1>2. IInv /\ [Next]_vars => IInv'
  BY NextIInv
<1>3. IInv => DmaFlags
  BY DEF IInv
<1> QED BY <1>1, <1>2, <1>3, PTL DEF Spec
=============================================================================
