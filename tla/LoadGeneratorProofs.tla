------------------------- MODULE LoadGeneratorProofs -------------------------
(***************************************************************************)
(* Each direction of the link is a frame channel, for every configuration, *)
(* any number of frames and any number of restores; and the steps of the   *)
(* inductive invariant of LoadLossProofs.                                  *)
(***************************************************************************)
EXTENDS LoadGenerator, TLAPS

\* What is known of one direction of a link.
LinkInv(l, t, D) == l \in Link /\ LinkAsserts(l, t, D)

-----------------------------------------------------------------------------
(* One direction of the link                                               *)

\* An element of a sequence and its index.
LEMMA SeqElement ==
    ASSUME NEW T, NEW q \in Seq(T), NEW i \in DOMAIN q
    PROVE  q[i] \in T /\ i \in 1 .. Len(q) /\ Len(q) \in Nat /\ DOMAIN q = 1 .. Len(q)
OBVIOUS

\* transmit() on an idle link: the new frame comes behind all in the queue.
LEMMA TransmitInv ==
    ASSUME NEW l, NEW t \in Nat, NEW D \in Nat, NEW f \in Frame, NEW n \in Nat,
           n > 0, LinkInv(l, t, D), ~ busy(l)
    PROVE  LinkInv(transmit(l, f, t + n), t, D)
<1> DEFINE m == transmit(l, f, t + n)
           q == l.txQueue
<1>1. l \in Link /\ LinkAsserts(l, t, D)
  BY Zenon DEF LinkInv
<1>2. l.queueAt \in Time /\ q \in Seq([at : Nat, frame : Frame])
  BY Zenon, <1>1 DEF Link
<1>3. t + n \in Time /\ t + n # Never /\ f \in Nat /\ f # NoFrame
  BY DEF Time, Never, Frame, NoFrame
<1>4. m \in Link
  BY Zenon, <1>2, <1>3 DEF transmit, Link
<1>5. \A i \in DOMAIN q : q[i].at \in Nat
  <2> SUFFICES ASSUME NEW i \in DOMAIN q PROVE q[i].at \in Nat
    BY Zenon
  <2>1. q[i] \in [at : Nat, frame : Frame]
    BY Zenon, <1>2, SeqElement
  <2> QED BY Zenon, <2>1
<1>6. m.packet = f /\ m.doneAt = t + n /\ m.txQueue = q /\ m.queueAt = l.queueAt
  BY Zenon DEF transmit
<1>7. /\ (q = <<>>) = (l.queueAt = Never)
      /\ l.queueAt # Never => q[1].at = l.queueAt
      /\ D = 0 => q = <<>>
      /\ \A i, j \in DOMAIN q : i < j => q[i].at < q[j].at
      /\ \A i \in DOMAIN q : t <= q[i].at /\ q[i].at <= t + D
  BY Zenon, <1>1 DEF LinkAsserts
<1> HIDE DEF m, q
<1>8. \A i \in DOMAIN q : q[i].at < t + n + D
  BY <1>5, <1>7
<1>9. t <= t + n
  OBVIOUS
<1>10. LinkAsserts(m, t, D)
  BY Zenon, <1>3, <1>6, <1>7, <1>8, <1>9 DEF LinkAsserts, busy
<1> QED BY Zenon, <1>4, <1>10 DEF LinkInv, m

\* The fields of a queue's entries.
LEMMA QueueEntry ==
    ASSUME NEW q \in Seq([at : Nat, frame : Frame]), NEW i \in DOMAIN q
    PROVE  i \in Nat /\ 1 <= i /\ i <= Len(q) /\ q[i].at \in Nat /\ 1 \in DOMAIN q
<1>1. q[i] \in [at : Nat, frame : Frame] /\ i \in 1 .. Len(q) /\ Len(q) \in Nat
  BY Zenon, SeqElement
<1>2. 1 \in 1 .. Len(q) /\ DOMAIN q = 1 .. Len(q)
  BY <1>1, SeqElement
<1> QED BY <1>1, <1>2

\* The frame that joins the queue is the last one of it.
LEMMA JoinedQueue ==
    ASSUME NEW q \in Seq([at : Nat, frame : Frame]), NEW e \in [at : Nat, frame : Frame]
    PROVE  /\ joined(q, e) \in Seq([at : Nat, frame : Frame])
           /\ joined(q, e) # <<>>
           /\ joined(q, e)[1] = IF q = <<>> THEN e ELSE q[1]
           /\ \A i \in DOMAIN joined(q, e) :
                \/ i \in DOMAIN q /\ joined(q, e)[i] = q[i]
                \/ i = Len(q) + 1 /\ joined(q, e)[i] = e
<1> DEFINE T == [at : Nat, frame : Frame]
<1> HIDE DEF T
<1>1. q \in Seq(T) /\ e \in T
  BY Zenon DEF T
<1>2. /\ Append(q, e) \in Seq(T)
      /\ Len(Append(q, e)) = Len(q) + 1 /\ Len(q) \in Nat
      /\ DOMAIN q = 1 .. Len(q) /\ DOMAIN Append(q, e) = 1 .. Len(q) + 1
      /\ \A i \in 1 .. Len(q) : Append(q, e)[i] = q[i]
      /\ Append(q, e)[Len(q) + 1] = e
  BY <1>1
<1>3. Append(q, e) # <<>>
  BY <1>2
<1>4. Append(q, e)[1] = IF q = <<>> THEN e ELSE q[1]
  BY <1>1, <1>2
<1>5. \A i \in DOMAIN Append(q, e) : i \in DOMAIN q \/ i = Len(q) + 1
  BY <1>2
<1> QED BY Zenon, <1>2, <1>3, <1>4, <1>5 DEF joined, T

\* txDone() when the transfer ends.
LEMMA TxDoneInv ==
    ASSUME NEW l, NEW t \in Nat, NEW D \in Nat, LinkInv(l, t, D), l.doneAt = t
    PROVE  LinkInv(txDone(l, t, D), t, D)
<1> DEFINE m == txDone(l, t, D)
           p == l.txQueue
           e == [at |-> t + D, frame |-> l.packet]
           q == joined(p, e)
<1>1. l \in Link /\ LinkAsserts(l, t, D)
  BY Zenon DEF LinkInv
<1>2. /\ l.packet \in Nat /\ l.queueAt \in Time
      /\ p \in Seq([at : Nat, frame : Frame]) /\ t # Never
  BY <1>1 DEF Link, Never
<1>3. /\ busy(l) /\ (p = <<>>) = (l.queueAt = Never)
      /\ l.queueAt # Never => p[1].at = l.queueAt
      /\ D = 0 => p = <<>>
      /\ \A i, j \in DOMAIN p : i < j => p[i].at < p[j].at
      /\ \A i \in DOMAIN p : t <= p[i].at /\ p[i].at < t + D
  BY Zenon, <1>1, <1>2 DEF LinkAsserts
<1>4. m.packet = NoFrame /\ m.doneAt = Never /\ ~ busy(m) /\ NoFrame \in Nat /\ Never \in Time
  BY Zenon DEF txDone, busy, NoFrame, Time
<1>5. CASE D > 0
  <2>1. e \in [at : Nat, frame : Frame] /\ e.at = t + D
    BY <1>2, <1>3 DEF busy, Frame
  <2>2. /\ q \in Seq([at : Nat, frame : Frame]) /\ q # <<>>
        /\ q[1] = IF p = <<>> THEN e ELSE p[1]
        /\ \A i \in DOMAIN q : \/ i \in DOMAIN p /\ q[i] = p[i]
                               \/ i = Len(p) + 1 /\ q[i] = e
    <3> HIDE DEF p, e
    <3> QED BY Zenon, <1>2, <2>1, JoinedQueue
  <2>3. m.txQueue = q /\ m.queueAt = IF l.queueAt = Never THEN q[1].at ELSE l.queueAt
    BY Zenon, <1>5 DEF txDone
  <2>4. m.queueAt = q[1].at
    BY Zenon, <1>3, <2>2, <2>3
  <2>5. 1 \in DOMAIN q
    BY <2>2
  <2>6. q[1].at \in Nat
    BY Zenon, <2>2, <2>5, QueueEntry
  <2>7. m.queueAt \in Time /\ m.queueAt # Never
    BY <2>4, <2>6 DEF Time, Never
  <2>8. m \in Link
    BY Zenon, <1>4, <1>5, <2>2, <2>3, <2>7 DEF Link, txDone
  <2>9. Len(p) \in Nat
    BY <1>2
  <2>10. \A i \in DOMAIN p : i \in Nat /\ i < Len(p) + 1 /\ p[i].at \in Nat
    <3> HIDE DEF p
    <3>1. \A i \in DOMAIN p : i \in Nat /\ i <= Len(p) /\ p[i].at \in Nat
      BY Zenon, <1>2, QueueEntry
    <3> QED BY <2>9, <3>1
  <2> HIDE DEF m, p, q, e
  <2>11. \A i \in DOMAIN q : t <= q[i].at /\ q[i].at <= t + D
    BY SMTT(30), <1>3, <2>1, <2>2, <2>10
  <2>12. \A i, j \in DOMAIN q : i < j => q[i].at < q[j].at
    <3> SUFFICES ASSUME NEW i \in DOMAIN q, NEW j \in DOMAIN q, i < j
                 PROVE  q[i].at < q[j].at
      BY Zenon
    <3>1. CASE i \in DOMAIN p /\ q[i] = p[i] /\ j \in DOMAIN p /\ q[j] = p[j]
      BY Zenon, <1>3, <3>1
    <3>2. CASE i \in DOMAIN p /\ q[i] = p[i] /\ j = Len(p) + 1 /\ q[j] = e
      BY Zenon, <1>3, <2>1, <3>2
    <3>3. CASE i = Len(p) + 1
      BY SMTT(30), <2>2, <2>9, <2>10, <3>3
    <3> QED BY Zenon, <2>2, <3>1, <3>2, <3>3
  <2>13. LinkAsserts(m, t, D)
    BY <1>4, <1>5, <2>2, <2>3, <2>4, <2>7, <2>11, <2>12 DEF LinkAsserts, busy
  <2> QED BY Zenon, <2>8, <2>13 DEF LinkInv, m
<1>6. CASE D = 0
  <2>1. m.txQueue = <<>> /\ m.queueAt = Never
    BY <1>3, <1>6 DEF txDone
  <2>2. m \in Link
    BY <1>2, <1>3, <1>4, <1>6 DEF Link, txDone
  <2> HIDE DEF m
  <2>3. LinkAsserts(m, t, D)
    BY <1>4, <2>1 DEF LinkAsserts, busy
  <2> QED BY Zenon, <2>2, <2>3 DEF LinkInv, m
<1> QED BY <1>5, <1>6

\* processTxQueue() when the first frame of the queue is due.
LEMMA ProcessTxQueueInv ==
    ASSUME NEW l, NEW t \in Nat, NEW D \in Nat, LinkInv(l, t, D), l.queueAt = t
    PROVE  LinkInv(processTxQueue(l), t, D)
<1> DEFINE m == processTxQueue(l)
           q == l.txQueue
           r == Tail(q)
           T == [at : Nat, frame : Frame]
<1>1. l \in Link /\ LinkAsserts(l, t, D) /\ t # Never
  BY DEF LinkInv, Never
<1>2. q \in Seq(T) /\ l.packet \in Nat /\ l.doneAt \in Time
  BY Zenon, <1>1 DEF Link
<1>3. /\ q # <<>> /\ D # 0 /\ busy(l) = (l.doneAt # Never) /\ (busy(l) => t <= l.doneAt)
      /\ \A i, j \in DOMAIN q : i < j => q[i].at < q[j].at
      /\ \A i \in DOMAIN q : /\ t <= q[i].at /\ q[i].at <= t + D
                             /\ busy(l) => q[i].at < l.doneAt + D
  BY Zenon, <1>1 DEF LinkAsserts
<1>4. /\ r \in Seq(T) /\ Len(q) \in Nat /\ DOMAIN q = 1 .. Len(q)
      /\ DOMAIN r = 1 .. Len(q) - 1
      /\ \A i \in 1 .. Len(q) - 1 : r[i] = q[i + 1]
  <2> HIDE DEF T
  <2> QED BY <1>2, <1>3
<1>5. /\ \A i \in DOMAIN r : i \in Nat /\ i + 1 \in DOMAIN q /\ r[i] = q[i + 1]
      /\ Len(q) > 1 => r # <<>> /\ r[1] = q[2] /\ 2 \in DOMAIN q
      /\ ~ (Len(q) > 1) => r = <<>>
  <2> HIDE DEF T
  <2> QED BY SMTT(30), <1>2, <1>3, <1>4
<1>6. Len(q) > 1 => q[2].at \in Nat
  BY Zenon, <1>2, <1>5, QueueEntry
<1>7. /\ m.packet = l.packet /\ m.doneAt = l.doneAt /\ m.txQueue = r
      /\ m.queueAt = IF Len(q) > 1 THEN q[2].at ELSE Never
  BY Zenon DEF processTxQueue
<1>8. m.queueAt \in Time /\ (m.queueAt = Never) = ~ (Len(q) > 1)
  BY <1>6, <1>7 DEF Time, Never
<1>9. m \in Link
  BY Zenon, <1>2, <1>4, <1>7, <1>8 DEF Link, processTxQueue
<1>10. busy(m) = busy(l)
  BY Zenon, <1>7 DEF busy
<1> HIDE DEF m, q, r, T
<1>11. \A i, j \in DOMAIN r : i < j => r[i].at < r[j].at
  BY SMTT(30), <1>3, <1>5
<1>12. \A i \in DOMAIN r : /\ t <= r[i].at /\ r[i].at <= t + D
                           /\ busy(l) => r[i].at < l.doneAt + D
  BY Zenon, <1>3, <1>5
<1>13. LinkAsserts(m, t, D)
  BY Zenon, <1>3, <1>5, <1>7, <1>8, <1>10, <1>11, <1>12 DEF LinkAsserts
<1> QED BY Zenon, <1>9, <1>13 DEF LinkInv, m

\* Saving and restoring a link changes nothing.
LEMMA RestoredInv ==
    ASSUME NEW l, NEW t \in Nat, NEW D \in Nat, LinkInv(l, t, D)
    PROVE  LinkInv(restored(l), t, D)
<1>1. l \in Link /\ LinkAsserts(l, t, D)
  BY Zenon DEF LinkInv
<1>2. l.queueAt = IF l.txQueue = <<>> THEN Never ELSE l.txQueue[1].at
  BY Zenon, <1>1 DEF LinkAsserts
<1>3. restored(l) = [packet |-> l.packet, doneAt |-> l.doneAt, txQueue |-> l.txQueue,
                     queueAt |-> l.queueAt]
  BY Zenon, <1>2 DEF restored
<1>4. restored(l) = l
  BY Zenon, <1>1, <1>3 DEF Link
<1> QED BY Zenon, <1>4

\* A tick passes when nothing is due.
LEMMA AdvanceInv ==
    ASSUME NEW l, NEW t \in Nat, NEW D \in Nat, LinkInv(l, t, D),
           l.doneAt # t, l.queueAt # t
    PROVE  LinkInv(l, t + 1, D)
<1> DEFINE q == l.txQueue
<1>1. l \in Link /\ LinkAsserts(l, t, D)
  BY Zenon DEF LinkInv
<1>2. q \in Seq([at : Nat, frame : Frame]) /\ l.doneAt \in Time
  BY Zenon, <1>1 DEF Link
<1>3. \A i \in DOMAIN q : i \in Nat /\ 1 <= i /\ q[i].at \in Nat /\ 1 \in DOMAIN q
  BY Zenon, <1>2, QueueEntry
<1>4. /\ (q = <<>>) = (l.queueAt = Never) /\ (l.queueAt # Never => q[1].at = l.queueAt)
      /\ busy(l) = (l.doneAt # Never) /\ (busy(l) => t <= l.doneAt)
      /\ D = 0 => q = <<>>
      /\ \A i, j \in DOMAIN q : i < j => q[i].at < q[j].at
      /\ \A i \in DOMAIN q : /\ t <= q[i].at /\ q[i].at <= t + D
                             /\ busy(l) => q[i].at < l.doneAt + D
  BY Zenon, <1>1 DEF LinkAsserts
<1>5. \A i \in DOMAIN q : q # <<>>
  BY <1>2
<1> HIDE DEF q
<1>6. \A i \in DOMAIN q : t < q[1].at
  BY <1>3, <1>4, <1>5
<1>7. \A i \in DOMAIN q : t + 1 <= q[i].at /\ q[i].at <= t + 1 + D
  BY SMTT(30), <1>3, <1>4, <1>6
<1>8. busy(l) => t + 1 <= l.doneAt
  <2> SUFFICES ASSUME busy(l) PROVE t + 1 <= l.doneAt
    BY Zenon
  <2>1. l.doneAt # Never /\ t <= l.doneAt
    BY Zenon, <1>4
  <2>2. l.doneAt \in Nat
    BY Zenon, <1>2, <2>1 DEF Time
  <2> QED BY <2>1, <2>2
<1>9. LinkAsserts(l, t + 1, D)
  BY Zenon, <1>4, <1>7, <1>8 DEF LinkAsserts, q
<1> QED BY Zenon, <1>1, <1>9 DEF LinkInv

-----------------------------------------------------------------------------
(* The generator on the link                                               *)

GenInv(g) ==
    /\ {"sendAt", "checkAt", "lastTxCount", "lastRxCount"} \subseteq DOMAIN g
    /\ g.sendAt = Never \/ g.checkAt = Never

IInv ==
    /\ setup \in Setups /\ now \in Nat /\ sent \in Nat
    /\ DOMAIN link = Dir
    /\ \A d \in Dir : LinkInv(link[d], now, setup.linkDelay)
    /\ dut.frames \in Seq(Frame)
    /\ GenInv(lg)

LEMMA SetupTypes ==
    ASSUME setup \in Setups
    PROVE  /\ setup.linkDelay \in Nat /\ setup.delayVar \in Nat
           /\ setup.mode \in {"Static", "Increment", "Burst"}
<1>1. setup \in Setup
  BY Zenon, GenAssumption
<1> QED BY Zenon, <1>1 DEF Setup

\* startup() schedules at most the first frame.
LEMMA StartupInv == \A t : GenInv(startup(t))
BY Zenon DEF GenInv, startup

\* sendPacket() schedules one of the two events or none.
LEMMA ScheduledInv ==
    ASSUME NEW g, NEW ticks, setup \in Setups, GenInv(g), g.sendAt = Never, g.checkAt = Never
    PROVE  GenInv(scheduled(g, ticks))
<1>1. setup.mode \in {"Static", "Increment", "Burst"}
  BY Zenon, SetupTypes
<1>2. \A v : GenInv([g EXCEPT !.sendAt = v]) /\ GenInv([g EXCEPT !.checkAt = v])
  BY Zenon DEF GenInv
<1>3. \A b, v : GenInv([g EXCEPT !.burstStartTick = b, !.sendAt = v])
  BY Zenon DEF GenInv
<1>4. CASE now >= setup.stopTick
  BY Zenon, <1>4 DEF scheduled
<1>5. CASE ~ (now >= setup.stopTick) /\ setup.mode = "Static"
  BY Zenon, <1>2, <1>5 DEF scheduled
<1>6. CASE ~ (now >= setup.stopTick) /\ setup.mode = "Increment"
  BY Zenon, <1>2, <1>6 DEF scheduled
<1>7. CASE ~ (now >= setup.stopTick) /\ setup.mode = "Burst"
  BY Zenon, <1>2, <1>3, <1>7 DEF scheduled
<1> QED BY Zenon, <1>1, <1>4, <1>5, <1>6, <1>7

\* A frame at the end of direction d leaves the card's queue a queue of frames.
LEMMA TxCompleteInv ==
    ASSUME NEW d \in Dir, NEW f \in Frame, dut.frames \in Seq(Frame), GenInv(lg),
           txComplete(d, f)
    PROVE  dut'.frames \in Seq(Frame) /\ GenInv(lg')
<1>1. CASE d = "out"
  <2>1. Append(dut.frames, f) \in Seq(Frame)
    OBVIOUS
  <2>2. lg' = lg /\ (dut' = dut \/ dut'.frames = Append(dut.frames, f))
    BY <1>1 DEF txComplete
  <2> QED BY Zenon, <2>1, <2>2
<1>2. CASE d = "back"
  <2>1. dut' = dut /\ lg' = [lg EXCEPT !.lastRxCount = (@ + 1) % Word]
    BY Zenon, <1>2 DEF txComplete, processRxPkt
  <2> QED BY Zenon, <2>1 DEF GenInv
<1> QED BY Zenon, <1>1, <1>2 DEF Dir

\* The initial state.
LEMMA InitInv == Init => IInv
<1> SUFFICES ASSUME Init PROVE IInv
  BY Zenon
<1>1. idleLink \in Link
  BY DEF idleLink, Link, Time, NoFrame
<1>2. LinkAsserts(idleLink, 0, setup.linkDelay)
  BY DEF idleLink, LinkAsserts, busy
<1>3. GenInv(lg)
  BY Zenon, StartupInv DEF Init
<1>4. /\ setup \in Setups /\ now = 0 /\ sent = 0 /\ dut.frames = <<>>
      /\ link = [d \in Dir |-> idleLink]
  BY Zenon DEF Init
<1> QED BY <1>1, <1>2, <1>3, <1>4 DEF IInv, LinkInv

\* The inductive step.
LEMMA NextInv == IInv /\ [Next]_vars => IInv'
<1> SUFFICES ASSUME IInv, [Next]_vars PROVE IInv'
  BY Zenon
<1> DEFINE D == setup.linkDelay
<1>1. /\ setup \in Setups /\ now \in Nat /\ sent \in Nat /\ DOMAIN link = Dir
      /\ \A d \in Dir : LinkInv(link[d], now, D)
      /\ dut.frames \in Seq(Frame) /\ GenInv(lg)
  BY Zenon DEF IInv
<1>2. D \in Nat /\ setup.delayVar \in Nat
  BY Zenon, <1>1, SetupTypes
<1>3. setup' = setup
  BY Zenon DEF Next, vars, sendPacket, checkLoss, forward, advance, restore, transferDone, queueEvent
<1>4. ASSUME NEW d \in Dir, NEW l, link' = [link EXCEPT ![d] = l], LinkInv(l, now, D), now' = now
      PROVE  DOMAIN link' = Dir /\ \A e \in Dir : LinkInv(link'[e], now', D)
  BY Zenon, <1>1, <1>4
<1> HIDE DEF D
<1>5. CASE sendPacket
  <2>1. sent' \in Nat /\ sent + 1 \in Frame /\ now' = now /\ dut' = dut
    BY <1>1, <1>5 DEF sendPacket, Frame, NoFrame
  <2>2. lg.checkAt = Never
    BY <1>1, <1>5 DEF sendPacket, GenInv, Never
  <2>3. GenInv(lg')
    <3> DEFINE g == [lg EXCEPT !.lastTxCount = (@ + 1) % Word, !.sendAt = Never]
    <3>1. GenInv(g) /\ g.sendAt = Never /\ g.checkAt = Never
      BY Zenon, <1>1, <2>2 DEF GenInv
    <3>2. PICK ticks : lg' = scheduled(g, ticks)
      BY Zenon, <1>5 DEF sendPacket
    <3> HIDE DEF g
    <3> QED BY Zenon, <1>1, <3>1, <3>2, ScheduledInv
  <2>4. DOMAIN link' = Dir /\ \A e \in Dir : LinkInv(link'[e], now', D)
    <3>1. CASE busy(link["out"])
      <4>1. link' = link
        BY Zenon, <1>5, <3>1 DEF sendPacket
      <4> QED BY Zenon, <1>1, <2>1, <4>1
    <3>2. CASE ~ busy(link["out"])
      <4>1. PICK n \in transferTicks(0, setup.delayVar) :
              link' = [link EXCEPT !["out"] = transmit(link["out"], sent + 1, now + n)]
        BY Zenon, <1>5, <3>2 DEF sendPacket
      <4>2. n \in Nat /\ n > 0
        BY <1>2 DEF transferTicks
      <4>3. "out" \in Dir
        BY Zenon DEF Dir
      <4>4. LinkInv(transmit(link["out"], sent + 1, now + n), now, D)
        BY Zenon, <1>1, <1>2, <2>1, <3>2, <4>2, <4>3, TransmitInv
      <4> QED BY Zenon, <1>4, <2>1, <4>1, <4>3, <4>4
    <3> QED BY Zenon, <3>1, <3>2
  <2> QED BY Zenon, <1>1, <1>3, <2>1, <2>3, <2>4 DEF IInv, D
<1>6. CASE checkLoss
  <2>1. now' = now /\ link' = link /\ dut' = dut /\ sent' = sent
    BY Zenon, <1>6 DEF checkLoss
  <2>2. PICK rate, next : lg' = [lg EXCEPT !.packetRate = rate, !.checkAt = Never,
                                           !.sendAt = next, !.lastTxCount = 0, !.lastRxCount = 0]
    BY Zenon, <1>6 DEF checkLoss
  <2>3. GenInv(lg')
    BY Zenon, <1>1, <2>2 DEF GenInv
  <2> QED BY Zenon, <1>1, <1>3, <2>1, <2>3 DEF IInv, D
<1>7. CASE forward
  <2>1. now' = now /\ lg' = lg /\ sent' = sent /\ dut.frames # <<>> /\ ~ busy(link["back"])
    BY Zenon, <1>7 DEF forward
  <2>2. Head(dut.frames) \in Frame /\ Tail(dut.frames) \in Seq(Frame)
    BY <1>1, <2>1
  <2>3. dut'.frames \in Seq(Frame)
    BY Zenon, <1>7, <2>2 DEF forward
  <2>4. PICK n \in transferTicks(SimLength, setup.delayVar) :
          link' = [link EXCEPT !["back"] = transmit(link["back"], Head(dut.frames), now + n)]
    BY Zenon, <1>7 DEF forward
  <2>5. n \in Nat /\ n > 0
    BY <1>2, GenAssumption DEF transferTicks
  <2>6. "back" \in Dir
    BY Zenon DEF Dir
  <2>7. LinkInv(transmit(link["back"], Head(dut.frames), now + n), now, D)
    BY Zenon, <1>1, <1>2, <2>1, <2>2, <2>5, <2>6, TransmitInv
  <2>8. DOMAIN link' = Dir /\ \A e \in Dir : LinkInv(link'[e], now', D)
    BY Zenon, <1>4, <2>1, <2>4, <2>6, <2>7
  <2> QED BY Zenon, <1>1, <1>3, <2>1, <2>3, <2>8 DEF IInv, D
<1>8. CASE advance
  <2>1. now' = now + 1 /\ link' = link /\ lg' = lg /\ dut' = dut /\ sent' = sent
    BY Zenon, <1>8 DEF advance
  <2>2. \A d \in Dir : link[d].doneAt # now /\ link[d].queueAt # now
    <3>1. \A d \in Dir : \A t \in {link[d].doneAt, link[d].queueAt} : t # Never => now < t
      BY Zenon, <1>8 DEF advance, EventTimes
    <3> QED BY <1>1, <3>1 DEF Never
  <2>3. \A d \in Dir : LinkInv(link[d], now + 1, D)
    BY Zenon, <1>1, <1>2, <2>2, AdvanceInv
  <2> QED BY <1>1, <1>3, <2>1, <2>3 DEF IInv, D
<1>9. CASE restore
  <2>1. /\ now' = now /\ dut' = dut /\ sent' = sent /\ lg' = startup(now)
        /\ link' = [d \in Dir |-> restored(link[d])]
    BY Zenon, <1>9 DEF restore
  <2>2. GenInv(lg')
    BY Zenon, <2>1, StartupInv
  <2>3. \A d \in Dir : LinkInv(restored(link[d]), now, D)
    BY Zenon, <1>1, <1>2, RestoredInv
  <2> QED BY Zenon, <1>1, <1>3, <2>1, <2>2, <2>3 DEF IInv, D
<1>10. ASSUME NEW d \in Dir, transferDone(d) PROVE IInv'
  <2>1. /\ now' = now /\ sent' = sent /\ link[d].doneAt = now
        /\ link' = [link EXCEPT ![d] = txDone(link[d], now, D)]
        /\ \/ dut' = dut /\ lg' = lg
           \/ txComplete(d, link[d].packet)
    BY Zenon, <1>10 DEF transferDone, D
  <2>2. LinkInv(txDone(link[d], now, D), now, D)
    BY Zenon, <1>1, <1>2, <2>1, TxDoneInv
  <2>3. link[d].packet \in Frame
    <3>1. link[d].packet \in Nat /\ (link[d].packet # NoFrame) = (now # Never) /\ now \in Nat
      BY Zenon, <1>1, <2>1 DEF LinkInv, LinkAsserts, Link, busy
    <3>2. \A t \in Nat : t # Never
      BY ONLY DEF Never
    <3> QED BY Zenon, <3>1, <3>2 DEF Frame
  <2>4. dut'.frames \in Seq(Frame) /\ GenInv(lg')
    BY Zenon, <1>1, <2>1, <2>3, TxCompleteInv
  <2>5. DOMAIN link' = Dir /\ \A e \in Dir : LinkInv(link'[e], now', D)
    BY Zenon, <1>4, <2>1, <2>2
  <2> QED BY Zenon, <1>1, <1>3, <2>1, <2>4, <2>5 DEF IInv, D
<1>11. ASSUME NEW d \in Dir, queueEvent(d) PROVE IInv'
  <2>1. /\ now' = now /\ sent' = sent /\ link[d].queueAt = now
        /\ link' = [link EXCEPT ![d] = processTxQueue(link[d])]
        /\ txComplete(d, Head(link[d].txQueue).frame)
    BY Zenon, <1>11 DEF queueEvent
  <2>2. LinkInv(processTxQueue(link[d]), now, D)
    BY Zenon, <1>1, <1>2, <2>1, ProcessTxQueueInv
  <2>3. link[d].txQueue \in Seq([at : Nat, frame : Frame]) /\ link[d].txQueue # <<>>
    <3>1. link[d] \in Link /\ LinkAsserts(link[d], now, D)
      BY Zenon, <1>1 DEF LinkInv
    <3>2. (link[d].txQueue = <<>>) = (link[d].queueAt = Never)
      BY Zenon, <3>1 DEF LinkAsserts
    <3>3. link[d].queueAt # Never
      BY <1>1, <2>1 DEF Never
    <3>4. link[d].txQueue \in Seq([at : Nat, frame : Frame])
      BY Zenon, <3>1 DEF Link
    <3> QED BY Zenon, <3>2, <3>3, <3>4
  <2>4. Head(link[d].txQueue).frame \in Frame
    <3> DEFINE T == [at : Nat, frame : Frame]
    <3>1. Head(link[d].txQueue) \in T
      <4> HIDE DEF T
      <4>1. link[d].txQueue \in Seq(T)
        BY Zenon, <2>3 DEF T
      <4> QED BY <2>3, <4>1
    <3> QED BY Zenon, <3>1
  <2>5. dut'.frames \in Seq(Frame) /\ GenInv(lg')
    BY Zenon, <1>1, <2>1, <2>4, TxCompleteInv
  <2>6. DOMAIN link' = Dir /\ \A e \in Dir : LinkInv(link'[e], now', D)
    BY Zenon, <1>4, <2>1, <2>2
  <2> QED BY Zenon, <1>1, <1>3, <2>1, <2>5, <2>6 DEF IInv, D
<1>12. CASE UNCHANGED vars
  BY Zenon, <1>1, <1>12 DEF vars, IInv, D
<1> QED BY Zenon, <1>5, <1>6, <1>7, <1>8, <1>9, <1>10, <1>11, <1>12 DEF Next

-----------------------------------------------------------------------------
(***************************************************************************)
(* Each direction of the link is a frame channel: what it has taken is     *)
(* what it has delivered, then its queue, then the frame it transfers.     *)
(***************************************************************************)
Flow(l, tk, gv) ==
    /\ tk \in Seq(Frame) /\ gv \in Seq(Frame)
    /\ Len(tk) = Len(gv) + Len(l.txQueue) + (IF busy(l) THEN 1 ELSE 0)
    /\ \A i \in 1 .. Len(gv) : gv[i] = tk[i]
    /\ \A i \in 1 .. Len(l.txQueue) : tk[Len(gv) + i] = l.txQueue[i].frame
    /\ busy(l) => tk[Len(tk)] = l.packet

FlowInv == \A d \in Dir : Flow(link[d], taken[d], given[d])

-----------------------------------------------------------------------------
(* One direction                                                           *)

\* What Append does to a sequence of frames.
LEMMA AppendFrame ==
    ASSUME NEW T, NEW s \in Seq(T), NEW e \in T
    PROVE  /\ Append(s, e) \in Seq(T) /\ Len(s) \in Nat
           /\ Len(Append(s, e)) = Len(s) + 1
           /\ \A i \in 1 .. Len(s) : Append(s, e)[i] = s[i]
           /\ Append(s, e)[Len(s) + 1] = e
OBVIOUS

\* transmit() on an idle link takes the frame.
LEMMA TransmitFlow ==
    ASSUME NEW l \in Link, NEW tk, NEW gv, NEW f \in Frame, NEW x,
           Flow(l, tk, gv), ~ busy(l)
    PROVE  Flow(transmit(l, f, x), Append(tk, f), gv)
<1> DEFINE m == transmit(l, f, x)
           q == l.txQueue
           s == Append(tk, f)
<1>1. m.txQueue = q /\ m.packet = f /\ busy(m)
  BY Zenon DEF transmit, busy, Frame
<1>2. /\ tk \in Seq(Frame) /\ gv \in Seq(Frame) /\ Len(tk) = Len(gv) + Len(q)
      /\ \A i \in 1 .. Len(gv) : gv[i] = tk[i]
      /\ \A i \in 1 .. Len(q) : tk[Len(gv) + i] = q[i].frame
  <2>1. q \in Seq([at : Nat, frame : Frame])
    BY Zenon DEF Link
  <2>2. Len(q) \in Nat
    BY <2>1
  <2> QED BY SMTT(30), <2>2 DEF Flow
<1>3. q \in Seq([at : Nat, frame : Frame])
  BY Zenon DEF Link
<1>4. Len(q) \in Nat /\ Len(gv) \in Nat
  BY <1>2, <1>3
<1>5. /\ s \in Seq(Frame) /\ Len(s) = Len(tk) + 1 /\ Len(tk) \in Nat
      /\ \A i \in 1 .. Len(tk) : s[i] = tk[i]
      /\ s[Len(tk) + 1] = f
  <2> HIDE DEF m, q
  <2>1. tk \in Seq(Frame)
    BY Zenon, <1>2
  <2> QED BY <2>1, AppendFrame, SMT
<1> HIDE DEF m, q, s
<1>6. \A i \in 1 .. Len(gv) : gv[i] = s[i]
  BY <1>2, <1>4, <1>5
<1>7. \A i \in 1 .. Len(q) : s[Len(gv) + i] = q[i].frame
  <2> SUFFICES ASSUME NEW i \in 1 .. Len(q) PROVE s[Len(gv) + i] = q[i].frame
    BY Zenon
  <2>1. Len(gv) + i \in 1 .. Len(tk)
    BY <1>2, <1>4
  <2> QED BY Zenon, <1>2, <1>5, <2>1
<1>8. s[Len(s)] = f
  BY Zenon, <1>5
<1>9. Len(s) = Len(gv) + Len(q) + 1
  BY Zenon, <1>2, <1>4, <1>5
<1>10. Flow(m, s, gv)
  BY Zenon, <1>1, <1>2, <1>5, <1>6, <1>7, <1>8, <1>9 DEF Flow
<1> QED BY Zenon, <1>10 DEF m, s

\* txDone() with a link delay moves the frame into the queue.
LEMMA TxDoneFlow ==
    ASSUME NEW l \in Link, NEW tk, NEW gv, NEW t \in Nat, NEW D \in Nat,
           Flow(l, tk, gv), busy(l), D > 0
    PROVE  Flow(txDone(l, t, D), tk, gv)
<1> DEFINE m == txDone(l, t, D)
           p == l.txQueue
           e == [at |-> t + D, frame |-> l.packet]
           q == joined(p, e)
           T == [at : Nat, frame : Frame]
<1>1. m.txQueue = q /\ ~ busy(m)
  BY Zenon DEF txDone, busy
<1>2. p \in Seq(T) /\ e \in T /\ e.frame = l.packet
  BY DEF Link, busy, Frame
<1>3. /\ Len(q) = Len(p) + 1 /\ Len(p) \in Nat
      /\ \A i \in 1 .. Len(p) : q[i] = p[i]
      /\ q[Len(p) + 1] = e
  <2> HIDE DEF p, e, T
  <2> QED BY <1>2, AppendFrame DEF joined
<1>4. /\ tk \in Seq(Frame) /\ gv \in Seq(Frame) /\ Len(tk) = Len(gv) + Len(p) + 1
      /\ \A i \in 1 .. Len(gv) : gv[i] = tk[i]
      /\ \A i \in 1 .. Len(p) : tk[Len(gv) + i] = p[i].frame
      /\ tk[Len(tk)] = l.packet
  BY Zenon DEF Flow
<1>5. Len(gv) \in Nat
  BY <1>4
<1> HIDE DEF m, p, q, e, T
<1>6. Len(tk) = Len(gv) + Len(q) + 0 /\ Len(q) \in Nat
  BY <1>3, <1>4, <1>5
<1>7. \A i \in 1 .. Len(q) : tk[Len(gv) + i] = q[i].frame
  <2> SUFFICES ASSUME NEW i \in 1 .. Len(q) PROVE tk[Len(gv) + i] = q[i].frame
    BY Zenon
  <2>1. CASE i \in 1 .. Len(p)
    BY Zenon, <1>3, <1>4, <2>1
  <2>2. CASE i = Len(p) + 1
    <3>1. Len(gv) + i = Len(tk)
      BY <1>3, <1>4, <1>5, <2>2
    <3> QED BY Zenon, <1>2, <1>3, <1>4, <2>2, <3>1
  <2>3. i \in 1 .. Len(p) \/ i = Len(p) + 1
    BY <1>3
  <2> QED BY Zenon, <2>1, <2>2, <2>3
<1>8. Flow(m, tk, gv)
  BY Zenon, <1>1, <1>4, <1>5, <1>6, <1>7 DEF Flow
<1> QED BY Zenon, <1>8 DEF m

\* A delivery takes the next frame: gv grows by the one that is next in tk.
LEMMA Delivers ==
    ASSUME NEW tk \in Seq(Frame), NEW gv \in Seq(Frame), NEW f \in Frame,
           \A i \in 1 .. Len(gv) : gv[i] = tk[i], tk[Len(gv) + 1] = f
    PROVE  /\ Append(gv, f) \in Seq(Frame) /\ Len(Append(gv, f)) = Len(gv) + 1
           /\ \A i \in 1 .. Len(Append(gv, f)) : Append(gv, f)[i] = tk[i]
<1> DEFINE s == Append(gv, f)
<1>1. /\ s \in Seq(Frame) /\ Len(s) = Len(gv) + 1 /\ Len(gv) \in Nat
      /\ \A i \in 1 .. Len(gv) : s[i] = gv[i]
      /\ s[Len(gv) + 1] = f
  BY AppendFrame
<1> HIDE DEF s
<1>2. \A i \in 1 .. Len(s) : i \in 1 .. Len(gv) \/ i = Len(gv) + 1
  BY <1>1
<1>3. \A i \in 1 .. Len(s) : s[i] = tk[i]
  BY Zenon, <1>1, <1>2
<1> QED BY Zenon, <1>1, <1>3 DEF s

\* txDone() without a link delay delivers the frame.
LEMMA TxDoneNowFlow ==
    ASSUME NEW l \in Link, NEW tk, NEW gv, NEW t \in Nat,
           Flow(l, tk, gv), busy(l), l.txQueue = <<>>
    PROVE  /\ Flow(txDone(l, t, 0), tk, Append(gv, l.packet))
           /\ tk[Len(gv) + 1] = l.packet /\ Len(gv) < Len(tk)
<1> DEFINE m == txDone(l, t, 0)
           s == Append(gv, l.packet)
<1>1. m.txQueue = <<>> /\ ~ busy(m) /\ Len(<<>>) = 0 /\ l.packet \in Frame
  BY DEF txDone, busy, Link, Frame
<1>2. /\ tk \in Seq(Frame) /\ gv \in Seq(Frame) /\ Len(tk) = Len(gv) + 0 + 1
      /\ \A i \in 1 .. Len(gv) : gv[i] = tk[i]
      /\ tk[Len(tk)] = l.packet
  BY Zenon, <1>1 DEF Flow
<1>3. Len(gv) \in Nat
  BY <1>2
<1>4. Len(tk) = Len(gv) + 1 /\ tk[Len(gv) + 1] = l.packet /\ Len(gv) < Len(tk)
  BY <1>2, <1>3
<1>5. /\ s \in Seq(Frame) /\ Len(s) = Len(gv) + 1
      /\ \A i \in 1 .. Len(s) : s[i] = tk[i]
  BY Zenon, <1>1, <1>2, <1>4, Delivers
<1> HIDE DEF m, s
<1>6. Flow(m, tk, s)
  BY <1>1, <1>2, <1>3, <1>4, <1>5 DEF Flow
<1> QED BY Zenon, <1>4, <1>6 DEF m, s

\* processTxQueue() delivers the first frame of the queue.
LEMMA ProcessTxQueueFlow ==
    ASSUME NEW l \in Link, NEW tk, NEW gv, Flow(l, tk, gv), l.txQueue # <<>>
    PROVE  /\ Flow(processTxQueue(l), tk, Append(gv, Head(l.txQueue).frame))
           /\ tk[Len(gv) + 1] = Head(l.txQueue).frame /\ Len(gv) < Len(tk)
<1> DEFINE m == processTxQueue(l)
           q == l.txQueue
           r == Tail(q)
           f == Head(q).frame
           s == Append(gv, f)
           T == [at : Nat, frame : Frame]
           b == IF busy(l) THEN 1 ELSE 0
<1>1. m.txQueue = r /\ m.packet = l.packet /\ busy(m) = busy(l)
  BY Zenon DEF processTxQueue, busy
<1>2. q \in Seq(T)
  BY Zenon DEF Link
<1>3. /\ Len(q) \in Nat /\ Len(q) > 0 /\ Head(q) = q[1] /\ q[1] \in T
      /\ Len(r) = Len(q) - 1 /\ \A i \in 1 .. Len(r) : r[i] = q[i + 1]
  <2> HIDE DEF q, T
  <2> QED BY <1>2 DEF q
<1>4. f = q[1].frame /\ f \in Frame /\ b \in 0 .. 1
  BY <1>3
<1>5. /\ tk \in Seq(Frame) /\ gv \in Seq(Frame) /\ Len(tk) = Len(gv) + Len(q) + b
      /\ \A i \in 1 .. Len(gv) : gv[i] = tk[i]
      /\ \A i \in 1 .. Len(q) : tk[Len(gv) + i] = q[i].frame
      /\ busy(l) => tk[Len(tk)] = l.packet
  BY Zenon DEF Flow
<1>6. Len(gv) \in Nat
  BY <1>5
<1>7. b = IF busy(m) THEN 1 ELSE 0
  BY Zenon, <1>1
<1> HIDE DEF m, q, r, f, T, b
<1>8. tk[Len(gv) + 1] = f /\ Len(gv) < Len(tk)
  BY <1>3, <1>4, <1>5, <1>6
<1>9. /\ s \in Seq(Frame) /\ Len(s) = Len(gv) + 1
      /\ \A i \in 1 .. Len(s) : s[i] = tk[i]
  BY Zenon, <1>4, <1>5, <1>8, Delivers
<1> HIDE DEF s
<1>10. Len(tk) = Len(s) + Len(r) + b
  BY <1>3, <1>4, <1>5, <1>6, <1>9
<1>11. \A i \in 1 .. Len(r) : tk[Len(s) + i] = r[i].frame
  <2> SUFFICES ASSUME NEW i \in 1 .. Len(r) PROVE tk[Len(s) + i] = r[i].frame
    BY Zenon
  <2>1. i + 1 \in 1 .. Len(q) /\ Len(s) + i = Len(gv) + (i + 1)
    BY <1>3, <1>6, <1>9
  <2> QED BY Zenon, <1>3, <1>5, <2>1
<1>12. Flow(m, tk, s)
  BY Zenon, <1>1, <1>5, <1>7, <1>9, <1>10, <1>11 DEF Flow
<1> QED BY Zenon, <1>8, <1>12 DEF m, s, f, q

\* restore() keeps the queue and the frame.
LEMMA RestoredFlow ==
    ASSUME NEW l, NEW tk, NEW gv, Flow(l, tk, gv)
    PROVE  Flow(restored(l), tk, gv)
<1> DEFINE m == restored(l)
<1>1. m.txQueue = l.txQueue /\ m.packet = l.packet /\ busy(m) = busy(l)
  BY Zenon DEF restored, busy
<1> HIDE DEF m
<1>2. Flow(m, tk, gv)
  BY Zenon, <1>1 DEF Flow
<1> QED BY Zenon, <1>2 DEF m

-----------------------------------------------------------------------------
(* The two directions                                                      *)

\* What a step does to what direction d has taken and delivered.
Takes(d) == /\ Len(taken'[d]) = Len(taken[d]) + 1 /\ given'[d] = given[d]
            /\ \A i \in 1 .. Len(taken[d]) : taken'[d][i] = taken[d][i]
Delivered(d) == /\ taken'[d] = taken[d] /\ Len(given[d]) < Len(taken[d])
                /\ given'[d] = Append(given[d], taken[d][Len(given[d]) + 1])
Stays(d) == taken'[d] = taken[d] /\ given'[d] = given[d]

Shape == DOMAIN taken = Dir /\ DOMAIN given = Dir

LEMMA InitFlow == Init => Shape /\ FlowInv
<1> SUFFICES ASSUME Init PROVE Shape /\ FlowInv
  BY Zenon
<1>1. idleLink.txQueue = <<>> /\ ~ busy(idleLink) /\ Len(<<>>) = 0
  BY Zenon DEF idleLink, busy
<1>2. <<>> \in Seq(Frame)
  OBVIOUS
<1>3. Flow(idleLink, <<>>, <<>>)
  BY <1>1, <1>2 DEF Flow
<1> QED BY Zenon, <1>3 DEF Init, Shape, FlowInv

\* Every step keeps the order of each direction, and is a step of its channel.
LEMMA NextFlow ==
    ASSUME IInv, Shape, FlowInv, [Next]_vars
    PROVE  Shape' /\ FlowInv' /\ \A d \in Dir : Takes(d) \/ Delivered(d) \/ Stays(d)
<1> DEFINE D == setup.linkDelay
<1>1. /\ now \in Nat /\ sent \in Nat /\ D \in Nat /\ DOMAIN link = Dir
      /\ dut.frames \in Seq(Frame)
      /\ \A d \in Dir : link[d] \in Link /\ LinkAsserts(link[d], now, D)
  BY Zenon, SetupTypes DEF IInv, LinkInv
<1>2. /\ DOMAIN taken = Dir /\ DOMAIN given = Dir
      /\ \A d \in Dir : Flow(link[d], taken[d], given[d])
  BY Zenon DEF Shape, FlowInv
<1>3. "out" \in Dir /\ "back" \in Dir
  BY Zenon DEF Dir
<1>4. ASSUME NEW d \in Dir, NEW f \in Frame, NEW x, ~ busy(link[d]),
             link' = [link EXCEPT ![d] = transmit(link[d], f, x)],
             taken' = [taken EXCEPT ![d] = Append(taken[d], f)], given' = given
      PROVE  Shape' /\ FlowInv' /\ \A e \in Dir : Takes(e) \/ Delivered(e) \/ Stays(e)
  <2>1. Flow(transmit(link[d], f, x), Append(taken[d], f), given[d])
    BY Zenon, <1>1, <1>2, <1>4, TransmitFlow
  <2>2. Shape' /\ FlowInv'
    BY Zenon, <1>1, <1>2, <1>4, <2>1 DEF Shape, FlowInv
  <2>3. taken[d] \in Seq(Frame)
    BY Zenon, <1>2 DEF Flow
  <2>4. Takes(d)
    BY <1>2, <1>4, <2>3, AppendFrame DEF Takes
  <2>5. \A e \in Dir : e # d => Stays(e)
    BY Zenon, <1>2, <1>4 DEF Stays
  <2> QED BY Zenon, <2>2, <2>4, <2>5
<1>5. ASSUME NEW d \in Dir, NEW l, NEW f,
             link' = [link EXCEPT ![d] = l], taken' = taken,
             given' = [given EXCEPT ![d] = Append(given[d], f)],
             Flow(l, taken[d], Append(given[d], f)),
             taken[d][Len(given[d]) + 1] = f, Len(given[d]) < Len(taken[d])
      PROVE  Shape' /\ FlowInv' /\ \A e \in Dir : Takes(e) \/ Delivered(e) \/ Stays(e)
  <2>1. Shape' /\ FlowInv'
    BY Zenon, <1>1, <1>2, <1>5 DEF Shape, FlowInv
  <2>2. Delivered(d)
    BY Zenon, <1>2, <1>5 DEF Delivered
  <2>3. \A e \in Dir : e # d => Stays(e)
    BY Zenon, <1>2, <1>5 DEF Stays
  <2> QED BY Zenon, <2>1, <2>2, <2>3
<1>6. ASSUME taken' = taken, given' = given,
             \A d \in Dir : Flow(link'[d], taken[d], given[d])
      PROVE  Shape' /\ FlowInv' /\ \A e \in Dir : Takes(e) \/ Delivered(e) \/ Stays(e)
  BY Zenon, <1>2, <1>6 DEF Shape, FlowInv, Stays
<1> HIDE DEF D
<1>7. CASE sendPacket
  <2>1. CASE busy(link["out"])
    <3>1. link' = link /\ taken' = taken /\ given' = given
      BY Zenon, <1>7, <2>1 DEF sendPacket
    <3> QED BY Zenon, <1>2, <1>6, <3>1
  <2>2. CASE ~ busy(link["out"])
    <3>1. PICK n \in transferTicks(0, setup.delayVar) :
            link' = [link EXCEPT !["out"] = transmit(link["out"], sent + 1, now + n)]
      BY Zenon, <1>7, <2>2 DEF sendPacket
    <3>2. /\ taken' = [taken EXCEPT !["out"] = Append(taken["out"], sent + 1)]
          /\ given' = given
      BY Zenon, <1>7, <2>2 DEF sendPacket
    <3>3. sent + 1 \in Frame
      BY <1>1 DEF Frame, NoFrame
    <3> QED BY Zenon, <1>3, <1>4, <2>2, <3>1, <3>2, <3>3
  <2> QED BY Zenon, <2>1, <2>2
<1>8. CASE forward
  <2>1. dut.frames # <<>> /\ ~ busy(link["back"]) /\ given' = given
    BY Zenon, <1>8 DEF forward
  <2>2. Head(dut.frames) \in Frame
    BY <1>1, <2>1
  <2>3. PICK n \in transferTicks(SimLength, setup.delayVar) :
          link' = [link EXCEPT !["back"] = transmit(link["back"], Head(dut.frames), now + n)]
    BY Zenon, <1>8 DEF forward
  <2>4. taken' = [taken EXCEPT !["back"] = Append(taken["back"], Head(dut.frames))]
    BY Zenon, <1>8 DEF forward
  <2> QED BY Zenon, <1>3, <1>4, <2>1, <2>2, <2>3, <2>4
<1>9. ASSUME NEW d \in Dir, transferDone(d)
      PROVE  Shape' /\ FlowInv' /\ \A e \in Dir : Takes(e) \/ Delivered(e) \/ Stays(e)
  <2>1. /\ link[d].doneAt = now /\ taken' = taken
        /\ link' = [link EXCEPT ![d] = txDone(link[d], now, D)]
    BY Zenon, <1>9 DEF transferDone, D
  <2>2. busy(link[d])
    <3>1. busy(link[d]) = (link[d].doneAt # Never)
      BY Zenon, <1>1 DEF LinkAsserts
    <3>2. link[d].doneAt # Never
      BY <1>1, <2>1 DEF Never
    <3> QED BY Zenon, <3>1, <3>2
  <2>3. CASE D > 0
    <3>1. given' = given
      BY Zenon, <1>9, <2>3 DEF transferDone, D
    <3>2. Flow(txDone(link[d], now, D), taken[d], given[d])
      BY Zenon, <1>1, <1>2, <2>2, <2>3, TxDoneFlow
    <3>3. \A e \in Dir : Flow(link'[e], taken[e], given[e])
      BY Zenon, <1>1, <1>2, <2>1, <3>2
    <3> QED BY Zenon, <1>6, <2>1, <3>1, <3>3
  <2>4. CASE D = 0
    <3>1. given' = [given EXCEPT ![d] = Append(given[d], link[d].packet)]
      BY SMTT(30), <1>9, <2>4 DEF transferDone, txComplete, D
    <3>2. link[d].txQueue = <<>>
      BY Zenon, <1>1, <2>4 DEF LinkAsserts
    <3>3. /\ Flow(txDone(link[d], now, D), taken[d], Append(given[d], link[d].packet))
          /\ taken[d][Len(given[d]) + 1] = link[d].packet /\ Len(given[d]) < Len(taken[d])
      BY SMTT(30), <1>1, <1>2, <2>2, <2>4, <3>2, TxDoneNowFlow
    <3> QED BY Zenon, <1>5, <2>1, <3>1, <3>3
  <2> QED BY <1>1, <2>3, <2>4
<1>10. ASSUME NEW d \in Dir, queueEvent(d)
       PROVE  Shape' /\ FlowInv' /\ \A e \in Dir : Takes(e) \/ Delivered(e) \/ Stays(e)
  <2> DEFINE f == Head(link[d].txQueue).frame
  <2>1. /\ link[d].queueAt = now /\ taken' = taken
        /\ link' = [link EXCEPT ![d] = processTxQueue(link[d])]
        /\ given' = [given EXCEPT ![d] = Append(given[d], f)]
    BY Zenon, <1>10 DEF queueEvent, txComplete
  <2>2. link[d].txQueue # <<>>
    <3>1. (link[d].txQueue = <<>>) = (link[d].queueAt = Never)
      BY Zenon, <1>1 DEF LinkAsserts
    <3>2. link[d].queueAt # Never
      BY <1>1, <2>1 DEF Never
    <3> QED BY Zenon, <3>1, <3>2
  <2>3. /\ Flow(processTxQueue(link[d]), taken[d], Append(given[d], f))
        /\ taken[d][Len(given[d]) + 1] = f /\ Len(given[d]) < Len(taken[d])
    BY Zenon, <1>1, <1>2, <2>2, ProcessTxQueueFlow
  <2> HIDE DEF f
  <2> QED BY Zenon, <1>5, <2>1, <2>3
<1>11. CASE restore
  <2>1. taken' = taken /\ given' = given /\ link' = [d \in Dir |-> restored(link[d])]
    BY Zenon, <1>11 DEF restore
  <2>2. \A d \in Dir : Flow(link'[d], taken[d], given[d])
    BY Zenon, <1>2, <2>1, RestoredFlow
  <2> QED BY Zenon, <1>6, <2>1, <2>2
<1>12. CASE checkLoss \/ advance \/ UNCHANGED vars
  <2>1. taken' = taken /\ given' = given /\ link' = link
    BY Zenon, <1>12 DEF checkLoss, advance, vars
  <2> QED BY Zenon, <1>2, <1>6, <2>1
<1> QED BY Zenon, <1>7, <1>8, <1>9, <1>10, <1>11, <1>12 DEF Next

-----------------------------------------------------------------------------
(* The channel                                                             *)

Iota(n) == [i \in 1 .. n |-> i]

LEMMA AppendIota ==
    ASSUME NEW n \in Nat
    PROVE  /\ Iota(n) \in Seq(Nat) /\ Len(Iota(n)) = n
           /\ Append(Iota(n), Len(Iota(n)) + 1) = Iota(n + 1)
<1>1. Iota(n) \in Seq(Nat) /\ Len(Iota(n)) = n
  BY DEF Iota
<1> DEFINE s == Append(Iota(n), n + 1)
<1>2. s \in Seq(Nat) /\ Len(s) = n + 1
  BY <1>1, AppendFrame
<1>3. \A i \in 1 .. n : s[i] = i
  BY <1>1, AppendFrame DEF Iota
<1>4. s[n + 1] = n + 1
  BY <1>1, AppendFrame
<1> HIDE DEF s
<1>5. DOMAIN s = 1 .. n + 1 /\ s = [i \in DOMAIN s |-> s[i]]
  BY <1>2
<1>6. \A i \in 1 .. n + 1 : s[i] = i
  BY <1>3, <1>4
<1>7. s = Iota(n + 1)
  BY Zenon, <1>5, <1>6 DEF Iota
<1> QED BY Zenon, <1>1, <1>7 DEF s

\* Frames delivered in the order of their acceptance are 1, 2, ...
LEMMA FlowIota ==
    ASSUME NEW l, NEW tk, NEW gv, Flow(l, tk, gv)
    PROVE  /\ [i \in DOMAIN gv |-> IF gv[i] = tk[i] THEN i ELSE 0] = Iota(Len(gv))
           /\ Len(gv) \in Nat /\ Len(tk) \in Nat
<1>1. gv \in Seq(Frame) /\ tk \in Seq(Frame) /\ \A i \in 1 .. Len(gv) : gv[i] = tk[i]
  BY Zenon DEF Flow
<1>2. DOMAIN gv = 1 .. Len(gv) /\ Len(gv) \in Nat /\ Len(tk) \in Nat
  BY <1>1
<1> QED BY Zenon, <1>1, <1>2 DEF Iota

LEMMA ChannelStep ==
    ASSUME NEW d \in Dir, FlowInv, FlowInv', Takes(d) \/ Delivered(d) \/ Stays(d)
    PROVE  \/ /\ Len(taken'[d]) = Len(taken[d]) + 1
              /\ inOrder(d)' = inOrder(d)
           \/ /\ Len(inOrder(d)) < Len(taken[d])
              /\ inOrder(d)' = Append(inOrder(d), Len(inOrder(d)) + 1)
              /\ Len(taken'[d]) = Len(taken[d])
           \/ /\ Len(taken'[d]) = Len(taken[d])
              /\ inOrder(d)' = inOrder(d)
<1>1. inOrder(d) = Iota(Len(given[d])) /\ Len(given[d]) \in Nat /\ Len(taken[d]) \in Nat
  <2>1. Flow(link[d], taken[d], given[d])
    BY Zenon DEF FlowInv
  <2> QED BY SMTT(30), <2>1, FlowIota DEF inOrder
<1>2. inOrder(d)' = Iota(Len(given'[d]))
  <2>1. Flow(link'[d], taken'[d], given'[d])
    BY Zenon DEF FlowInv
  <2> QED BY <2>1, FlowIota DEF inOrder
<1>3. Len(inOrder(d)) = Len(given[d])
  BY Zenon, <1>1, AppendIota
<1>4. CASE Takes(d)
  BY Zenon, <1>1, <1>2, <1>4 DEF Takes
<1>5. CASE Delivered(d)
  <2>1. Len(given'[d]) = Len(given[d]) + 1
    <3>1. given[d] \in Seq(Frame) /\ given'[d] \in Seq(Frame)
      BY Zenon DEF FlowInv, Flow
    <3> QED BY <1>5, <3>1 DEF Delivered
  <2>2. inOrder(d)' = Append(inOrder(d), Len(inOrder(d)) + 1)
    BY Zenon, <1>1, <1>2, <2>1, AppendIota
  <2> QED BY Zenon, <1>3, <1>5, <2>2 DEF Delivered
<1>6. CASE Stays(d)
  BY Zenon, <1>1, <1>2, <1>6 DEF Stays
<1> QED BY Zenon, <1>4, <1>5, <1>6

LEMMA InitChannel == Init => Out!Init /\ Back!Init
<1> SUFFICES ASSUME Init PROVE Out!Init /\ Back!Init
  BY Zenon
<1>1. "out" \in Dir /\ "back" \in Dir
  BY Zenon DEF Dir
<1>2. \A d \in Dir : taken[d] = <<>> /\ given[d] = <<>>
  BY Zenon DEF Init
<1>3. \A d \in Dir : Len(taken[d]) = 0 /\ inOrder(d) = <<>>
  BY <1>2 DEF inOrder
<1> QED BY Zenon, <1>1, <1>3 DEF Out!Init, Back!Init

\* Each direction of the link, whatever the configuration, the number of
\* frames and the restores, delivers what transmit() took, once and in order.
THEOREM LinkTheorem == Spec => LinkSpec
<1> DEFINE OutVars == <<Len(taken["out"]), inOrder("out")>>
           BackVars == <<Len(taken["back"]), inOrder("back")>>
<1>1. "out" \in Dir /\ "back" \in Dir
  BY Zenon DEF Dir
<1>2. Init => IInv /\ Shape /\ FlowInv /\ Out!Init /\ Back!Init
  BY Zenon, InitInv, InitFlow, InitChannel
<1>3. IInv /\ Shape /\ FlowInv /\ [Next]_vars => IInv' /\ Shape' /\ FlowInv'
  BY Zenon, NextInv, NextFlow
<1>4. IInv /\ Shape /\ FlowInv /\ [Next]_vars => [Out!Next]_OutVars
  BY Zenon, <1>1, NextFlow, ChannelStep DEF Out!Next, Out!Accept, Out!Deliver
<1>5. IInv /\ Shape /\ FlowInv /\ [Next]_vars => [Back!Next]_BackVars
  BY Zenon, <1>1, NextFlow, ChannelStep DEF Back!Next, Back!Accept, Back!Deliver
<1> QED BY <1>2, <1>3, <1>4, <1>5, PTL DEF Spec, LinkSpec, Out!Spec, Back!Spec

-----------------------------------------------------------------------------
(***************************************************************************)
(* Where the frames of the generator are, what its rate and counters can   *)
(* be, and by when a frame is back: the inductive invariant of             *)
(* LoadLossProofs and the steps that only move frames.                     *)
(***************************************************************************)

\* The frames on the link to the card, in the card, and on the way back.
Part(s, n) == {s[i] : i \in n + 1 .. Len(s)}

OutPart == Part(taken["out"], Len(given["out"]))
DutPart == RangeOf(dut.frames)
BackPart == Part(taken["back"], Len(given["back"]))
Counted == RangeOf(given["back"])
InWay == OutPart \cup DutPart \cup BackPart

Distinct(s) == \A i, j \in DOMAIN s : s[i] = s[j] => i = j

\* A frame is in one place.
PlaceInv ==
    /\ Distinct(taken["out"]) /\ Distinct(dut.frames) /\ Distinct(taken["back"])
    /\ OutPart \cap DutPart = {} /\ OutPart \cap BackPart = {} /\ OutPart \cap Counted = {}
    /\ DutPart \cap BackPart = {} /\ DutPart \cap Counted = {}
    /\ lost \cap (OutPart \cup DutPart \cup BackPart \cup Counted) = {}
    /\ 1 .. sent = lost \cup OutPart \cup DutPart \cup BackPart \cup Counted
    /\ RangeOf(taken["out"]) \subseteq 1 .. sent

\* The generator and what is recorded of it.
Gens == [packetRate : 0 .. RateWord - 1, burstStartTick : Nat, lastTxCount : 0 .. Word - 1,
         lastRxCount : 0 .. Word - 1, checkAt : Time, sendAt : Time]

GenType ==
    /\ lg \in Gens
    /\ DOMAIN dut = {"frames", "by"} /\ dut.by \in Nat
    /\ first \in 1 .. sent + 1 /\ stray \in BOOLEAN /\ restores \in 0 .. setup.maxRestores

\* Events are scheduled in the past only at rate 0.
PastInv == lg.sendAt # Never /\ lg.sendAt < now => lg.packetRate = 0

\* The counters of an interval: what came back before it, and since.
CountInv ==
    /\ lg.checkAt # Never => setup.mode = "Increment" /\ lg.lastTxCount = CheckLossInterval
    /\ setup.mode = "Increment" =>
         /\ lg.lastTxCount = sent + 1 - first /\ lg.lastTxCount <= CheckLossInterval
         /\ lg.sendAt # Never => lg.lastTxCount < CheckLossInterval
    /\ base \in 0 .. Len(given["back"])
    /\ lg.lastRxCount = (Len(given["back"]) - base) % Word
    /\ \A i \in 1 .. base : given["back"][i] < first
    /\ ample /\ ~ stray =>
         /\ InWay \subseteq first .. sent
         /\ \A i \in base + 1 .. Len(given["back"]) : given["back"][i] >= first

\* The time of the last frame, and the time the card and its link need for one.
LastSent == IF lg.checkAt = Never THEN now ELSE lg.checkAt - Allowance
Turn == SimLength + 1 + setup.delayVar + setup.dutDelay

\* The frames that are still to leave the card, and the time it had for the others.
Ahead == Len(taken["out"]) - Len(given["out"]) + Len(dut.frames)
Credit == (lg.lastTxCount - Ahead) * Turn

Until(l, t) == \A i \in DOMAIN l.txQueue : l.txQueue[i].at <= t

\* Everything sent by t0 is at the card by time x, the card sends a frame by
\* x + setup.dutDelay + c, and the link has it by x + c.
Timely(out, back, q, by, t, t0, c) ==
    LET x == t0 + 1 + setup.delayVar + setup.linkDelay
    IN  /\ busy(out) => out.doneAt <= t0 + 1 + setup.delayVar
        /\ Until(out, x)
        /\ q # <<>> => by <= x + setup.dutDelay + c /\ (~ busy(back) => t <= x + setup.dutDelay + c)
        /\ busy(back) => back.doneAt <= x + c
        /\ Until(back, x + c + setup.linkDelay)

TimeInv ==
    (setup.mode = "Increment" /\ ample /\ ~ stray) =>
      /\ Ahead <= lg.lastTxCount
      /\ Timely(link["out"], link["back"], dut.frames, dut.by, now, LastSent, Credit)

LossInv == IInv /\ Shape /\ FlowInv /\ PlaceInv /\ GenType /\ PastInv /\ CountInv /\ TimeInv
-----------------------------------------------------------------------------
(* Sequences of distinct elements                                          *)

\* Append adds one element to a part of a sequence and to its range.
LEMMA PartAppend ==
    ASSUME NEW T, NEW s \in Seq(T), NEW x \in T, NEW n \in 0 .. Len(s)
    PROVE  /\ Part(Append(s, x), n) = Part(s, n) \cup {x}
           /\ RangeOf(Append(s, x)) = RangeOf(s) \cup {x}
           /\ Distinct(s) /\ x \notin RangeOf(s) => Distinct(Append(s, x))
<1> DEFINE a == Append(s, x)
<1>1. /\ a \in Seq(T) /\ Len(s) \in Nat /\ Len(a) = Len(s) + 1
      /\ \A i \in 1 .. Len(s) : a[i] = s[i]
      /\ a[Len(s) + 1] = x /\ DOMAIN a = 1 .. Len(s) + 1 /\ DOMAIN s = 1 .. Len(s)
  BY AppendFrame
<1> HIDE DEF a
<1>2. Part(a, n) \subseteq Part(s, n) \cup {x}
  <2> SUFFICES ASSUME NEW i \in n + 1 .. Len(a) PROVE a[i] \in Part(s, n) \cup {x}
    BY Zenon DEF Part
  <2>1. CASE i = Len(s) + 1
    BY Zenon, <1>1, <2>1
  <2>2. CASE i # Len(s) + 1
    <3>1. i \in n + 1 .. Len(s) /\ i \in 1 .. Len(s)
      BY <1>1, <2>2
    <3> QED BY Zenon, <1>1, <3>1 DEF Part
  <2> QED BY Zenon, <2>1, <2>2
<1>3. Part(s, n) \cup {x} \subseteq Part(a, n)
  <2>1. ASSUME NEW i \in n + 1 .. Len(s) PROVE s[i] \in Part(a, n)
    <3>1. i \in n + 1 .. Len(a) /\ a[i] = s[i]
      BY <1>1
    <3> QED BY Zenon, <3>1 DEF Part
  <2>2. x \in Part(a, n)
    <3>1. Len(s) + 1 \in n + 1 .. Len(a)
      BY <1>1
    <3> QED BY Zenon, <1>1, <3>1 DEF Part
  <2> QED BY Zenon, <2>1, <2>2 DEF Part
<1>4. RangeOf(a) = RangeOf(s) \cup {x}
  <2>1. \A i \in DOMAIN a : i \in DOMAIN s \/ i = Len(s) + 1
    BY <1>1
  <2>2. \A i \in DOMAIN s : i \in DOMAIN a /\ a[i] = s[i]
    BY <1>1
  <2>3. Len(s) + 1 \in DOMAIN a
    BY <1>1
  <2> QED BY Zenon, <1>1, <2>1, <2>2, <2>3 DEF RangeOf
<1>5. ASSUME Distinct(s), x \notin RangeOf(s), NEW i \in DOMAIN a, NEW j \in DOMAIN a, a[i] = a[j]
      PROVE  i = j
  <2>1. \A k \in DOMAIN a : (k \in DOMAIN s /\ a[k] = s[k] /\ a[k] # x) \/ (k = Len(s) + 1 /\ a[k] = x)
    BY <1>1, <1>5 DEF RangeOf
  <2> QED BY Zenon, <1>5, <2>1 DEF Distinct
<1>6. Distinct(s) /\ x \notin RangeOf(s) => Distinct(a)
  BY Zenon, <1>5 DEF Distinct
<1> QED BY Zenon, <1>2, <1>3, <1>4, <1>6 DEF a

\* The first element of a part leaves it.
LEMMA PartDrop ==
    ASSUME NEW T, NEW s \in Seq(T), NEW n \in Nat, n < Len(s), Distinct(s)
    PROVE  /\ Part(s, n) = Part(s, n + 1) \cup {s[n + 1]}
           /\ s[n + 1] \notin Part(s, n + 1) /\ s[n + 1] \in RangeOf(s)
<1>1. Len(s) \in Nat /\ DOMAIN s = 1 .. Len(s)
  OBVIOUS
<1>2. \A i : i \in n + 1 .. Len(s) <=> i = n + 1 \/ i \in n + 1 + 1 .. Len(s)
  BY <1>1
<1>3. Part(s, n) = Part(s, n + 1) \cup {s[n + 1]}
  BY Zenon, <1>2 DEF Part
<1>4. \A i \in n + 1 + 1 .. Len(s) : i \in DOMAIN s /\ i # n + 1
  BY <1>1
<1>5. n + 1 \in DOMAIN s
  BY <1>1
<1> QED BY Zenon, <1>3, <1>4, <1>5 DEF Part, Distinct, RangeOf

\* The first element of a queue leaves it.
LEMMA RangeTail ==
    ASSUME NEW T, NEW s \in Seq(T), s # <<>>, Distinct(s)
    PROVE  /\ RangeOf(s) = RangeOf(Tail(s)) \cup {Head(s)}
           /\ Head(s) \notin RangeOf(Tail(s)) /\ Distinct(Tail(s))
<1> DEFINE r == Tail(s)
<1>1. /\ Len(s) \in Nat /\ Len(s) > 0 /\ DOMAIN s = 1 .. Len(s) /\ Head(s) = s[1]
      /\ DOMAIN r = 1 .. Len(s) - 1 /\ \A i \in 1 .. Len(s) - 1 : r[i] = s[i + 1]
  OBVIOUS
<1> HIDE DEF r
<1>2. \A i \in DOMAIN r : i + 1 \in DOMAIN s /\ r[i] = s[i + 1] /\ i \in Nat /\ i + 1 # 1
  BY <1>1
<1>3. \A i \in DOMAIN s : i = 1 \/ (i - 1 \in DOMAIN r /\ r[i - 1] = s[i])
  BY <1>1
<1>4. 1 \in DOMAIN s
  BY <1>1
<1>5. RangeOf(s) = RangeOf(r) \cup {Head(s)}
  BY <1>1, <1>2, <1>3, <1>4 DEF RangeOf
<1>6. Head(s) \notin RangeOf(r)
  BY <1>1, <1>2, <1>4 DEF RangeOf, Distinct
<1>7. Distinct(r)
  <2> SUFFICES ASSUME NEW i \in DOMAIN r, NEW j \in DOMAIN r, r[i] = r[j] PROVE i = j
    BY Zenon DEF Distinct
  <2>1. i + 1 = j + 1
    BY Zenon, <1>2 DEF Distinct
  <2> QED BY <1>2, <2>1
<1> QED BY Zenon, <1>5, <1>6, <1>7 DEF r

-----------------------------------------------------------------------------
(* What a step does to the places of the frames                            *)

Refuses == /\ busy(link["out"]) /\ sent' = sent + 1 /\ lost' = lost \cup {sent + 1}
           /\ taken' = taken /\ given' = given /\ dut' = dut /\ link' = link
Accepts == /\ ~ busy(link["out"]) /\ sent' = sent + 1
           /\ taken' = [taken EXCEPT !["out"] = Append(@, sent + 1)]
           /\ lost' = lost /\ given' = given /\ dut' = dut
Arrives(f) == /\ f = taken["out"][Len(given["out"]) + 1] /\ Len(given["out"]) < Len(taken["out"])
              /\ given' = [given EXCEPT !["out"] = Append(@, f)] /\ taken' = taken /\ sent' = sent
              /\ \/ dut'.frames = Append(dut.frames, f) /\ lost' = lost
                 \/ dut' = dut /\ lost' = lost \cup {f}
Leaves == /\ dut.frames # <<>> /\ dut'.frames = Tail(dut.frames)
          /\ taken' = [taken EXCEPT !["back"] = Append(@, Head(dut.frames))]
          /\ sent' = sent /\ lost' = lost /\ given' = given
Returns(f) == /\ f = taken["back"][Len(given["back"]) + 1] /\ Len(given["back"]) < Len(taken["back"])
              /\ given' = [given EXCEPT !["back"] = Append(@, f)] /\ taken' = taken
              /\ sent' = sent /\ lost' = lost /\ dut' = dut
Quiet == sent' = sent /\ lost' = lost /\ taken' = taken /\ given' = given /\ dut' = dut

\* The frame that txDone() or processTxQueue() delivers is the next one.
LEMMA NextFrame ==
    ASSUME IInv, Shape, FlowInv, NEW d \in Dir
    PROVE  /\ transferDone(d) /\ setup.linkDelay = 0 =>
                /\ link[d].packet = taken[d][Len(given[d]) + 1] /\ Len(given[d]) < Len(taken[d])
           /\ queueEvent(d) =>
                /\ Head(link[d].txQueue).frame = taken[d][Len(given[d]) + 1]
                /\ Len(given[d]) < Len(taken[d])
<1>1. /\ now \in Nat /\ link[d] \in Link /\ LinkAsserts(link[d], now, setup.linkDelay)
      /\ Flow(link[d], taken[d], given[d])
  BY Zenon DEF IInv, LinkInv, FlowInv
<1>2. ASSUME transferDone(d), setup.linkDelay = 0
      PROVE  link[d].packet = taken[d][Len(given[d]) + 1] /\ Len(given[d]) < Len(taken[d])
  <2>1. link[d].doneAt = now /\ now # Never
    BY <1>1, <1>2 DEF transferDone, Never
  <2>2. busy(link[d]) /\ link[d].txQueue = <<>>
    BY Zenon, <1>1, <1>2, <2>1 DEF LinkAsserts
  <2> QED BY <1>1, <2>2, TxDoneNowFlow
<1>3. ASSUME queueEvent(d)
      PROVE  /\ Head(link[d].txQueue).frame = taken[d][Len(given[d]) + 1]
             /\ Len(given[d]) < Len(taken[d])
  <2>1. link[d].queueAt = now /\ now # Never
    BY <1>1, <1>3 DEF queueEvent, Never
  <2>2. link[d].txQueue # <<>>
    BY Zenon, <1>1, <2>1 DEF LinkAsserts
  <2> QED BY SMTT(30), <1>1, <2>2, ProcessTxQueueFlow
<1> QED BY Zenon, <1>2, <1>3

\* Every step is of one of these kinds.
LEMMA PlaceStep ==
    ASSUME IInv, Shape, FlowInv, [Next]_vars
    PROVE  \/ sendPacket /\ (Refuses \/ Accepts)
           \/ forward /\ Leaves
           \/ \E d \in Dir, f \in Frame :
                /\ (transferDone(d) /\ setup.linkDelay = 0) \/ queueEvent(d)
                /\ (d = "out" /\ Arrives(f) /\ lg' = lg) \/ (d = "back" /\ Returns(f) /\ processRxPkt)
           \/ /\ Quiet
              /\ \/ checkLoss \/ advance \/ restore \/ UNCHANGED vars
                 \/ \E d \in Dir : transferDone(d) /\ setup.linkDelay > 0 /\ lg' = lg
<1>1. setup.linkDelay \in Nat /\ DOMAIN taken = Dir /\ DOMAIN given = Dir
  BY Zenon, SetupTypes DEF IInv, Shape
<1>2. CASE sendPacket
  <2>1. Refuses \/ Accepts
    BY Zenon, <1>2 DEF sendPacket, Refuses, Accepts, busy
  <2> QED BY Zenon, <1>2, <2>1
<1>3. CASE forward
  <2>1. Leaves
    BY Zenon, <1>3 DEF forward, Leaves
  <2> QED BY Zenon, <1>3, <2>1
<1>4. ASSUME NEW d \in Dir, NEW f, txComplete(d, f), taken' = taken, sent' = sent,
             f = taken[d][Len(given[d]) + 1], Len(given[d]) < Len(taken[d])
      PROVE  /\ f \in Frame
             /\ (d = "out" /\ Arrives(f) /\ lg' = lg) \/ (d = "back" /\ Returns(f) /\ processRxPkt)
  <2>1. f \in Frame
    <3>1. taken[d] \in Seq(Frame) /\ given[d] \in Seq(Frame)
      BY Zenon DEF FlowInv, Flow
    <3>2. Len(given[d]) + 1 \in 1 .. Len(taken[d])
      BY <1>4, <3>1
    <3> QED BY <1>4, <3>1, <3>2
  <2>2. CASE d = "out"
    BY <1>4, <2>1, <2>2 DEF txComplete, Arrives
  <2>3. CASE d = "back"
    BY Zenon, <1>4, <2>1, <2>3 DEF txComplete, Returns
  <2> QED BY Zenon, <2>1, <2>2, <2>3 DEF Dir
<1>5. ASSUME NEW d \in Dir, transferDone(d), setup.linkDelay = 0
      PROVE  \E f \in Frame :
               (d = "out" /\ Arrives(f) /\ lg' = lg) \/ (d = "back" /\ Returns(f) /\ processRxPkt)
  <2>1. txComplete(d, link[d].packet) /\ taken' = taken /\ sent' = sent
    BY <1>5 DEF transferDone
  <2> QED BY Zenon, <1>4, <1>5, <2>1, NextFrame
<1>6. ASSUME NEW d \in Dir, queueEvent(d)
      PROVE  \E f \in Frame :
               (d = "out" /\ Arrives(f) /\ lg' = lg) \/ (d = "back" /\ Returns(f) /\ processRxPkt)
  <2>1. txComplete(d, Head(link[d].txQueue).frame) /\ taken' = taken /\ sent' = sent
    BY Zenon, <1>6 DEF queueEvent
  <2> QED BY Zenon, <1>4, <1>6, <2>1, NextFrame
<1>7. ASSUME NEW d \in Dir, transferDone(d), setup.linkDelay > 0
      PROVE  Quiet /\ lg' = lg
  BY Zenon, <1>7 DEF transferDone, Quiet
<1>8. CASE checkLoss \/ advance \/ restore \/ UNCHANGED vars
  <2>1. Quiet
    BY Zenon, <1>8 DEF checkLoss, advance, restore, vars, Quiet
  <2> QED BY Zenon, <1>8, <2>1
<1>9. ASSUME NEW d \in Dir, transferDone(d) \/ queueEvent(d)
      PROVE  \/ \E e \in Dir, f \in Frame :
                   /\ (transferDone(e) /\ setup.linkDelay = 0) \/ queueEvent(e)
                   /\ (e = "out" /\ Arrives(f) /\ lg' = lg) \/ (e = "back" /\ Returns(f) /\ processRxPkt)
             \/ Quiet /\ transferDone(d) /\ setup.linkDelay > 0 /\ lg' = lg
  BY <1>1, <1>5, <1>6, <1>7, <1>9
<1> QED BY Zenon, <1>2, <1>3, <1>8, <1>9 DEF Next

\* The types of the sequences, and how far each direction has delivered.
LEMMA SequenceTypes ==
    ASSUME IInv, Shape, FlowInv, NEW d \in Dir
    PROVE  /\ taken[d] \in Seq(Frame) /\ given[d] \in Seq(Frame) /\ dut.frames \in Seq(Frame)
           /\ Len(given[d]) \in 0 .. Len(taken[d]) /\ Len(taken[d]) \in Nat
<1>1. Flow(link[d], taken[d], given[d]) /\ link[d] \in Link /\ dut.frames \in Seq(Frame)
  BY Zenon DEF IInv, LinkInv, FlowInv
<1>2. link[d].txQueue \in Seq([at : Nat, frame : Frame])
  BY Zenon, <1>1 DEF Link
<1>3. Len(link[d].txQueue) \in Nat
  BY <1>2
<1>4. taken[d] \in Seq(Frame) /\ given[d] \in Seq(Frame)
  BY Zenon, <1>1 DEF Flow
<1>5. Len(taken[d]) \in Nat /\ Len(given[d]) \in Nat
  BY <1>4
<1>6. \E b \in {0, 1} : Len(taken[d]) = Len(given[d]) + Len(link[d].txQueue) + b
  <2>1. CASE busy(link[d])
    BY Zenon, <1>1, <2>1 DEF Flow
  <2>2. CASE ~ busy(link[d])
    BY Zenon, <1>1, <2>2 DEF Flow
  <2> QED BY Zenon, <2>1, <2>2 DEF busy
<1>7. Len(given[d]) <= Len(taken[d])
  <2> DEFINE a == Len(taken[d])
             g == Len(given[d])
             q == Len(link[d].txQueue)
  <2>1. PICK b \in {0, 1} : a = g + q + b
    BY Zenon, <1>6
  <2>2. a \in Nat /\ g \in Nat /\ q \in Nat
    BY Zenon, <1>3, <1>5
  <2> HIDE DEF a, g, q
  <2>3. g <= a
    BY <2>1, <2>2
  <2> QED BY Zenon, <2>3 DEF a, g
<1> QED BY <1>1, <1>4, <1>5, <1>7

LEMMA PlaceRefuses ==
    ASSUME IInv, Shape, FlowInv, PlaceInv, Refuses
    PROVE  PlaceInv' /\ InWay' = InWay /\ Counted' = Counted
<1>1. /\ OutPart' = OutPart /\ DutPart' = DutPart /\ BackPart' = BackPart /\ Counted' = Counted
      /\ dut' = dut /\ taken' = taken
  BY Zenon DEF Refuses, OutPart, DutPart, BackPart, Counted
<1>2. sent \in Nat /\ sent' = sent + 1 /\ lost' = lost \cup {sent + 1}
  BY Zenon DEF IInv, Refuses
<1>3. 1 .. sent' = (1 .. sent) \cup {sent + 1} /\ sent + 1 \notin 1 .. sent
  BY <1>2
<1> QED BY <1>1, <1>2, <1>3 DEF PlaceInv, InWay

LEMMA PlaceAccepts ==
    ASSUME IInv, Shape, FlowInv, PlaceInv, Accepts
    PROVE  PlaceInv' /\ InWay' = InWay \cup {sent + 1} /\ Counted' = Counted
<1> DEFINE f == sent + 1
           tk == taken["out"]
<1>1. "out" \in Dir /\ "back" \in Dir /\ sent \in Nat /\ f \in Frame
  BY DEF Dir, IInv, Frame, NoFrame
<1>2. /\ taken'["out"] = Append(tk, f) /\ taken'["back"] = taken["back"]
      /\ given' = given /\ dut' = dut /\ lost' = lost /\ sent' = f
  BY Zenon, <1>1 DEF Accepts, Shape
<1>3. tk \in Seq(Frame) /\ Len(given["out"]) \in 0 .. Len(tk)
  BY Zenon, <1>1, SequenceTypes
<1>4. 1 .. sent' = (1 .. sent) \cup {f} /\ f \notin 1 .. sent
  BY <1>1, <1>2
<1>5. f \notin RangeOf(tk)
  BY Zenon, <1>4 DEF PlaceInv
<1> HIDE DEF f, tk
<1>6. /\ Part(Append(tk, f), Len(given["out"])) = Part(tk, Len(given["out"])) \cup {f}
      /\ RangeOf(Append(tk, f)) = RangeOf(tk) \cup {f}
      /\ Distinct(tk) => Distinct(Append(tk, f))
  BY <1>1, <1>3, <1>5, PartAppend
<1>7. /\ OutPart' = OutPart \cup {f} /\ DutPart' = DutPart /\ BackPart' = BackPart
      /\ Counted' = Counted
  BY Zenon, <1>2, <1>6 DEF OutPart, DutPart, BackPart, Counted, tk
<1>8. /\ OutPart \cap DutPart = {} /\ OutPart \cap BackPart = {} /\ OutPart \cap Counted = {}
      /\ DutPart \cap BackPart = {} /\ DutPart \cap Counted = {}
      /\ lost \cap (OutPart \cup DutPart \cup BackPart \cup Counted) = {}
      /\ 1 .. sent = lost \cup OutPart \cup DutPart \cup BackPart \cup Counted
      /\ Distinct(tk) /\ Distinct(dut.frames) /\ Distinct(taken["back"])
      /\ RangeOf(tk) \subseteq 1 .. sent
  BY Zenon DEF PlaceInv, tk
<1>9. PlaceInv'
  BY <1>2, <1>4, <1>6, <1>7, <1>8 DEF PlaceInv
<1> QED BY Zenon, <1>7, <1>9 DEF InWay, f

LEMMA PlaceArrives ==
    ASSUME IInv, Shape, FlowInv, PlaceInv, NEW f \in Frame, Arrives(f)
    PROVE  PlaceInv' /\ InWay' \subseteq InWay /\ Counted' = Counted
<1> DEFINE tk == taken["out"]
           n == Len(given["out"])
<1>1. "out" \in Dir /\ "back" \in Dir
  BY Zenon DEF Dir
<1>2. /\ taken' = taken /\ given'["out"] = Append(given["out"], f)
      /\ given'["back"] = given["back"] /\ sent' = sent
      /\ f = tk[n + 1] /\ n < Len(tk)
  BY Zenon, <1>1 DEF Arrives, Shape
<1>3. tk \in Seq(Frame) /\ given["out"] \in Seq(Frame) /\ n \in Nat /\ dut.frames \in Seq(Frame)
  BY <1>1, SequenceTypes
<1>4. Len(given'["out"]) = n + 1
  BY <1>2, <1>3
<1> HIDE DEF tk, n
<1>5. Part(tk, n) = Part(tk, n + 1) \cup {f} /\ f \notin Part(tk, n + 1)
  BY Zenon, <1>2, <1>3, PartDrop DEF PlaceInv, tk
<1>6. /\ OutPart = OutPart' \cup {f} /\ f \notin OutPart' /\ BackPart' = BackPart
      /\ Counted' = Counted
  BY Zenon, <1>2, <1>4, <1>5 DEF OutPart, BackPart, Counted, tk, n
<1>7. /\ OutPart \cap DutPart = {} /\ OutPart \cap BackPart = {} /\ OutPart \cap Counted = {}
      /\ DutPart \cap BackPart = {} /\ DutPart \cap Counted = {}
      /\ lost \cap (OutPart \cup DutPart \cup BackPart \cup Counted) = {}
      /\ 1 .. sent = lost \cup OutPart \cup DutPart \cup BackPart \cup Counted
      /\ Distinct(tk) /\ Distinct(dut.frames) /\ Distinct(taken["back"])
      /\ RangeOf(tk) \subseteq 1 .. sent
  BY Zenon DEF PlaceInv, tk
<1>8. CASE dut'.frames = Append(dut.frames, f) /\ lost' = lost
  <2>1. 0 \in 0 .. Len(dut.frames)
    BY <1>3
  <2>2. DutPart' = DutPart \cup {f}
    BY <1>3, <1>8, <2>1, PartAppend DEF DutPart
  <2>3. Distinct(dut'.frames)
    <3>1. f \notin RangeOf(dut.frames)
      BY Zenon, <1>6, <1>7 DEF DutPart
    <3> QED BY <1>3, <1>7, <1>8, <2>1, <3>1, PartAppend
  <2>4. PlaceInv'
    BY <1>2, <1>6, <1>7, <1>8, <2>2, <2>3 DEF PlaceInv, tk
  <2> QED BY Zenon, <1>6, <2>2, <2>4 DEF InWay
<1>9. CASE dut' = dut /\ lost' = lost \cup {f}
  <2>1. DutPart' = DutPart
    BY Zenon, <1>9 DEF DutPart
  <2>2. PlaceInv'
    BY <1>2, <1>6, <1>7, <1>9, <2>1 DEF PlaceInv, tk
  <2> QED BY Zenon, <1>6, <2>1, <2>2 DEF InWay
<1> QED BY Zenon, <1>8, <1>9 DEF Arrives

LEMMA PlaceLeaves ==
    ASSUME IInv, Shape, FlowInv, PlaceInv, Leaves
    PROVE  PlaceInv' /\ InWay' = InWay /\ Counted' = Counted
<1> DEFINE q == dut.frames
           h == Head(q)
           tk == taken["back"]
           n == Len(given["back"])
<1>1. "out" \in Dir /\ "back" \in Dir
  BY Zenon DEF Dir
<1>2. /\ taken'["back"] = Append(tk, h) /\ taken'["out"] = taken["out"]
      /\ given' = given /\ sent' = sent /\ lost' = lost /\ q # <<>> /\ dut'.frames = Tail(q)
  BY Zenon, <1>1 DEF Leaves, Shape
<1>3. tk \in Seq(Frame) /\ n \in 0 .. Len(tk) /\ q \in Seq(Frame) /\ given["back"] \in Seq(Frame)
  BY Zenon, <1>1, SequenceTypes
<1>4. /\ OutPart \cap DutPart = {} /\ OutPart \cap BackPart = {} /\ OutPart \cap Counted = {}
      /\ DutPart \cap BackPart = {} /\ DutPart \cap Counted = {}
      /\ lost \cap (OutPart \cup DutPart \cup BackPart \cup Counted) = {}
      /\ 1 .. sent = lost \cup OutPart \cup DutPart \cup BackPart \cup Counted
      /\ Distinct(taken["out"]) /\ Distinct(q) /\ Distinct(tk)
      /\ RangeOf(taken["out"]) \subseteq 1 .. sent
  BY Zenon DEF PlaceInv
<1>5. h \in Frame
  BY <1>2, <1>3
<1> HIDE DEF q, h
<1>6. RangeOf(q) = RangeOf(Tail(q)) \cup {h} /\ h \notin RangeOf(Tail(q)) /\ Distinct(Tail(q))
  BY Zenon, <1>2, <1>3, <1>4, RangeTail DEF h
<1>7. DutPart = DutPart' \cup {h} /\ h \notin DutPart'
  BY Zenon, <1>2, <1>6 DEF DutPart, q
<1>8. RangeOf(tk) \subseteq BackPart \cup Counted
  <2> SUFFICES ASSUME NEW i \in DOMAIN tk PROVE tk[i] \in BackPart \cup Counted
    BY Zenon DEF RangeOf
  <2>1. i \in 1 .. Len(tk) /\ Len(tk) \in Nat /\ n \in Nat
    BY <1>3
  <2>2. CASE i <= n
    <3>1. \A j \in 1 .. n : given["back"][j] = tk[j]
      BY Zenon, <1>1 DEF FlowInv, Flow
    <3>2. i \in DOMAIN given["back"]
      BY <1>3, <2>1, <2>2
    <3> QED BY <1>3, <2>1, <2>2, <3>1, <3>2 DEF Counted, RangeOf
  <2>3. CASE ~ (i <= n)
    <3>1. i \in n + 1 .. Len(tk)
      BY <2>1, <2>3
    <3> QED BY Zenon, <3>1 DEF BackPart, Part
  <2> QED BY Zenon, <2>2, <2>3
<1>9. h \notin RangeOf(tk)
  BY Zenon, <1>4, <1>7, <1>8
<1> HIDE DEF tk, n
<1>10. Part(Append(tk, h), n) = Part(tk, n) \cup {h} /\ Distinct(Append(tk, h))
  BY <1>3, <1>4, <1>5, <1>9, PartAppend
<1>11. OutPart' = OutPart /\ BackPart' = BackPart \cup {h} /\ Counted' = Counted
  BY Zenon, <1>2, <1>10 DEF OutPart, BackPart, Counted, tk, n
<1>12. PlaceInv'
  BY <1>2, <1>4, <1>6, <1>7, <1>10, <1>11 DEF PlaceInv
<1> QED BY Zenon, <1>7, <1>11, <1>12 DEF InWay

LEMMA PlaceReturns ==
    ASSUME IInv, Shape, FlowInv, PlaceInv, NEW f \in Frame, Returns(f)
    PROVE  /\ PlaceInv' /\ f \in InWay /\ InWay' = InWay \ {f}
           /\ f \notin Counted /\ Counted' = Counted \cup {f}
<1> DEFINE tk == taken["back"]
           gv == given["back"]
           n == Len(gv)
<1>1. "out" \in Dir /\ "back" \in Dir
  BY Zenon DEF Dir
<1>2. /\ taken' = taken /\ given'["back"] = Append(gv, f) /\ given'["out"] = given["out"]
      /\ sent' = sent /\ lost' = lost /\ dut' = dut /\ f = tk[n + 1] /\ n < Len(tk)
  BY Zenon, <1>1 DEF Returns, Shape
<1>3. /\ tk \in Seq(Frame) /\ gv \in Seq(Frame) /\ n \in Nat /\ 0 \in 0 .. Len(gv)
      /\ DOMAIN gv = 1 .. n /\ DOMAIN tk = 1 .. Len(tk) /\ Len(tk) \in Nat
  BY <1>1, SequenceTypes
<1>4. /\ OutPart \cap DutPart = {} /\ OutPart \cap BackPart = {} /\ OutPart \cap Counted = {}
      /\ DutPart \cap BackPart = {} /\ DutPart \cap Counted = {}
      /\ lost \cap (OutPart \cup DutPart \cup BackPart \cup Counted) = {}
      /\ 1 .. sent = lost \cup OutPart \cup DutPart \cup BackPart \cup Counted
      /\ Distinct(taken["out"]) /\ Distinct(dut.frames) /\ Distinct(tk)
      /\ RangeOf(taken["out"]) \subseteq 1 .. sent
  BY Zenon DEF PlaceInv
<1>5. f \notin Counted
  <2>1. \A i \in 1 .. n : gv[i] = tk[i]
    BY Zenon, <1>1 DEF FlowInv, Flow
  <2>2. \A i \in 1 .. n : i \in DOMAIN tk /\ n + 1 \in DOMAIN tk /\ i # n + 1
    BY <1>2, <1>3
  <2>3. \A i \in 1 .. n : tk[i] # tk[n + 1]
    BY Zenon, <1>4, <2>2 DEF Distinct
  <2> QED BY Zenon, <1>2, <1>3, <2>1, <2>3 DEF Counted, RangeOf
<1>6. Len(Append(gv, f)) = n + 1
  BY <1>3
<1> HIDE DEF tk, gv, n
<1>7. Part(tk, n) = Part(tk, n + 1) \cup {f} /\ f \notin Part(tk, n + 1)
  BY Zenon, <1>2, <1>3, <1>4, PartDrop
<1>8. RangeOf(Append(gv, f)) = RangeOf(gv) \cup {f}
  BY <1>3, PartAppend
<1>9. /\ OutPart' = OutPart /\ DutPart' = DutPart
      /\ BackPart = BackPart' \cup {f} /\ f \notin BackPart' /\ Counted' = Counted \cup {f}
  BY Zenon, <1>2, <1>6, <1>7, <1>8 DEF OutPart, DutPart, BackPart, Counted, tk, gv, n
<1>10. PlaceInv'
  BY SMTT(30), <1>2, <1>4, <1>9 DEF PlaceInv, tk
<1> QED BY <1>4, <1>5, <1>9, <1>10 DEF InWay

LEMMA PlaceQuiet ==
    ASSUME PlaceInv, Quiet
    PROVE  PlaceInv' /\ InWay' = InWay /\ Counted' = Counted
BY Zenon DEF Quiet, PlaceInv, InWay, OutPart, DutPart, BackPart, Counted

\* What one direction holds.
LEMMA LinkPart ==
    ASSUME NEW l \in Link, NEW tk, NEW gv, Flow(l, tk, gv)
    PROVE  Part(tk, Len(gv)) = {l.txQueue[i].frame : i \in DOMAIN l.txQueue}
                                 \cup {e \in {l.packet} : busy(l)}
<1> DEFINE q == l.txQueue
           n == Len(gv)
           T == [at : Nat, frame : Frame]
<1>1. q \in Seq(T)
  BY Zenon DEF Link
<1>2. Len(q) \in Nat /\ DOMAIN q = 1 .. Len(q)
  <2> HIDE DEF T, q
  <2> QED BY <1>1
<1>3. tk \in Seq(Frame) /\ gv \in Seq(Frame)
  BY Zenon DEF Flow
<1>4. n \in Nat /\ Len(tk) \in Nat
  BY <1>3
<1>5. \A i \in 1 .. Len(q) : tk[n + i] = q[i].frame
  BY Zenon DEF Flow
<1>6. /\ busy(l) => Len(tk) = n + Len(q) + 1 /\ tk[Len(tk)] = l.packet
      /\ ~ busy(l) => Len(tk) = n + Len(q)
  <2>1. ASSUME busy(l) PROVE Len(tk) = n + Len(q) + 1 /\ tk[Len(tk)] = l.packet
    BY Zenon, <2>1 DEF Flow
  <2>2. ASSUME ~ busy(l) PROVE Len(tk) = n + Len(q) + 0
    BY Zenon, <2>2 DEF Flow
  <2>3. n + Len(q) + 0 = n + Len(q)
    BY <1>2, <1>4
  <2> QED BY Zenon, <2>1, <2>2, <2>3
<1> DEFINE a == Len(tk)
           b == Len(q)
           F == {q[i].frame : i \in DOMAIN q}
           P == {e \in {l.packet} : busy(l)}
<1>7. /\ a \in Nat /\ b \in Nat /\ n \in Nat /\ DOMAIN q = 1 .. b
      /\ \A i \in 1 .. b : tk[n + i] = q[i].frame
      /\ busy(l) => a = n + b + 1 /\ tk[a] = l.packet
      /\ ~ busy(l) => a = n + b
  BY Zenon, <1>2, <1>4, <1>5, <1>6
<1>8. Part(tk, n) = {tk[i] : i \in n + 1 .. a}
  BY Zenon DEF Part
<1> HIDE DEF a, b, n, q
<1>9. ASSUME NEW i \in n + 1 .. a PROVE tk[i] \in F \cup P
  <2>1. CASE i <= n + b
    <3>1. i - n \in 1 .. b /\ n + (i - n) = i
      BY <1>7, <2>1
    <3>2. tk[i] = q[i - n].frame
      BY Zenon, <1>7, <3>1
    <3> QED BY Zenon, <1>7, <3>1, <3>2
  <2>2. CASE ~ (i <= n + b)
    <3>1. busy(l) /\ i = a
      <4>1. busy(l) \/ ~ busy(l)
        BY Zenon DEF busy
      <4> QED BY <1>7, <2>2, <4>1
    <3> QED BY Zenon, <1>7, <3>1
  <2> QED BY Zenon, <2>1, <2>2
<1>10. ASSUME NEW i \in DOMAIN q PROVE q[i].frame \in {tk[j] : j \in n + 1 .. a}
  <2>1. n + i \in n + 1 .. a
    <3>1. busy(l) \/ ~ busy(l)
      BY Zenon DEF busy
    <3> QED BY <1>7, <3>1
  <2>2. tk[n + i] = q[i].frame
    BY Zenon, <1>7
  <2> QED BY Zenon, <2>1, <2>2
<1>11. ASSUME busy(l) PROVE l.packet \in {tk[j] : j \in n + 1 .. a}
  <2>1. a \in n + 1 .. a
    BY <1>7, <1>11
  <2> QED BY Zenon, <1>7, <1>11, <2>1
<1> HIDE DEF F
<1>12. \A e \in F : e \in {tk[j] : j \in n + 1 .. a}
  BY Zenon, <1>10 DEF F
<1>13. {tk[i] : i \in n + 1 .. a} = F \cup P
  BY Zenon, <1>9, <1>11, <1>12
<1> QED BY Zenon, <1>8, <1>13 DEF F, q, n

\* The frames in flight are the ones in these places.
LEMMA InFlightWay == ASSUME IInv, Shape, FlowInv PROVE inFlight = InWay
<1> DEFINE F(d) == {link[d].txQueue[i].frame : i \in DOMAIN link[d].txQueue}
           P(d) == {e \in {link[d].packet} : busy(link[d])}
<1>1. \A d \in Dir : Part(taken[d], Len(given[d])) = F(d) \cup P(d)
  <2> SUFFICES ASSUME NEW d \in Dir PROVE Part(taken[d], Len(given[d])) = F(d) \cup P(d)
    BY Zenon
  <2>1. link[d] \in Link /\ Flow(link[d], taken[d], given[d])
    BY Zenon DEF IInv, LinkInv, FlowInv
  <2> QED BY Zenon, <2>1, LinkPart
<1>2. {link[d].packet : d \in {e \in Dir : busy(link[e])}} = P("out") \cup P("back")
  BY Zenon DEF Dir
<1>3. UNION {F(d) : d \in Dir} = F("out") \cup F("back")
  BY DEF Dir
<1>4. inFlight = P("out") \cup P("back") \cup DutPart \cup F("out") \cup F("back")
  BY Zenon, <1>2, <1>3 DEF inFlight, DutPart, RangeOf
<1>5. OutPart = F("out") \cup P("out") /\ BackPart = F("back") \cup P("back")
  BY Zenon, <1>1 DEF OutPart, BackPart, Dir
<1> HIDE DEF F, P
<1> QED BY Zenon, <1>4, <1>5 DEF InWay

-----------------------------------------------------------------------------
(* Arithmetic                                                              *)

LEMMA ModRange == ASSUME NEW a \in Int, NEW w \in Nat, w > 0 PROVE a % w \in 0 .. w - 1
OBVIOUS

LEMMA ModSmall == ASSUME NEW w \in Nat, NEW a \in 0 .. w - 1 PROVE a % w = a
OBVIOUS

LEMMA DivNat == ASSUME NEW a \in Nat, NEW w \in Nat, w > 0 PROVE a \div w \in Nat
OBVIOUS

LEMMA TimesMonotone ==
    ASSUME NEW a \in Int, NEW b \in Int, NEW c \in Nat, a <= b
    PROVE  a * c <= b * c /\ a * c \in Int /\ b * c \in Int
OBVIOUS

LEMMA ModShift ==
    ASSUME NEW x \in Int, NEW k \in Int, NEW w \in Nat, w > 0
    PROVE  (x + k * w) % w = x % w
<1> DEFINE y == x + k * w
           m == k + (x \div w) - (y \div w)
           d == (y % w) - (x % w)
<1>1. y \in Int
  OBVIOUS
<1>2. \A z \in Int : /\ z \div w \in Int /\ z % w \in 0 .. w - 1
                      /\ z = (z \div w) * w + (z % w) /\ (z \div w) * w \in Int
  OBVIOUS
<1>3. m \in Int /\ d \in Int /\ -w < d /\ d < w
  <2> HIDE DEF y
  <2> QED BY <1>1, <1>2
<1>4. d = m * w
  <2>1. d = (y - (y \div w) * w) - (x - (x \div w) * w)
    <3> HIDE DEF y
    <3> QED BY <1>1, <1>2
  <2>2. d = k * w + (x \div w) * w - (y \div w) * w
    <3> DEFINE a == x \div w
               b == y \div w
    <3>1. a \in Int /\ b \in Int /\ a * w \in Int /\ b * w \in Int /\ k * w \in Int
      BY <1>1, <1>2
    <3> HIDE DEF a, b
    <3> QED BY <2>1, <3>1 DEF a, b
  <2>3. \A a, b \in Int : (k + a - b) * w = k * w + a * w - b * w
    OBVIOUS
  <2> HIDE DEF y, d
  <2> QED BY Zenon, <1>1, <1>2, <2>2, <2>3
<1> HIDE DEF m, d, y
<1>5. m >= 1 => m * w >= w
  BY <1>3
<1>6. m <= -1 => m * w <= -w
  BY <1>3
<1>7. m = 0
  BY <1>3, <1>4, <1>5, <1>6
<1>8. d = 0
  BY <1>4, <1>7
<1> QED BY <1>1, <1>2, <1>8 DEF d, y

\* A number counted modulo w may be added or taken away before the modulus.
LEMMA ModSum ==
    ASSUME NEW a \in Int, NEW c \in Int, NEW w \in Nat, w > 0
    PROVE  /\ ((a % w) + c) % w = (a + c) % w
           /\ (c - (a % w)) % w = (c - a) % w
<1> DEFINE k == a \div w
<1>1. k \in Int /\ a % w \in Int /\ a = k * w + (a % w) /\ k * w \in Int
  OBVIOUS
<1> HIDE DEF k
<1>2. /\ (a % w) + c = (a + c) + (-k) * w /\ -k \in Int
      /\ c - (a % w) = (c - a) + k * w
  BY <1>1
<1>3. a + c \in Int /\ c - a \in Int
  OBVIOUS
<1>4. \A x, m \in Int : (x + m * w) % w = x % w
  BY Zenon, ModShift
<1>5. /\ ((a + c) + (-k) * w) % w = (a + c) % w
      /\ ((c - a) + k * w) % w = (c - a) % w
  BY Zenon, <1>1, <1>2, <1>3, <1>4
<1> QED BY Zenon, <1>2, <1>5

-----------------------------------------------------------------------------
(* The generator                                                           *)

LEMMA SetupFacts ==
    ASSUME setup \in Setups
    PROVE  /\ setup.packetRate \in 1 .. RateWord - 1 /\ setup.incrementInterval \in 1 .. RateWord - 1
           /\ {setup.startTick, setup.stopTick, setup.burstWidth, setup.burstGap, setup.linkDelay,
               setup.delayVar, setup.dutDelay, setup.maxRestores} \subseteq Nat
<1>1. setup \in Setup
  BY Zenon, GenAssumption
<1> QED BY Zenon, <1>1 DEF Setup

LEMMA ConstantFacts ==
    /\ Clock \in Nat /\ Clock > 0 /\ CheckLossInterval \in Nat /\ CheckLossInterval > 0
    /\ Tolerance \in Nat /\ Tolerance > 0 /\ Allowance \in Nat /\ Allowance > 0
    /\ SimLength \in Nat /\ Word \in Nat /\ RateWord \in Nat
    /\ Word > 2 * CheckLossInterval /\ Word > Clock /\ Word >= RateWord
BY GenAssumption

\* The next frame is due before this tick only at rate 0.
LEMMA FrequencyTicks ==
    ASSUME NEW r \in 0 .. RateWord - 1, NEW n \in frequency(r)
    PROVE  n \in Nat \/ (n = -1 /\ r = 0)
<1>1. CASE r = 0
  BY <1>1 DEF frequency
<1>2. CASE r # 0
  <2>1. r \in Nat /\ r > 0 /\ Clock \in Nat
    BY <1>2, ConstantFacts
  <2>2. n = Clock \div r
    BY Zenon, <1>2 DEF frequency
  <2> QED BY Zenon, <2>1, <2>2, DivNat
<1> QED BY Zenon, <1>1, <1>2

\* What sendPacket() schedules.
LEMMA ScheduledGen ==
    ASSUME setup \in Setups, now \in Nat, NEW g \in Gens, g.sendAt = Never, g.checkAt = Never,
           NEW n \in Int, now + n \in Time
    PROVE  LET h == scheduled(g, n)
           IN  /\ h \in Gens /\ h.packetRate = g.packetRate
               /\ h.lastTxCount = g.lastTxCount /\ h.lastRxCount = g.lastRxCount
               /\ h.sendAt = Never \/ h.sendAt = now + n \/ h.sendAt >= now
               /\ h.checkAt # Never => /\ h.checkAt = now + Allowance
                                       /\ g.lastTxCount = CheckLossInterval
                                       /\ setup.mode = "Increment"
               /\ setup.mode = "Increment" /\ h.sendAt # Never => g.lastTxCount # CheckLossInterval
<1> DEFINE next == now + n
           burst == now + setup.burstGap
           h == scheduled(g, n)
<1>1. setup.mode \in {"Static", "Increment", "Burst"} /\ setup.burstGap \in Nat
  BY Zenon, SetupTypes, SetupFacts
<1>2. burst \in Nat /\ burst >= now /\ now + Allowance \in Nat /\ now + Allowance # Never
  BY <1>1, ConstantFacts DEF Never
<1>3. CASE now >= setup.stopTick
  <2>1. h = g
    BY Zenon, <1>3 DEF scheduled
  <2> QED BY Zenon, <2>1
<1> HIDE DEF next, burst
<1>4. ASSUME h \in {[g EXCEPT !.sendAt = next], [g EXCEPT !.burstStartTick = burst, !.sendAt = burst]}
      PROVE  /\ h \in Gens /\ h.packetRate = g.packetRate /\ h.lastTxCount = g.lastTxCount
             /\ h.lastRxCount = g.lastRxCount /\ h.checkAt = Never
             /\ h.sendAt = now + n \/ h.sendAt >= now
  <2> HIDE DEF h
  <2>1. next \in Time /\ burst \in Nat /\ burst \in Time
    BY Zenon, <1>2 DEF next, Time
  <2>2. CASE h = [g EXCEPT !.sendAt = next]
    BY Zenon, <2>1, <2>2 DEF Gens, next
  <2>3. CASE h = [g EXCEPT !.burstStartTick = burst, !.sendAt = burst]
    BY Zenon, <1>2, <2>1, <2>3 DEF Gens
  <2> QED BY Zenon, <1>4, <2>2, <2>3
<1>5. CASE ~ (now >= setup.stopTick) /\ setup.mode = "Static"
  <2>1. h = [g EXCEPT !.sendAt = next]
    BY Zenon, <1>5 DEF scheduled, next
  <2> HIDE DEF h
  <2> QED BY Zenon, <1>4, <1>5, <2>1 DEF h
<1>6. CASE ~ (now >= setup.stopTick) /\ setup.mode = "Increment"
  <2>1. CASE g.lastTxCount = CheckLossInterval
    <3>1. h = [g EXCEPT !.checkAt = now + Allowance]
      BY Zenon, <1>6, <2>1 DEF scheduled, lossCheckAt
    <3> HIDE DEF h
    <3>2. h \in Gens /\ h.checkAt = now + Allowance /\ h.sendAt = Never
      BY Zenon, <1>2, <3>1 DEF Gens, Time
    <3> QED BY Zenon, <1>6, <2>1, <3>1, <3>2 DEF Gens, h
  <2>2. CASE g.lastTxCount # CheckLossInterval
    <3>1. h = [g EXCEPT !.sendAt = next]
      BY Zenon, <1>6, <2>2 DEF scheduled, next
    <3> HIDE DEF h
    <3> QED BY Zenon, <1>4, <2>2, <3>1 DEF h
  <2> QED BY Zenon, <2>1, <2>2
<1>7. CASE ~ (now >= setup.stopTick) /\ setup.mode = "Burst"
  <2>1. h \in {[g EXCEPT !.sendAt = next], [g EXCEPT !.burstStartTick = burst, !.sendAt = burst]}
    BY Zenon, <1>7 DEF scheduled, next, burst
  <2> HIDE DEF h
  <2> QED BY Zenon, <1>4, <1>7, <2>1 DEF h
<1> QED BY Zenon, <1>1, <1>3, <1>5, <1>6, <1>7

\* startup() begins with the rate of the configuration and a later tick.
LEMMA StartupGen ==
    ASSUME setup \in Setups, NEW t \in Nat
    PROVE  /\ startup(t) \in Gens /\ startup(t).packetRate = setup.packetRate
           /\ startup(t).checkAt = Never
           /\ startup(t).sendAt = Never \/ startup(t).sendAt > t
           /\ startup(t).lastTxCount = 0 /\ startup(t).lastRxCount = 0
<1>1. setup.packetRate \in 0 .. RateWord - 1 /\ setup.startTick \in Nat
  BY SetupFacts
<1>2. Never \in Time /\ t + 1 \in Time /\ setup.startTick + 1 \in Time
  BY <1>1 DEF Time
<1>3. 0 \in 0 .. Word - 1 /\ t + 1 > t /\ (~ (t > setup.startTick) => setup.startTick + 1 > t)
  BY <1>1, ConstantFacts
<1> QED BY Zenon, <1>1, <1>2, <1>3 DEF startup, Gens

\* The rate that checkLoss() sets.
LEMMA CheckedRate ==
    ASSUME IInv, GenType, checkLoss
    PROVE  /\ lg'.packetRate \in 0 .. RateWord - 1
           /\ ~ lossDetected => lg'.packetRate = (lg.packetRate + setup.incrementInterval) % RateWord
           /\ lossDetected => lg'.packetRate <= lg.packetRate
<1> DEFINE r == lg.packetRate
           i == setup.incrementInterval
           l == (r - i) % Word
           u == (r + i) % RateWord
<1>1. /\ r \in 0 .. RateWord - 1 /\ i \in Nat /\ RateWord \in Nat /\ RateWord > 0
      /\ Word \in Nat /\ Word > 0
      /\ DOMAIN lg = {"packetRate", "burstStartTick", "lastTxCount", "lastRxCount", "checkAt", "sendAt"}
  BY SetupFacts, ConstantFacts DEF IInv, GenType, Gens
<1>2. PICK next :
        lg' = [lg EXCEPT !.packetRate = IF lossDetected THEN lowerRate(r) ELSE u, !.checkAt = Never,
                         !.sendAt = next, !.lastTxCount = 0, !.lastRxCount = 0]
  BY Zenon DEF checkLoss
<1>3. lg'.packetRate = IF lossDetected THEN (IF l < r THEN l ELSE r) ELSE u
  BY Zenon, <1>1, <1>2 DEF lowerRate
<1>4. u \in 0 .. RateWord - 1 /\ l \in 0 .. Word - 1
  <2>1. r + i \in Int /\ r - i \in Int
    BY <1>1
  <2> HIDE DEF r, i
  <2> QED BY Zenon, <1>1, <2>1, ModRange
<1> HIDE DEF l, u, r
<1> QED BY <1>1, <1>3, <1>4 DEF u, r

\* The generator after sendPacket().
LEMMA SentGen ==
    ASSUME IInv, GenType, sendPacket
    PROVE  /\ lg.checkAt = Never /\ lg.sendAt # Never /\ lg' \in Gens
           /\ lg'.packetRate = lg.packetRate
           /\ lg'.lastTxCount = (lg.lastTxCount + 1) % Word
           /\ lg'.lastRxCount = lg.lastRxCount
           /\ lg'.sendAt = Never \/ lg'.sendAt >= now \/ lg'.packetRate = 0
           /\ lg'.checkAt # Never =>
                /\ lg'.checkAt = now + Allowance
                /\ lg'.lastTxCount = CheckLossInterval /\ setup.mode = "Increment"
           /\ setup.mode = "Increment" /\ lg'.sendAt # Never =>
                lg'.lastTxCount # CheckLossInterval
<1> DEFINE g == [lg EXCEPT !.lastTxCount = (@ + 1) % Word, !.sendAt = Never]
<1>1. lg.sendAt = now /\ now \in Nat /\ setup \in Setups /\ lg \in Gens
  BY Zenon DEF IInv, GenType, sendPacket
<1>2. lg.sendAt # Never /\ lg.checkAt = Never
  BY <1>1 DEF IInv, GenInv, Never
<1>3. (lg.lastTxCount + 1) % Word \in 0 .. Word - 1
  <2>1. lg.lastTxCount + 1 \in Int
    BY <1>1 DEF Gens
  <2> QED BY <2>1, ConstantFacts, ModRange
<1>4. /\ g \in Gens /\ g.sendAt = Never /\ g.checkAt = Never /\ g.packetRate = lg.packetRate
      /\ g.lastTxCount = (lg.lastTxCount + 1) % Word /\ g.lastRxCount = lg.lastRxCount
  BY Zenon, <1>1, <1>2, <1>3 DEF Gens, Time
<1>5. PICK n \in frequency(lg.packetRate) : lg' = scheduled(g, n)
  BY Zenon DEF sendPacket
<1>6. lg.packetRate \in 0 .. RateWord - 1
  BY Zenon, <1>1 DEF Gens
<1>7. n \in Nat \/ (n = -1 /\ lg.packetRate = 0)
  BY Zenon, <1>6, FrequencyTicks
<1>8. n \in Int /\ now + n \in Time /\ (now + n >= now \/ lg.packetRate = 0)
  BY <1>1, <1>7 DEF Time, Never
<1> HIDE DEF g
<1> QED BY Zenon, <1>1, <1>2, <1>4, <1>5, <1>8, ScheduledGen

\* The generator after processRxPkt().
LEMMA ReceivedGen ==
    ASSUME lg \in Gens, processRxPkt
    PROVE  /\ lg' \in Gens /\ lg'.packetRate = lg.packetRate /\ lg'.checkAt = lg.checkAt
           /\ lg'.sendAt = lg.sendAt /\ lg'.lastTxCount = lg.lastTxCount
           /\ lg'.lastRxCount = (lg.lastRxCount + 1) % Word
<1>1. lg.lastRxCount + 1 \in Int
  BY DEF Gens
<1>2. (lg.lastRxCount + 1) % Word \in 0 .. Word - 1
  BY <1>1, ConstantFacts, ModRange
<1> QED BY Zenon, <1>2 DEF processRxPkt, Gens

\* The generator after checkLoss().
LEMMA CheckedGen ==
    ASSUME IInv, GenType, checkLoss
    PROVE  /\ lg' \in Gens /\ lg'.checkAt = Never /\ lg'.lastTxCount = 0 /\ lg'.lastRxCount = 0
           /\ lg'.sendAt = Never \/ lg'.sendAt >= now \/ lg'.packetRate = 0
<1>1. lg \in Gens /\ now \in Nat
  BY Zenon DEF IInv, GenType
<1>2. lg'.packetRate \in 0 .. RateWord - 1
  BY Zenon, CheckedRate
<1>3. PICK r, x : /\ \E n \in frequency(r) :
                       lg' = [lg EXCEPT !.packetRate = r, !.checkAt = Never, !.sendAt = now + n + x,
                                        !.lastTxCount = 0, !.lastRxCount = 0]
                  /\ x \in {Allowance, 0}
  BY Zenon DEF checkLoss
<1>4. PICK n \in frequency(r) :
        lg' = [lg EXCEPT !.packetRate = r, !.checkAt = Never, !.sendAt = now + n + x,
                         !.lastTxCount = 0, !.lastRxCount = 0]
  BY Zenon, <1>3
<1>5. r = lg'.packetRate /\ lg'.sendAt = now + n + x
  BY Zenon, <1>1, <1>4 DEF Gens
<1>6. n \in Nat \/ (n = -1 /\ r = 0)
  BY Zenon, <1>2, <1>5, FrequencyTicks
<1>7. /\ now + n + x \in Time /\ (now + n + x >= now \/ r = 0)
      /\ Never \in Time /\ 0 \in 0 .. Word - 1
  BY <1>1, <1>3, <1>6, ConstantFacts DEF Time, Never
<1> QED BY Zenon, <1>1, <1>2, <1>4, <1>5, <1>7 DEF Gens

\* Every step keeps the types of the generator, and schedules events in the
\* past only at rate 0.
LEMMA NextGens ==
    ASSUME IInv, GenType, PastInv, [Next]_vars
    PROVE  lg' \in Gens /\ PastInv'
<1>1. setup \in Setups /\ now \in Nat /\ lg \in Gens
  BY Zenon DEF IInv, GenType
<1>2. ASSUME lg' \in Gens, lg'.sendAt = Never \/ lg'.sendAt >= now' \/ lg'.packetRate = 0, now' \in Nat
      PROVE  PastInv'
  <2>1. lg'.sendAt \in Int
    BY <1>2 DEF Gens, Time, Never
  <2>2. lg'.sendAt >= now' => ~ (lg'.sendAt < now')
    BY <1>2, <2>1
  <2> QED BY Zenon, <1>2, <2>2 DEF PastInv
<1>3. CASE sendPacket
  <2>1. now' = now
    BY Zenon, <1>3 DEF sendPacket
  <2> QED BY Zenon, <1>1, <1>2, <1>3, <2>1, SentGen
<1>4. CASE checkLoss
  <2>1. now' = now
    BY Zenon, <1>4 DEF checkLoss
  <2> QED BY Zenon, <1>1, <1>2, <1>4, <2>1, CheckedGen
<1>5. CASE advance
  <2>1. now' = now + 1 /\ lg' = lg /\ \A t \in EventTimes : now < t
    BY Zenon, <1>5 DEF advance
  <2>2. lg.sendAt # Never => now < lg.sendAt
    BY Zenon, <2>1 DEF EventTimes
  <2>3. lg.sendAt \in Int
    BY <1>1 DEF Gens, Time, Never
  <2>4. now' \in Nat /\ (lg'.sendAt = Never \/ lg'.sendAt >= now')
    BY <1>1, <2>1, <2>2, <2>3
  <2> QED BY Zenon, <1>1, <1>2, <2>1, <2>4
<1>6. CASE restore
  <2>1. lg' = startup(now) /\ now' = now
    BY Zenon, <1>6 DEF restore
  <2>2. lg' \in Gens /\ (lg'.sendAt = Never \/ lg'.sendAt > now)
    BY Zenon, <1>1, <2>1, StartupGen
  <2>3. lg'.sendAt \in Int
    BY <2>2 DEF Gens, Time, Never
  <2>4. lg'.sendAt > now => lg'.sendAt >= now
    BY <1>1, <2>3
  <2> QED BY Zenon, <1>1, <1>2, <2>1, <2>2, <2>4
<1>7. CASE forward \/ UNCHANGED vars
  <2>1. lg' = lg /\ now' = now
    BY Zenon, <1>7 DEF forward, vars
  <2> QED BY Zenon, <1>1, <2>1 DEF PastInv
<1>8. ASSUME NEW d \in Dir, transferDone(d) \/ queueEvent(d) PROVE lg' \in Gens /\ PastInv'
  <2>1. now' = now
    BY Zenon, <1>8 DEF transferDone, queueEvent
  <2>2. lg' = lg \/ processRxPkt
    BY Zenon, <1>8 DEF transferDone, queueEvent, txComplete
  <2>3. lg' \in Gens /\ lg'.sendAt = lg.sendAt /\ lg'.packetRate = lg.packetRate
    BY Zenon, <1>1, <2>2, ReceivedGen
  <2> QED BY Zenon, <2>1, <2>3 DEF PastInv
<1> QED BY Zenon, <1>3, <1>4, <1>5, <1>6, <1>7, <1>8 DEF Next

-----------------------------------------------------------------------------
(* Time                                                                    *)

\* The allowance is as ample after a step as before.
LEMMA SameAmple == setup' = setup => ample' = ample
BY Zenon DEF ample

\* Times in the queue of a link after its operations.
LEMMA UntilSteps ==
    ASSUME NEW l \in Link, NEW x \in Int, NEW t \in Nat, NEW D \in Nat, Until(l, x)
    PROVE  /\ D > 0 /\ busy(l) /\ t + D <= x => Until(txDone(l, t, D), x)
           /\ D = 0 => Until(txDone(l, t, D), x)
           /\ l.txQueue # <<>> => Until(processTxQueue(l), x) /\ l.txQueue[1].at <= x
           /\ \A f, u : Until(transmit(l, f, u), x)
           /\ Until(restored(l), x)
           /\ \A y \in Int : x <= y => Until(l, y)
<1> DEFINE q == l.txQueue
           T == [at : Nat, frame : Frame]
<1>1. q \in Seq(T) /\ l.packet \in Nat
  BY Zenon DEF Link
<1>2. \A i \in DOMAIN q : i \in Nat /\ 1 <= i /\ i <= Len(q) /\ q[i].at \in Nat /\ q[i].at <= x
  BY Zenon, <1>1, QueueEntry DEF Until
<1>3. ASSUME D > 0, busy(l), t + D <= x PROVE Until(txDone(l, t, D), x)
  <2> DEFINE e == [at |-> t + D, frame |-> l.packet]
             j == joined(q, e)
  <2>1. e \in T /\ e.at = t + D
    BY SMTT(30), <1>1, <1>3 DEF busy, Frame
  <2>2. txDone(l, t, D).txQueue = j
    BY Zenon, <1>3 DEF txDone
  <2>3. \A i \in DOMAIN j : (i \in DOMAIN q /\ j[i] = q[i]) \/ j[i] = e
    <3> HIDE DEF q, e
    <3> QED BY Zenon, <1>1, <2>1, JoinedQueue
  <2> HIDE DEF q, e, j
  <2>4. \A i \in DOMAIN j : j[i].at <= x
    BY Zenon, <1>2, <1>3, <2>1, <2>3
  <2> QED BY Zenon, <2>2, <2>4 DEF Until
<1>4. ASSUME D = 0 PROVE Until(txDone(l, t, D), x)
  <2>1. txDone(l, t, D).txQueue = q
    BY <1>4 DEF txDone
  <2> QED BY Zenon, <2>1 DEF Until
<1>5. ASSUME q # <<>> PROVE Until(processTxQueue(l), x) /\ q[1].at <= x
  <2>1. processTxQueue(l).txQueue = Tail(q)
    BY Zenon DEF processTxQueue
  <2>2. /\ 1 \in DOMAIN q
        /\ \A i \in DOMAIN Tail(q) : i + 1 \in DOMAIN q /\ Tail(q)[i] = q[i + 1]
    <3> HIDE DEF T, q
    <3> QED BY <1>1, <1>5
  <2> HIDE DEF q
  <2> QED BY Zenon, <1>2, <2>1, <2>2 DEF Until
<1>6. \A f, u : Until(transmit(l, f, u), x)
  BY Zenon DEF Until, transmit
<1>7. Until(restored(l), x)
  BY Zenon DEF Until, restored
<1>8. \A y \in Int : x <= y => Until(l, y)
  <2> HIDE DEF q
  <2>1. \A y \in Int : x <= y => \A i \in DOMAIN q : q[i].at <= y
    BY <1>2
  <2> QED BY Zenon, <2>1 DEF Until, q
<1> QED BY Zenon, <1>3, <1>4, <1>5, <1>6, <1>7, <1>8

\* A later last frame and more credit leave more time.
LEMMA TimelyMore ==
    ASSUME NEW out \in Link, NEW back \in Link, NEW q, NEW by \in Nat, NEW t \in Nat,
           NEW t0 \in Int, NEW t1 \in Int, NEW c \in Nat, NEW c1 \in Nat, t0 <= t1, c <= c1,
           setup.delayVar \in Nat, setup.linkDelay \in Nat, setup.dutDelay \in Nat,
           Timely(out, back, q, by, t, t0, c)
    PROVE  Timely(out, back, q, by, t, t1, c1)
<1> DEFINE V == setup.delayVar
           D == setup.linkDelay
           x == t0 + 1 + V + D
           y == t1 + 1 + V + D
           u == out.doneAt
           w == back.doneAt
<1>1. u \in Int /\ w \in Int /\ setup.dutDelay \in Nat /\ V \in Nat /\ D \in Nat
  BY ConstantFacts DEF Link, Time, Never
<1>2. /\ busy(out) => u <= t0 + 1 + V
      /\ Until(out, x)
      /\ q # <<>> => by <= x + setup.dutDelay + c /\ (~ busy(back) => t <= x + setup.dutDelay + c)
      /\ busy(back) => w <= x + c
      /\ Until(back, x + c + D)
  BY Zenon DEF Timely
<1> HIDE DEF V, D, u, w
<1>3. /\ x \in Int /\ y \in Int /\ x <= y /\ x + c <= y + c1 /\ t0 + 1 + V <= t1 + 1 + V
      /\ x + setup.dutDelay + c <= y + setup.dutDelay + c1 /\ x + c + D \in Int /\ y + c1 + D \in Int
      /\ x + c + D <= y + c1 + D
  BY <1>1
<1>4. Until(out, y) /\ Until(back, y + c1 + D)
  BY Zenon, <1>2, <1>3, UntilSteps
<1>5. busy(out) => u <= t1 + 1 + V
  BY <1>1, <1>2, <1>3
<1>6. busy(back) => w <= y + c1
  BY SMTT(30), <1>1, <1>2, <1>3
<1>7. q # <<>> => by <= y + setup.dutDelay + c1 /\ (~ busy(back) => t <= y + setup.dutDelay + c1)
  BY SMTT(30), <1>1, <1>2, <1>3
<1> QED BY Zenon, <1>4, <1>5, <1>6, <1>7 DEF Timely, V, D, u, w

LEMMA TimeFacts ==
    ASSUME IInv, Shape, FlowInv, GenType
    PROVE  /\ link["out"] \in Link /\ link["back"] \in Link /\ DOMAIN link = Dir
           /\ LinkAsserts(link["out"], now, setup.linkDelay)
           /\ LinkAsserts(link["back"], now, setup.linkDelay)
           /\ now \in Nat /\ dut.by \in Nat /\ dut.frames \in Seq(Frame) /\ LastSent \in Int
           /\ setup.delayVar \in Nat /\ setup.linkDelay \in Nat
           /\ setup.dutDelay \in Nat /\ Turn \in Nat
           /\ Turn = SimLength + 1 + setup.delayVar + setup.dutDelay
           /\ Ahead \in Nat /\ lg.lastTxCount \in Nat
           /\ Ahead <= lg.lastTxCount => Credit \in Nat
<1>1. /\ link["out"] \in Link /\ link["back"] \in Link /\ DOMAIN link = Dir /\ now \in Nat
      /\ LinkAsserts(link["out"], now, setup.linkDelay)
      /\ LinkAsserts(link["back"], now, setup.linkDelay) /\ setup \in Setups
  BY Zenon DEF IInv, LinkInv, Dir
<1>2. setup.delayVar \in Nat /\ setup.linkDelay \in Nat /\ setup.dutDelay \in Nat
  BY Zenon, <1>1, SetupFacts
<1>3. Turn \in Nat
  BY <1>2, ConstantFacts DEF Turn
<1>4. lg \in Gens /\ dut.by \in Nat
  BY Zenon DEF GenType
<1>5. lg.lastTxCount \in Nat /\ lg.checkAt \in Time
  BY <1>4, ConstantFacts DEF Gens
<1>6. LastSent \in Int
  BY <1>1, <1>5, ConstantFacts DEF LastSent, Time, Never
<1>7. Ahead \in Nat /\ dut.frames \in Seq(Frame)
  <2> DEFINE a == Len(taken["out"])
             b == Len(given["out"])
             c == Len(dut.frames)
  <2>1. /\ a \in Nat /\ b \in 0 .. a /\ dut.frames \in Seq(Frame)
    BY Zenon, SequenceTypes DEF Dir
  <2>2. c \in Nat
    BY <2>1
  <2> HIDE DEF a, b, c
  <2>3. a - b + c \in Nat
    BY <2>1, <2>2
  <2> QED BY Zenon, <2>1, <2>3 DEF Ahead, a, b, c
<1>8. ASSUME Ahead <= lg.lastTxCount PROVE Credit \in Nat
  <2> DEFINE d == lg.lastTxCount - Ahead
  <2>1. d \in Nat
    BY <1>5, <1>7, <1>8
  <2> HIDE DEF d
  <2>2. d * Turn \in Nat
    BY <1>3, <2>1
  <2> QED BY Zenon, <2>2 DEF Credit, d
<1> QED BY Zenon, <1>1, <1>2, <1>3, <1>4, <1>5, <1>6, <1>7, <1>8 DEF Turn

\* What a step does to the number of frames before the card's end.
LEMMA AheadStep ==
    ASSUME IInv, Shape, FlowInv
    PROVE  /\ Refuses \/ Quiet => Ahead' = Ahead
           /\ Accepts => Ahead' = Ahead + 1
           /\ Leaves => Ahead' = Ahead - 1
           /\ \A f \in Frame : Arrives(f) => Ahead' \in {Ahead, Ahead - 1}
           /\ \A f \in Frame : Returns(f) => Ahead' = Ahead
<1> DEFINE a == Len(taken["out"])
           b == Len(given["out"])
           c == Len(dut.frames)
<1>1. /\ "out" \in Dir /\ "back" \in Dir /\ DOMAIN taken = Dir /\ DOMAIN given = Dir
      /\ sent \in Nat /\ sent + 1 \in Frame
  BY DEF Dir, Shape, IInv, Frame, NoFrame
<1>2. taken["out"] \in Seq(Frame) /\ given["out"] \in Seq(Frame) /\ dut.frames \in Seq(Frame)
  BY Zenon, <1>1, SequenceTypes
<1>3. a \in Nat /\ b \in Nat /\ c \in Nat
  BY <1>2
<1>4. Ahead = a - b + c
  BY Zenon DEF Ahead
<1>5. Ahead' = Len(taken'["out"]) - Len(given'["out"]) + Len(dut'.frames)
  BY Zenon DEF Ahead
<1>6. ASSUME Refuses \/ Quiet PROVE Ahead' = Ahead
  BY Zenon, <1>4, <1>5, <1>6 DEF Refuses, Quiet
<1>7. ASSUME NEW f \in Frame, Returns(f) PROVE Ahead' = Ahead
  BY Zenon, <1>1, <1>4, <1>5, <1>7 DEF Returns
<1>8. ASSUME Accepts PROVE Ahead' = Ahead + 1
  <2>1. taken'["out"] = Append(taken["out"], sent + 1) /\ given' = given /\ dut' = dut
    BY Zenon, <1>1, <1>8 DEF Accepts
  <2>2. Len(taken'["out"]) = a + 1
    BY <1>1, <1>2, <2>1
  <2>3. Ahead' = (a + 1) - b + c
    BY Zenon, <1>5, <2>1, <2>2
  <2> HIDE DEF a, b, c
  <2> QED BY <1>3, <1>4, <2>3
<1>9. ASSUME Leaves PROVE Ahead' = Ahead - 1
  <2>1. taken'["out"] = taken["out"] /\ given' = given /\ dut'.frames = Tail(dut.frames) /\ dut.frames # <<>>
    BY Zenon, <1>1, <1>9 DEF Leaves
  <2>2. Len(dut'.frames) = c - 1
    BY <1>2, <2>1
  <2>3. Ahead' = a - b + (c - 1)
    BY Zenon, <1>5, <2>1, <2>2
  <2> HIDE DEF a, b, c
  <2> QED BY <1>3, <1>4, <2>3
<1>10. ASSUME NEW f \in Frame, Arrives(f) PROVE Ahead' \in {Ahead, Ahead - 1}
  <2>1. taken' = taken /\ given'["out"] = Append(given["out"], f)
    BY Zenon, <1>1, <1>10 DEF Arrives
  <2>2. Len(given'["out"]) = b + 1
    BY <1>2, <2>1
  <2>3. Len(dut'.frames) \in {c, c + 1}
    <3>1. dut'.frames = dut.frames \/ dut'.frames = Append(dut.frames, f)
      BY Zenon, <1>10 DEF Arrives
    <3> QED BY <1>2, <3>1
  <2>4. Ahead' \in {a - (b + 1) + c, a - (b + 1) + (c + 1)}
    BY Zenon, <1>5, <2>1, <2>2, <2>3
  <2> HIDE DEF a, b, c
  <2> QED BY <1>3, <1>4, <2>4
<1> QED BY Zenon, <1>6, <1>7, <1>8, <1>9, <1>10

\* The credit grows by a turn when a frame more is sent or has left, and is
\* otherwise the same.
LEMMA CreditGrows ==
    ASSUME NEW m \in Nat, NEW k \in Nat, NEW c \in Nat, k <= m
    PROVE  /\ (m - k) * c \in Nat
           /\ (m + 1 - k) * c = (m - k) * c + c
           /\ (m - (k - 1)) * c = (m - k) * c + c
           /\ (m + 1 - (k + 1)) * c = (m - k) * c
<1> DEFINE d == m - k
<1>1. d \in Nat /\ m + 1 - k = d + 1 /\ m - (k - 1) = d + 1 /\ m + 1 - (k + 1) = d
  OBVIOUS
<1> HIDE DEF d
<1>2. (d + 1) * c = d * c + c /\ d * c \in Nat
  BY <1>1
<1> QED BY Zenon, <1>1, <1>2 DEF d

\* sendPacket(): the frame is at the card in time, whether it is the last of
\* the interval or not.
LEMMA TimeSent ==
    ASSUME IInv, Shape, FlowInv, GenType, CountInv, CountInv', TimeInv, sendPacket,
           Refuses \/ Accepts
    PROVE  TimeInv'
<1> SUFFICES ASSUME setup.mode = "Increment", ample, ~ stray
             PROVE  /\ Ahead' <= lg'.lastTxCount
                    /\ Timely(link["out"], link["back"], dut.frames, dut.by, now, LastSent, Credit)'
  BY Zenon, SameAmple DEF TimeInv, sendPacket, history
<1> DEFINE m == lg.lastTxCount
           t0 == LastSent
           V == setup.delayVar
           D == setup.linkDelay
           out == link["out"]
           back == link["back"]
<1>1. /\ out \in Link /\ back \in Link /\ DOMAIN link = Dir /\ now \in Nat /\ dut.by \in Nat
      /\ V \in Nat /\ D \in Nat /\ setup.dutDelay \in Nat /\ Turn \in Nat /\ Ahead \in Nat /\ m \in Nat
  BY Zenon, TimeFacts
<1>2. Ahead <= m /\ Timely(out, back, dut.frames, dut.by, now, t0, Credit)
  BY Zenon DEF TimeInv
<1>3. /\ setup' = setup /\ now' = now /\ dut' = dut /\ sent' = sent + 1 /\ first' = first
      /\ stray' = stray /\ lg.checkAt = Never
      /\ lg'.checkAt # Never => lg'.checkAt = now + Allowance
  BY Zenon, SentGen DEF sendPacket, history
<1>4. t0 = now /\ LastSent' = now
  <2>1. (now + Allowance) - Allowance = now
    BY <1>1, ConstantFacts
  <2> QED BY Zenon, <1>3, <2>1 DEF LastSent
<1>5. lg'.lastTxCount = m + 1
  <2>1. m = sent + 1 - first /\ lg'.lastTxCount = sent' + 1 - first'
    BY Zenon, <1>3 DEF CountInv
  <2>2. sent \in Nat /\ first \in Nat
    BY DEF IInv, GenType
  <2> QED BY <1>3, <2>1, <2>2
<1>6. /\ (m - Ahead) * Turn \in Nat
      /\ (m + 1 - Ahead) * Turn = (m - Ahead) * Turn + Turn
      /\ (m + 1 - (Ahead + 1)) * Turn = (m - Ahead) * Turn
  BY <1>1, <1>2, CreditGrows
<1>7. Turn' = Turn
  BY Zenon, <1>3 DEF Turn
<1>8. CASE Refuses
  <2>1. link' = link /\ Ahead' = Ahead
    BY Zenon, <1>8, AheadStep DEF Refuses
  <2>2. Credit' = Credit + Turn
    <3>1. Credit' = (lg'.lastTxCount - Ahead') * Turn'
      BY Zenon DEF Credit
    <3>2. Credit' = (m + 1 - Ahead) * Turn
      <4> HIDE DEF m
      <4> QED BY <1>1, <1>5, <1>7, <2>1, <3>1
    <3> QED BY Zenon, <1>6, <3>2 DEF Credit
  <2>3. Credit \in Nat /\ Credit + Turn \in Nat /\ Credit <= Credit + Turn
    BY SMTT(30), <1>1, <1>6 DEF Credit
  <2>4. Timely(out, back, dut.frames, dut.by, now, now, Credit + Turn)
    BY SMTT(30), <1>1, <1>2, <1>4, <2>3, TimelyMore
  <2>5. Timely(link["out"], link["back"], dut.frames, dut.by, now, LastSent, Credit)'
    BY Zenon, <1>3, <1>4, <2>1, <2>2, <2>4 DEF Timely
  <2> QED BY <1>1, <1>2, <1>5, <2>1, <2>5
<1>9. CASE Accepts
  <2>1. Ahead' = Ahead + 1
    BY Zenon, <1>9, AheadStep
  <2>2. Credit' = Credit
    <3>1. Credit' = (lg'.lastTxCount - Ahead') * Turn'
      BY Zenon DEF Credit
    <3>2. Credit' = (m + 1 - (Ahead + 1)) * Turn
      <4> HIDE DEF m
      <4> QED BY <1>1, <1>5, <1>7, <2>1, <3>1
    <3> QED BY Zenon, <1>6, <3>2 DEF Credit
  <2>3. PICK n \in transferTicks(0, V) :
          link' = [link EXCEPT !["out"] = transmit(out, sent + 1, now + n)]
    BY Zenon, <1>9 DEF sendPacket, Accepts
  <2> DEFINE o == transmit(out, sent + 1, now + n)
             x == now + 1 + V + D
  <2>4. link'["out"] = o /\ link'["back"] = back
    BY Zenon, <1>1, <2>3 DEF Dir
  <2>5. o.doneAt = now + n /\ n <= 1 + V /\ n \in Nat
    BY SMTT(30), <1>1 DEF transmit, transferTicks
  <2>6. o.doneAt <= now + 1 + V
    <3> HIDE DEF V, o
    <3> QED BY <1>1, <2>5
  <2>7. /\ Until(out, x)
        /\ dut.frames # <<>> => dut.by <= x + setup.dutDelay + Credit
                                /\ (~ busy(back) => now <= x + setup.dutDelay + Credit)
        /\ busy(back) => back.doneAt <= x + Credit
        /\ Until(back, x + Credit + D)
    BY Zenon, <1>2, <1>4 DEF Timely
  <2>8. x \in Int
    BY <1>1
  <2>9. Until(o, x)
    BY Zenon, <1>1, <2>7, <2>8, UntilSteps
  <2>10. Timely(o, back, dut.frames, dut.by, now, now, Credit)
    <3> HIDE DEF o
    <3> QED BY Zenon, <2>6, <2>7, <2>9 DEF Timely
  <2>11. Timely(link["out"], link["back"], dut.frames, dut.by, now, LastSent, Credit)'
    <3> HIDE DEF o
    <3> QED BY Zenon, <1>3, <1>4, <2>2, <2>4, <2>10 DEF Timely
  <2>12. Ahead' <= lg'.lastTxCount
    <3> HIDE DEF m
    <3> QED BY SMTT(30), <1>1, <1>2, <1>5, <2>1
  <2> QED BY Zenon, <2>11, <2>12
<1> QED BY Zenon, <1>8, <1>9

\* A frame arrives at the card or is lost there.
LEMMA TimelyArrival ==
    ASSUME NEW out \in Link, NEW back \in Link, NEW q, NEW by \in Nat, NEW t \in Nat,
           NEW t0 \in Int, NEW c \in Nat,
           setup.delayVar \in Nat, setup.linkDelay \in Nat, setup.dutDelay \in Nat,
           LinkAsserts(out, t, setup.linkDelay), Timely(out, back, q, by, t, t0, c),
           NEW o, \/ /\ out.doneAt = t /\ setup.linkDelay = 0
                     /\ o = txDone(out, t, setup.linkDelay)
                  \/ out.queueAt = t /\ o = processTxQueue(out),
           NEW q1, NEW by1, \/ q1 = q /\ by1 = by
                            \/ by1 = IF q = <<>> THEN t + setup.dutDelay ELSE by
    PROVE  Timely(o, back, q1, by1, t, t0, c)
<1> DEFINE V == setup.delayVar
           D == setup.linkDelay
           x == t0 + 1 + V + D
           u == out.doneAt
<1>1. V \in Nat /\ D \in Nat /\ setup.dutDelay \in Nat /\ t # Never /\ u \in Int
  BY SMTT(30), ConstantFacts DEF Never, Link, Time
<1>2. /\ busy(out) => u <= t0 + 1 + V
      /\ Until(out, x)
      /\ q # <<>> => by <= x + setup.dutDelay + c /\ (~ busy(back) => t <= x + setup.dutDelay + c)
      /\ busy(back) => back.doneAt <= x + c
      /\ Until(back, x + c + D)
  BY Zenon DEF Timely
<1>3. x \in Int
  <2> HIDE DEF V, D
  <2> QED BY SMTT(30), <1>1
<1>4. /\ busy(o) => busy(out) /\ o.doneAt = u
      /\ Until(o, x) /\ t <= x
  <2>1. CASE u = t /\ D = 0 /\ o = txDone(out, t, D)
    <3>1. busy(out)
      BY Zenon, <1>1, <2>1 DEF LinkAsserts
    <3>2. ~ busy(o)
      BY Zenon, <2>1 DEF txDone, busy
    <3>3. Until(o, x)
      BY Zenon, <1>1, <1>2, <1>3, <2>1, UntilSteps
    <3>4. t <= x
      <4>1. u <= t0 + 1 + V /\ u = t /\ D = 0
        BY Zenon, <1>2, <2>1, <3>1
      <4> HIDE DEF V, D, u
      <4> QED BY <1>1, <4>1
    <3> QED BY Zenon, <3>2, <3>3, <3>4
  <2>2. CASE out.queueAt = t /\ o = processTxQueue(out)
    <3>1. out.txQueue # <<>> /\ out.txQueue[1].at = t
      BY Zenon, <1>1, <2>2 DEF LinkAsserts
    <3>2. Until(o, x) /\ t <= x
      BY Zenon, <1>1, <1>2, <1>3, <2>2, <3>1, UntilSteps
    <3>3. busy(o) = busy(out) /\ o.doneAt = u
      BY Zenon, <2>2 DEF processTxQueue, busy
    <3> QED BY Zenon, <3>2, <3>3
  <2> QED BY Zenon, <2>1, <2>2
<1>5. q1 # <<>> => by1 <= x + setup.dutDelay + c /\ (~ busy(back) => t <= x + setup.dutDelay + c)
  <2> HIDE DEF x
  <2> QED BY SMTT(30), <1>1, <1>2, <1>3, <1>4
<1> HIDE DEF u
<1> QED BY Zenon, <1>2, <1>4, <1>5 DEF Timely, u

\* A frame comes back.
LEMMA TimelyReturn ==
    ASSUME NEW out \in Link, NEW back \in Link, NEW q, NEW by \in Nat, NEW t \in Nat,
           NEW t0 \in Int, NEW c \in Nat,
           setup.delayVar \in Nat, setup.linkDelay \in Nat, setup.dutDelay \in Nat,
           LinkAsserts(back, t, setup.linkDelay), Timely(out, back, q, by, t, t0, c),
           NEW o, \/ back.doneAt = t /\ o = txDone(back, t, setup.linkDelay)
                  \/ back.queueAt = t /\ o = processTxQueue(back)
    PROVE  Timely(out, o, q, by, t, t0, c)
<1> DEFINE V == setup.delayVar
           D == setup.linkDelay
           x == t0 + 1 + V + D
           u == back.doneAt
<1>1. V \in Nat /\ D \in Nat /\ setup.dutDelay \in Nat /\ t # Never /\ u \in Int
  BY SMTT(30), ConstantFacts DEF Never, Link, Time
<1>2. /\ busy(out) => out.doneAt <= t0 + 1 + V
      /\ Until(out, x)
      /\ q # <<>> => by <= x + setup.dutDelay + c /\ (~ busy(back) => t <= x + setup.dutDelay + c)
      /\ busy(back) => u <= x + c
      /\ Until(back, x + c + D)
  BY Zenon DEF Timely
<1>3. x \in Int /\ x + c + D \in Int
  <2> HIDE DEF V, D
  <2> QED BY <1>1
<1>4. /\ busy(o) => busy(back) /\ o.doneAt = u
      /\ Until(o, x + c + D)
      /\ ~ busy(o) => t <= x + c \/ ~ busy(back)
  <2>1. CASE u = t /\ o = txDone(back, t, D)
    <3>1. busy(back)
      BY Zenon, <1>1, <2>1 DEF LinkAsserts
    <3>2. ~ busy(o)
      BY Zenon, <2>1 DEF txDone, busy
    <3>3. t <= x + c
      BY Zenon, <1>2, <2>1, <3>1
    <3>4. t + D <= x + c + D
      <4> HIDE DEF x, D
      <4> QED BY <1>1, <1>3, <3>3
    <3>5. Until(o, x + c + D)
      <4> DEFINE y == x + c + D
      <4>1. y \in Int /\ t + D <= y /\ Until(back, y)
        BY Zenon, <1>2, <1>3, <3>4
      <4>2. D > 0 \/ D = 0
        BY <1>1
      <4> HIDE DEF y, D
      <4>3. Until(o, y)
        BY Zenon, <1>1, <2>1, <3>1, <4>1, <4>2, UntilSteps
      <4> QED BY Zenon, <4>3 DEF y, D
    <3> QED BY Zenon, <3>2, <3>3, <3>5
  <2>2. CASE back.queueAt = t /\ o = processTxQueue(back)
    <3>1. back.txQueue # <<>>
      BY Zenon, <1>1, <2>2 DEF LinkAsserts
    <3>2. Until(o, x + c + D)
      BY Zenon, <1>1, <1>2, <1>3, <2>2, <3>1, UntilSteps
    <3>3. busy(o) = busy(back) /\ o.doneAt = u
      BY Zenon, <2>2 DEF processTxQueue, busy
    <3> QED BY Zenon, <3>2, <3>3
  <2> QED BY Zenon, <2>1, <2>2
<1>5. q # <<>> => by <= x + setup.dutDelay + c /\ (~ busy(o) => t <= x + setup.dutDelay + c)
  <2> HIDE DEF x
  <2> QED BY SMTT(30), <1>1, <1>2, <1>3, <1>4
<1> HIDE DEF u
<1> QED BY Zenon, <1>2, <1>4, <1>5 DEF Timely, u

\* With a link delay a frame moves into the queue of the link to the card.
LEMMA TimelyMove ==
    ASSUME NEW out \in Link, NEW back \in Link, NEW q, NEW by \in Nat, NEW t \in Nat,
           NEW t0 \in Int, NEW c \in Nat,
           setup.delayVar \in Nat, setup.linkDelay \in Nat, setup.dutDelay \in Nat,
           LinkAsserts(out, t, setup.linkDelay), Timely(out, back, q, by, t, t0, c),
           setup.linkDelay > 0, out.doneAt = t
    PROVE  Timely(txDone(out, t, setup.linkDelay), back, q, by, t, t0, c)
<1> DEFINE V == setup.delayVar
           D == setup.linkDelay
           x == t0 + 1 + V + D
           o == txDone(out, t, D)
<1>1. V \in Nat /\ D \in Nat /\ setup.dutDelay \in Nat /\ D > 0 /\ t # Never
  BY ConstantFacts DEF Never
<1>2. /\ busy(out) => t <= t0 + 1 + V
      /\ Until(out, x)
      /\ q # <<>> => by <= x + setup.dutDelay + c /\ (~ busy(back) => t <= x + setup.dutDelay + c)
      /\ busy(back) => back.doneAt <= x + c
      /\ Until(back, x + c + D)
  BY Zenon DEF Timely
<1>3. busy(out)
  BY Zenon, <1>1 DEF LinkAsserts
<1>4. x \in Int /\ t + D <= x
  <2> HIDE DEF V, D
  <2> QED BY <1>1, <1>2, <1>3
<1>5. Until(o, x)
  <2> HIDE DEF x
  <2> QED BY Zenon, <1>1, <1>2, <1>3, <1>4, UntilSteps
<1>6. ~ busy(o)
  BY Zenon DEF txDone, busy
<1> HIDE DEF o
<1>7. Timely(o, back, q, by, t, t0, c)
  BY Zenon, <1>2, <1>5, <1>6 DEF Timely
<1> QED BY Zenon, <1>7 DEF o

\* The card sends a frame back.
LEMMA TimelyForward ==
    ASSUME NEW out \in Link, NEW back \in Link, NEW q, NEW by \in Nat, NEW t \in Nat,
           NEW t0 \in Int, NEW c \in Nat,
           setup.delayVar \in Nat, setup.linkDelay \in Nat, setup.dutDelay \in Nat,
           Timely(out, back, q, by, t, t0, c), q # <<>>, ~ busy(back), Turn \in Nat,
           NEW n \in transferTicks(SimLength, setup.delayVar), NEW f \in Frame, NEW q1
    PROVE  Timely(out, transmit(back, f, t + n), q1, t + setup.dutDelay, t, t0, c + Turn)
<1> DEFINE V == setup.delayVar
           D == setup.linkDelay
           x == t0 + 1 + V + D
           o == transmit(back, f, t + n)
<1>1. /\ V \in Nat /\ D \in Nat /\ setup.dutDelay \in Nat /\ SimLength \in Nat /\ n \in Nat
      /\ n <= SimLength + 1 + V /\ Turn = SimLength + 1 + V + setup.dutDelay
  BY ConstantFacts DEF transferTicks, Turn
<1>2. /\ busy(out) => out.doneAt <= t0 + 1 + V
      /\ Until(out, x)
      /\ t <= x + setup.dutDelay + c
      /\ Until(back, x + c + D)
  BY Zenon DEF Timely
<1>3. /\ x \in Int /\ x + c + D \in Int /\ x + (c + Turn) + D \in Int
      /\ x + c + D <= x + (c + Turn) + D
      /\ t + setup.dutDelay <= x + setup.dutDelay + (c + Turn) /\ t + n <= x + (c + Turn)
      /\ t <= x + setup.dutDelay + (c + Turn)
  <2> DEFINE K == setup.dutDelay
             T == Turn
  <2>1. K \in Nat /\ T \in Nat /\ T = SimLength + 1 + V + K /\ t <= x + K + c
    BY Zenon, <1>1, <1>2
  <2>2. x \in Int /\ x = t0 + 1 + V + D
    <3> HIDE DEF V, D
    <3> QED BY <1>1
  <2> HIDE DEF V, D, K, T, x
  <2>3. x + c + D \in Int /\ x + (c + T) + D \in Int /\ x + c + D <= x + (c + T) + D
    BY <1>1, <2>1, <2>2
  <2>4. t + K <= x + K + (c + T) /\ t + n <= x + (c + T) /\ t <= x + K + (c + T)
    BY <1>1, <2>1, <2>2
  <2> QED BY Zenon, <2>2, <2>3, <2>4 DEF K, T
<1>4. Until(o, x + (c + Turn) + D)
  <2> HIDE DEF x, D
  <2>1. Until(back, x + (c + Turn) + D)
    BY Zenon, <1>1, <1>2, <1>3, UntilSteps
  <2> QED BY Zenon, <1>1, <1>3, <2>1, UntilSteps
<1>5. busy(o) /\ o.doneAt = t + n
  BY Zenon DEF transmit, busy, Frame
<1> HIDE DEF o
<1>6. Timely(out, o, q1, t + setup.dutDelay, t, t0, c + Turn)
  BY Zenon, <1>2, <1>3, <1>4, <1>5 DEF Timely
<1> QED BY Zenon, <1>6 DEF o

LEMMA OneLess == \A a, b \in Nat : (a - 1) * b = a * b - b
OBVIOUS

LEMMA EmptyDomain ==
    ASSUME NEW T, NEW s \in Seq(T), DOMAIN s = {}
    PROVE  s = <<>>
<1>1. DOMAIN s = 1 .. Len(s) /\ Len(s) \in Nat
  OBVIOUS
<1>2. Len(s) = 0
  BY <1>1
<1> QED BY <1>2

\* Nothing is in flight.
LEMMA NothingInFlight ==
    IInv /\ Shape /\ FlowInv /\ InWay = {}
      => /\ \A d \in Dir : ~ busy(link[d]) /\ link[d].txQueue = <<>>
         /\ dut.frames = <<>> /\ Ahead = 0
<1> SUFFICES ASSUME IInv, Shape, FlowInv, InWay = {}
             PROVE  /\ \A d \in Dir : ~ busy(link[d]) /\ link[d].txQueue = <<>>
                    /\ dut.frames = <<>> /\ Ahead = 0
  BY Zenon
<1>1. inFlight = {}
  BY Zenon, InFlightWay
<1>2. ASSUME NEW d \in Dir PROVE ~ busy(link[d]) /\ link[d].txQueue = <<>>
  <2>1. ~ busy(link[d])
    BY Zenon, <1>1 DEF inFlight
  <2>2. DOMAIN link[d].txQueue = {}
    <3> DEFINE Q(e) == {link[e].txQueue[i].frame : i \in DOMAIN link[e].txQueue}
    <3>1. UNION {Q(e) : e \in Dir} = {}
      BY Zenon, <1>1 DEF inFlight
    <3>2. Q(d) = {}
      <4> HIDE DEF Q
      <4> QED BY Zenon, <3>1
    <3> QED BY Zenon, <3>2
  <2>3. link[d].txQueue \in Seq([at : Nat, frame : Frame])
    BY Zenon DEF IInv, LinkInv, Link
  <2>4. link[d].txQueue = <<>>
    <3> DEFINE T == [at : Nat, frame : Frame]
    <3> HIDE DEF T
    <3>1. link[d].txQueue \in Seq(T)
      BY Zenon, <2>3 DEF T
    <3> QED BY Zenon, <2>2, <3>1, EmptyDomain
  <2> QED BY Zenon, <2>1, <2>4
<1>3. dut.frames = <<>>
  <2>1. dut.frames \in Seq(Frame)
    BY Zenon DEF IInv
  <2>2. DOMAIN dut.frames = {}
    BY Zenon, <1>1 DEF inFlight
  <2> QED BY Zenon, <2>1, <2>2, EmptyDomain
<1>4. Ahead = 0
  <2>1. "out" \in Dir
    BY Zenon DEF Dir
  <2>2. Flow(link["out"], taken["out"], given["out"])
    BY Zenon, <2>1 DEF FlowInv
  <2>3. Len(link["out"].txQueue) = 0 /\ ~ busy(link["out"]) /\ Len(dut.frames) = 0
    BY <1>2, <1>3, <2>1
  <2>4. Len(taken["out"]) = Len(given["out"]) + 0 + 0
    BY Zenon, <2>2, <2>3 DEF Flow
  <2>5. Len(taken["out"]) \in Nat /\ Len(given["out"]) \in 0 .. Len(taken["out"])
    BY Zenon, <2>1, SequenceTypes
  <2> QED BY <2>3, <2>4, <2>5 DEF Ahead
<1> QED BY Zenon, <1>2, <1>3, <1>4

\* The timing starts anew when nothing is in flight.
LEMMA TimeReset ==
    ASSUME IInv', Shape', FlowInv', GenType', ample' /\ ~ stray' => InWay' = {}
    PROVE  TimeInv'
<1> SUFFICES ASSUME InWay' = {}
             PROVE  /\ Ahead' <= lg'.lastTxCount
                    /\ Timely(link["out"], link["back"], dut.frames, dut.by, now, LastSent, Credit)'
  BY Zenon DEF TimeInv
<1>1. /\ \A d \in Dir : ~ busy(link'[d]) /\ link'[d].txQueue = <<>>
      /\ dut'.frames = <<>> /\ Ahead' = 0
  <2>1. (IInv /\ Shape /\ FlowInv /\ InWay = {}
          => /\ \A d \in Dir : ~ busy(link[d]) /\ link[d].txQueue = <<>>
             /\ dut.frames = <<>> /\ Ahead = 0)'
    BY NothingInFlight, PTL
  <2> QED BY Zenon, <2>1 DEF busy
<1>2. lg'.lastTxCount >= 0
  BY ConstantFacts DEF GenType, Gens
<1>3. \A d \in Dir : \A x : Until(link'[d], x)
  BY SMTT(30), <1>1 DEF Until
<1>4. "out" \in Dir /\ "back" \in Dir
  BY Zenon DEF Dir
<1>5. Timely(link["out"], link["back"], dut.frames, dut.by, now, LastSent, Credit)'
  BY Zenon, <1>1, <1>3, <1>4 DEF Timely, Until, busy
<1> QED BY Zenon, <1>1, <1>2, <1>5

\* "allow enough time for any in flight packets to be recieved": they are.
LEMMA AllBack ==
    ASSUME IInv, Shape, FlowInv, GenType, CountInv, TimeInv, checkLoss, ample, ~ stray
    PROVE  inFlight = {}
<1> DEFINE V == setup.delayVar
           D == setup.linkDelay
           t0 == LastSent
           x == t0 + 1 + V + D
           out == link["out"]
           back == link["back"]
           m == lg.lastTxCount
           c == Credit
<1>1. /\ lg.checkAt = now /\ now # Never /\ now \in Nat /\ setup \in Setups
      /\ out \in Link /\ back \in Link /\ LinkAsserts(out, now, D) /\ LinkAsserts(back, now, D)
      /\ V \in Nat /\ D \in Nat /\ setup.dutDelay \in Nat /\ t0 \in Int /\ Turn \in Nat /\ Ahead \in Nat
      /\ Turn = SimLength + 1 + V + setup.dutDelay
  BY TimeFacts DEF checkLoss, IInv, Never
<1>2. setup.mode = "Increment" /\ m = CheckLossInterval
  BY Zenon, <1>1 DEF CountInv
<1>3. Ahead <= m /\ Timely(out, back, dut.frames, dut.by, now, t0, c)
  BY Zenon, <1>2 DEF TimeInv
<1>4. t0 = now - Allowance
  BY Zenon, <1>1 DEF LastSent
<1>5. c \in Nat /\ c <= CheckLossInterval * Turn
  <2> DEFINE e == CheckLossInterval - Ahead
  <2>1. e \in Nat /\ e <= CheckLossInterval
    BY <1>1, <1>2, <1>3, ConstantFacts
  <2>2. c = e * Turn
    BY Zenon, <1>2 DEF Credit
  <2> HIDE DEF e
  <2>3. e * Turn <= CheckLossInterval * Turn /\ e * Turn \in Nat
    BY <1>1, <2>1, ConstantFacts, TimesMonotone
  <2> QED BY Zenon, <2>2, <2>3
<1>6. 2 + 2 * V + 2 * D + CheckLossInterval * Turn < Allowance
  <2>1. CheckLossInterval * Turn = CheckLossInterval * (SimLength + 1 + V + setup.dutDelay)
    BY Zenon DEF Turn
  <2> QED BY Zenon, <2>1 DEF ample
<1>7. /\ x \in Int /\ x < now /\ x + c < now /\ x + c + D < now /\ x + c + D \in Int
      /\ t0 + 1 + V < now
  <2> DEFINE z == CheckLossInterval * Turn
  <2>1. z \in Nat /\ c <= z /\ 2 + 2 * V + 2 * D + z < Allowance
    BY <1>1, <1>5, <1>6, ConstantFacts
  <2>2. V \in Nat /\ D \in Nat /\ setup.dutDelay \in Nat /\ t0 = now - Allowance /\ Allowance \in Nat
    BY Zenon, <1>1, <1>4, ConstantFacts
  <2> HIDE DEF V, D, z, t0, c
  <2> QED BY <1>1, <1>5, <2>1, <2>2
<1>8. /\ busy(out) => out.doneAt <= t0 + 1 + V
      /\ Until(out, x)
      /\ dut.frames # <<>> /\ ~ busy(back) => now <= x + setup.dutDelay + c
      /\ busy(back) => back.doneAt <= x + c
      /\ Until(back, x + c + D)
  BY Zenon, <1>3 DEF Timely
<1> HIDE DEF x
<1>9. ASSUME NEW l \in Link, LinkAsserts(l, now, D), NEW u \in Int, NEW w \in Int, u < now, w < now,
             busy(l) => l.doneAt <= u, Until(l, w)
      PROVE  ~ busy(l) /\ l.txQueue = <<>>
  <2>1. busy(l) => now <= l.doneAt
    BY Zenon, <1>9 DEF LinkAsserts
  <2>2. l.doneAt \in Int
    BY <1>9 DEF Link, Time, Never
  <2>3. ~ busy(l)
    BY <1>1, <1>9, <2>1, <2>2
  <2>4. l.txQueue \in Seq([at : Nat, frame : Frame])
    BY Zenon, <1>9 DEF Link
  <2>5. \A i \in DOMAIN l.txQueue : now <= l.txQueue[i].at /\ l.txQueue[i].at <= w
    BY Zenon, <1>9 DEF LinkAsserts, Until
  <2>6. \A i \in DOMAIN l.txQueue : l.txQueue[i].at \in Nat
    BY Zenon, <2>4, QueueEntry
  <2>7. DOMAIN l.txQueue = {}
    BY SMTT(30), <1>1, <1>9, <2>5, <2>6
  <2>8. l.txQueue = <<>>
    <3> DEFINE T == [at : Nat, frame : Frame]
    <3> HIDE DEF T
    <3>1. l.txQueue \in Seq(T)
      BY Zenon, <2>4 DEF T
    <3> QED BY Zenon, <2>7, <3>1, EmptyDomain
  <2> QED BY Zenon, <2>3, <2>8
<1>10. ~ busy(out) /\ out.txQueue = <<>>
  <2>1. t0 + 1 + V \in Int
    BY <1>1
  <2> QED BY Zenon, <1>1, <1>7, <1>8, <1>9, <2>1
<1>11. ~ busy(back) /\ back.txQueue = <<>>
  <2>1. x + c \in Int
    BY <1>5, <1>7
  <2> QED BY Zenon, <1>1, <1>7, <1>8, <1>9, <2>1
<1>12. dut.frames = <<>>
  <2> SUFFICES ASSUME dut.frames # <<>> PROVE FALSE
    BY Zenon
  <2>1. Flow(out, taken["out"], given["out"])
    BY Zenon DEF FlowInv, Dir
  <2>2. Len(taken["out"]) = Len(given["out"]) + 0 + 0
    <3>1. Len(out.txQueue) = 0 /\ ~ busy(out)
      BY Zenon, <1>10
    <3> QED BY Zenon, <2>1, <3>1 DEF Flow
  <2>3. dut.frames \in Seq(Frame) /\ Len(taken["out"]) \in Nat /\ Len(given["out"]) \in 0 .. Len(taken["out"])
    BY Zenon, SequenceTypes DEF Dir
  <2>4. Ahead >= 1
    BY <2>2, <2>3 DEF Ahead
  <2>5. c <= (CheckLossInterval - 1) * Turn
    <3> DEFINE e == CheckLossInterval - Ahead
               e1 == CheckLossInterval - 1
    <3>1. e \in Int /\ e1 \in Int /\ e <= e1
      BY <1>1, <2>4, ConstantFacts
    <3>2. c = e * Turn
      BY Zenon, <1>2 DEF Credit
    <3> HIDE DEF e, e1
    <3>3. e * Turn <= e1 * Turn
      BY Zenon, <1>1, <3>1, TimesMonotone
    <3> QED BY Zenon, <3>2, <3>3 DEF e1
  <2>6. (CheckLossInterval - 1) * Turn = CheckLossInterval * Turn - Turn
    <3>1. CheckLossInterval \in Nat /\ Turn \in Nat
      BY Zenon, <1>1, ConstantFacts
    <3> QED BY Zenon, <3>1, OneLess
  <2>7. now <= x + setup.dutDelay + c
    BY Zenon, <1>8, <1>11
  <2> DEFINE z == CheckLossInterval * Turn
  <2>8. z \in Nat /\ c <= z - Turn /\ 2 + 2 * V + 2 * D + z < Allowance
    <3>1. z \in Nat
      BY <1>1, ConstantFacts
    <3>2. c <= z - Turn
      <4> HIDE DEF c
      <4> QED BY Zenon, <2>5, <2>6
    <3> QED BY Zenon, <1>6, <3>1, <3>2
  <2>9. /\ V \in Nat /\ D \in Nat /\ setup.dutDelay \in Nat /\ SimLength \in Nat
        /\ t0 = now - Allowance /\ Allowance \in Nat
        /\ x = t0 + 1 + V + D /\ Turn = SimLength + 1 + V + setup.dutDelay
    BY Zenon, <1>1, <1>4, ConstantFacts DEF x
  <2> HIDE DEF V, D, z, t0, c
  <2> QED BY <1>1, <1>5, <2>7, <2>8, <2>9
<1>13. inFlight = {}
  BY <1>10, <1>11, <1>12 DEF inFlight, Dir
<1> QED BY Zenon, <1>13

\* TimeFacts for the state after a step.
LEMMA TimeTypes ==
    IInv /\ Shape /\ FlowInv /\ GenType
      => /\ link["out"] \in Link /\ link["back"] \in Link /\ now \in Nat /\ dut.by \in Nat
         /\ LastSent \in Int /\ Ahead \in Nat /\ lg.lastTxCount \in Nat
         /\ Ahead <= lg.lastTxCount => Credit \in Nat
BY Zenon, TimeFacts

LEMMA TimeTypesNext ==
    (IInv /\ Shape /\ FlowInv /\ GenType)'
      => (/\ link["out"] \in Link /\ link["back"] \in Link /\ now \in Nat /\ dut.by \in Nat
          /\ LastSent \in Int /\ Ahead \in Nat /\ lg.lastTxCount \in Nat
          /\ Ahead <= lg.lastTxCount => Credit \in Nat)'
BY TimeTypes, PTL

\* A step that leaves the generator's counter of frames alone.
LEMMA TimeKept ==
    ASSUME IInv, Shape, FlowInv, GenType, TimeInv, IInv', Shape', FlowInv', GenType',
           setup' = setup, stray' = stray, lg'.lastTxCount = lg.lastTxCount,
           lg'.checkAt = lg.checkAt, now' = now, Ahead' <= Ahead,
           (/\ setup.mode = "Increment" /\ ~ stray /\ Ahead <= lg.lastTxCount /\ Credit \in Nat
            /\ Timely(link["out"], link["back"], dut.frames, dut.by, now, LastSent, Credit))
             => \/ Timely(link'["out"], link'["back"], dut'.frames, dut'.by, now, LastSent, Credit)
                \/ /\ Timely(link'["out"], link'["back"], dut'.frames, dut'.by, now, LastSent, Credit + Turn)
                   /\ Ahead' = Ahead - 1
    PROVE  TimeInv'
<1> SUFFICES ASSUME setup.mode = "Increment", ample, ~ stray
             PROVE  /\ Ahead' <= lg'.lastTxCount
                    /\ Timely(link["out"], link["back"], dut.frames, dut.by, now, LastSent, Credit)'
  BY Zenon, SameAmple DEF TimeInv
<1>1. /\ Ahead <= lg.lastTxCount
      /\ Timely(link["out"], link["back"], dut.frames, dut.by, now, LastSent, Credit)
  BY Zenon DEF TimeInv
<1>2. /\ Credit \in Nat /\ Ahead \in Nat /\ lg.lastTxCount \in Nat /\ Turn \in Nat /\ now \in Nat
      /\ LastSent \in Int /\ setup.delayVar \in Nat /\ setup.linkDelay \in Nat /\ setup.dutDelay \in Nat
  BY Zenon, <1>1, TimeFacts
<1>3. LastSent' = LastSent /\ Turn' = Turn
  BY Zenon DEF LastSent, Turn
<1>4. /\ link'["out"] \in Link /\ link'["back"] \in Link /\ dut'.by \in Nat /\ Ahead' \in Nat
  BY Zenon, TimeTypesNext
<1> DEFINE m == lg.lastTxCount
           a == Ahead
           b == Ahead'
<1>5. Credit = (m - a) * Turn /\ Credit' = (m - b) * Turn
  BY Zenon, <1>3 DEF Credit
<1>6. m \in Nat /\ a \in Nat /\ b \in Nat /\ b <= a /\ a <= m
  BY Zenon, <1>1, <1>2, <1>4
<1>7. b <= m /\ Credit' \in Nat /\ Credit <= Credit' /\ (b = a - 1 => Credit' = Credit + Turn)
  <2> HIDE DEF m, a, b
  <2>1. m - a <= m - b /\ m - a \in Int /\ m - b \in Int /\ b <= m
    BY SMTT(30), <1>6
  <2>2. (m - a) * Turn <= (m - b) * Turn
    BY Zenon, <1>2, <2>1, TimesMonotone
  <2>3. (m - (a - 1)) * Turn = (m - a) * Turn + Turn
    BY SMTT(30), <1>2, <1>6, CreditGrows
  <2>4. (m - b) * Turn \in Nat
    BY Zenon, <1>2, <1>6, <2>1, CreditGrows
  <2> QED BY Zenon, <1>5, <2>1, <2>2, <2>3, <2>4
<1> DEFINE Ty(c) == Timely(link'["out"], link'["back"], dut'.frames, dut'.by, now, LastSent, c)
<1>8. Ty(Credit) \/ (Ty(Credit + Turn) /\ b = a - 1)
  BY Zenon, <1>1, <1>2
<1>9. Ty(Credit) => Ty(Credit')
  BY SMTT(30), <1>2, <1>4, <1>7, TimelyMore
<1>10. Ty(Credit')
  BY Zenon, <1>7, <1>8, <1>9
<1>11. Timely(link["out"], link["back"], dut.frames, dut.by, now, LastSent, Credit)'
  BY Zenon, <1>3, <1>10 DEF Timely
<1> QED BY Zenon, <1>7, <1>11

\* A tick passes.
LEMMA TimeAdvance ==
    ASSUME IInv, Shape, FlowInv, GenType, CountInv, TimeInv, advance
    PROVE  TimeInv'
<1> SUFFICES ASSUME setup.mode = "Increment", ample, ~ stray
             PROVE  /\ Ahead' <= lg'.lastTxCount
                    /\ Timely(link["out"], link["back"], dut.frames, dut.by, now, LastSent, Credit)'
  BY Zenon, SameAmple DEF TimeInv, advance, history
<1> DEFINE out == link["out"]
           back == link["back"]
           V == setup.delayVar
           D == setup.linkDelay
           t1 == IF lg.checkAt = Never THEN now + 1 ELSE LastSent
           y == t1 + 1 + V + D + setup.dutDelay + Credit
<1>1. /\ Ahead <= lg.lastTxCount /\ Timely(out, back, dut.frames, dut.by, now, LastSent, Credit)
  BY Zenon DEF TimeInv
<1>2. /\ Credit \in Nat /\ now \in Nat /\ LastSent \in Int /\ V \in Nat /\ D \in Nat /\ setup.dutDelay \in Nat
      /\ out \in Link /\ back \in Link /\ dut.by \in Nat
  BY Zenon, <1>1, TimeFacts
<1>3. /\ setup' = setup /\ lg' = lg /\ link' = link /\ dut' = dut /\ taken' = taken /\ given' = given
      /\ stray' = stray /\ now' = now + 1
      /\ dut.frames = <<>> \/ busy(back) \/ now < dut.by
  BY Zenon DEF advance, history
<1>4. Ahead' = Ahead /\ Credit' = Credit
  BY Zenon, <1>3 DEF Ahead, Credit, Turn
<1>5. LastSent' = t1 /\ t1 \in Int /\ LastSent <= t1
  BY SMTT(30), <1>2, <1>3 DEF LastSent
<1>6. Timely(out, back, dut.frames, dut.by, now, t1, Credit)
  <2> HIDE DEF t1
  <2> QED BY <1>1, <1>2, <1>5, TimelyMore
<1>7. ASSUME dut.frames # <<>>, ~ busy(back) PROVE now + 1 <= y
  <2>1. dut.by <= y /\ y \in Int
    <3> HIDE DEF t1
    <3>1. y \in Int
      BY <1>2, <1>5, ConstantFacts
    <3>2. dut.by <= t1 + 1 + V + D + setup.dutDelay + Credit
      BY Zenon, <1>6, <1>7 DEF Timely
    <3> QED BY Zenon, <3>1, <3>2
  <2>2. now < dut.by
    BY Zenon, <1>3, <1>7
  <2> HIDE DEF y
  <2> QED BY <1>2, <2>1, <2>2
<1>8. Timely(out, back, dut.frames, dut.by, now + 1, t1, Credit)
  <2> HIDE DEF t1
  <2> QED BY Zenon, <1>6, <1>7 DEF Timely
<1>9. Timely(link["out"], link["back"], dut.frames, dut.by, now, LastSent, Credit)'
  <2> HIDE DEF t1
  <2> QED BY Zenon, <1>3, <1>4, <1>5, <1>8 DEF Timely
<1> QED BY Zenon, <1>1, <1>3, <1>4, <1>9

\* What a delivery does to the card.
LEMMA ArriveEffect ==
    ASSUME NEW d \in Dir, transferDone(d) \/ queueEvent(d)
    PROVE  \/ dut' = dut
           \/ /\ DOMAIN dut' = {"frames", "by"}
              /\ dut'.by = IF dut.frames = <<>> THEN now + setup.dutDelay ELSE dut.by
<1>1. ASSUME NEW f, txComplete(d, f)
      PROVE  dut' = dut \/ dut' = [frames |-> Append(dut.frames, f),
                                  by |-> IF dut.frames = <<>> THEN now + setup.dutDelay ELSE dut.by]
  BY Zenon, <1>1 DEF txComplete
<1>2. dut' = dut \/ \E f : txComplete(d, f)
  BY Zenon DEF transferDone, queueEvent
<1>3. ASSUME NEW f, dut' = [frames |-> Append(dut.frames, f),
                            by |-> IF dut.frames = <<>> THEN now + setup.dutDelay ELSE dut.by]
      PROVE  /\ DOMAIN dut' = {"frames", "by"}
             /\ dut'.by = IF dut.frames = <<>> THEN now + setup.dutDelay ELSE dut.by
  BY Zenon, <1>3
<1> QED BY Zenon, <1>1, <1>2, <1>3

\* The events of the links and of the card.
LEMMA TimeDelivers ==
    ASSUME IInv, Shape, FlowInv, GenType, TimeInv, IInv', Shape', FlowInv', GenType',
           NEW d \in Dir, NEW f \in Frame,
           (transferDone(d) /\ setup.linkDelay = 0) \/ queueEvent(d),
           (d = "out" /\ Arrives(f) /\ lg' = lg) \/ (d = "back" /\ Returns(f) /\ processRxPkt)
    PROVE  TimeInv'
<1> DEFINE l == link[d]
           o == link'[d]
           D == setup.linkDelay
<1>1. /\ link["out"] \in Link /\ link["back"] \in Link /\ DOMAIN link = Dir
      /\ LinkAsserts(link["out"], now, D) /\ LinkAsserts(link["back"], now, D)
      /\ now \in Nat /\ dut.by \in Nat /\ LastSent \in Int /\ Ahead \in Nat
      /\ setup.delayVar \in Nat /\ D \in Nat /\ setup.dutDelay \in Nat
  BY Zenon, TimeFacts
<1>2. setup' = setup /\ stray' = stray /\ now' = now
  BY Zenon DEF transferDone, queueEvent, history
<1>3. lg'.lastTxCount = lg.lastTxCount /\ lg'.checkAt = lg.checkAt
  BY Zenon, ReceivedGen DEF GenType
<1>4. Ahead' <= Ahead
  BY <1>1, AheadStep
<1>5. \/ l.doneAt = now /\ D = 0 /\ o = txDone(l, now, D)
      \/ l.queueAt = now /\ o = processTxQueue(l)
  BY Zenon, <1>1 DEF transferDone, queueEvent
<1>6. \A e \in Dir \ {d} : link'[e] = link[e]
  BY Zenon, <1>1 DEF transferDone, queueEvent
<1> DEFINE Ty == Timely(link["out"], link["back"], dut.frames, dut.by, now, LastSent, Credit)
           Ty1 == Timely(link'["out"], link'["back"], dut'.frames, dut'.by, now, LastSent, Credit)
<1>7. ASSUME d = "out", Credit \in Nat, Ty PROVE Ty1
  <2>1. \/ dut' = dut
        \/ dut'.by = IF dut.frames = <<>> THEN now + setup.dutDelay ELSE dut.by
    BY Zenon, ArriveEffect
  <2>2. \/ dut'.frames = dut.frames /\ dut'.by = dut.by
        \/ dut'.by = IF dut.frames = <<>> THEN now + setup.dutDelay ELSE dut.by
    BY Zenon, <2>1
  <2>3. link'["back"] = link["back"]
    BY Zenon, <1>6, <1>7 DEF Dir
  <2> DEFINE o1 == link'["out"]
  <2>4. \/ /\ link["out"].doneAt = now /\ setup.linkDelay = 0
           /\ o1 = txDone(link["out"], now, setup.linkDelay)
        \/ link["out"].queueAt = now /\ o1 = processTxQueue(link["out"])
    BY Zenon, <1>5, <1>7
  <2>5. Timely(o1, link["back"], dut'.frames, dut'.by, now, LastSent, Credit)
    <3> HIDE DEF o1
    <3> QED BY Zenon, <1>1, <1>7, <2>2, <2>4, TimelyArrival
  <2> QED BY Zenon, <2>3, <2>5
<1>8. ASSUME d = "back", Credit \in Nat, Ty PROVE Ty1
  <2>1. dut' = dut /\ link'["out"] = link["out"]
    BY Zenon, <1>6, <1>8 DEF Dir, Returns
  <2> DEFINE o1 == link'["back"]
  <2>2. \/ /\ link["back"].doneAt = now
           /\ o1 = txDone(link["back"], now, setup.linkDelay)
        \/ link["back"].queueAt = now /\ o1 = processTxQueue(link["back"])
    BY Zenon, <1>5, <1>8
  <2>3. Timely(link["out"], o1, dut.frames, dut.by, now, LastSent, Credit)
    <3> HIDE DEF o1
    <3> QED BY Zenon, <1>1, <1>8, <2>2, TimelyReturn
  <2> QED BY Zenon, <2>1, <2>3
<1>9. Credit \in Nat /\ Ty => Ty1
  BY Zenon, <1>7, <1>8
<1> HIDE DEF Ty, Ty1
<1> QED BY Zenon, <1>2, <1>3, <1>4, <1>9, TimeKept DEF Ty, Ty1

LEMMA TimeMoves ==
    ASSUME IInv, Shape, FlowInv, GenType, TimeInv, IInv', Shape', FlowInv', GenType',
           NEW d \in Dir, transferDone(d), setup.linkDelay > 0, lg' = lg, Quiet
    PROVE  TimeInv'
<1> DEFINE D == setup.linkDelay
           Ty == Timely(link["out"], link["back"], dut.frames, dut.by, now, LastSent, Credit)
           Ty1 == Timely(link'["out"], link'["back"], dut'.frames, dut'.by, now, LastSent, Credit)
<1>1. /\ link["out"] \in Link /\ link["back"] \in Link /\ DOMAIN link = Dir
      /\ LinkAsserts(link["out"], now, D) /\ LinkAsserts(link["back"], now, D)
      /\ now \in Nat /\ dut.by \in Nat /\ LastSent \in Int /\ Ahead \in Nat
      /\ setup.delayVar \in Nat /\ D \in Nat /\ setup.dutDelay \in Nat
  BY Zenon, TimeFacts
<1>2. setup' = setup /\ stray' = stray /\ now' = now /\ dut' = dut
  BY Zenon DEF transferDone, history, Quiet
<1>3. Ahead' <= Ahead
  BY <1>1, AheadStep
<1>4. ASSUME Credit \in Nat, Ty PROVE Ty1
  <2>1. CASE d = "out"
    <3>1. /\ link["out"].doneAt = now /\ link'["out"] = txDone(link["out"], now, D)
          /\ link'["back"] = link["back"]
      BY Zenon, <1>1, <2>1 DEF transferDone, Dir
    <3>2. Timely(txDone(link["out"], now, setup.linkDelay), link["back"], dut.frames, dut.by, now,
                 LastSent, Credit)
      BY Zenon, <1>1, <1>4, <3>1, TimelyMove
    <3> QED BY Zenon, <1>2, <3>1, <3>2
  <2>2. CASE d = "back"
    <3> DEFINE o1 == link'["back"]
    <3>1. /\ link["back"].doneAt = now /\ o1 = txDone(link["back"], now, setup.linkDelay)
          /\ link'["out"] = link["out"]
      BY Zenon, <1>1, <2>2 DEF transferDone, Dir
    <3>2. Timely(link["out"], o1, dut.frames, dut.by, now, LastSent, Credit)
      <4> HIDE DEF o1
      <4> QED BY Zenon, <1>1, <1>4, <3>1, TimelyReturn
    <3> QED BY Zenon, <1>2, <3>1, <3>2
  <2> QED BY Zenon, <2>1, <2>2 DEF Dir
<1> HIDE DEF Ty, Ty1
<1> QED BY Zenon, <1>2, <1>3, <1>4, TimeKept DEF Ty, Ty1

LEMMA TimeForward ==
    ASSUME IInv, Shape, FlowInv, GenType, TimeInv, IInv', Shape', FlowInv', GenType',
           forward, Leaves
    PROVE  TimeInv'
<1> DEFINE q == dut.frames
           f == Head(q)
           Ty == Timely(link["out"], link["back"], dut.frames, dut.by, now, LastSent, Credit)
           Ty1 == Timely(link'["out"], link'["back"], dut'.frames, dut'.by, now, LastSent, Credit + Turn)
<1>1. /\ link["out"] \in Link /\ link["back"] \in Link /\ DOMAIN link = Dir
      /\ now \in Nat /\ dut.by \in Nat /\ LastSent \in Int /\ Ahead \in Nat
      /\ setup.delayVar \in Nat /\ setup.linkDelay \in Nat /\ setup.dutDelay \in Nat
      /\ Turn \in Nat /\ q \in Seq(Frame)
  BY Zenon, TimeFacts
<1>2. /\ setup' = setup /\ stray' = stray /\ now' = now /\ lg' = lg /\ q # <<>> /\ ~ busy(link["back"])
      /\ dut'.by = now + setup.dutDelay
  BY Zenon DEF forward, history
<1>3. Ahead' = Ahead - 1 /\ Ahead' <= Ahead
  BY <1>1, AheadStep
<1>4. f \in Frame
  BY SMTT(30), <1>1, <1>2
<1>5. PICK n \in transferTicks(SimLength, setup.delayVar) :
        link' = [link EXCEPT !["back"] = transmit(@, f, now + n)]
  BY Zenon DEF forward
<1>6. link'["out"] = link["out"] /\ link'["back"] = transmit(link["back"], f, now + n)
  BY Zenon, <1>1, <1>5 DEF Dir
<1>7. ASSUME Credit \in Nat, Ty PROVE Ty1
  <2> HIDE DEF f
  <2>1. Timely(link["out"], transmit(link["back"], f, now + n), dut'.frames, now + setup.dutDelay, now,
               LastSent, Credit + Turn)
    BY Zenon, <1>1, <1>2, <1>4, <1>7, TimelyForward
  <2> QED BY Zenon, <1>2, <1>6, <2>1
<1> HIDE DEF Ty, Ty1
<1> QED BY Zenon, <1>2, <1>3, <1>7, TimeKept DEF Ty, Ty1
=============================================================================
