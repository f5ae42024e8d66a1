--------------------------- MODULE LoadLossProofs ---------------------------
(***************************************************************************)
(* The assertions hold, no frame is counted twice or forgotten, and what   *)
(* checkLoss() judges by, for every configuration.                         *)
(***************************************************************************)
EXTENDS LoadGeneratorProofs, FiniteSetTheorems

-----------------------------------------------------------------------------
(* The counters                                                            *)

\* A step that leaves the counters and moves frames on.
LEMMA CountSame ==
    ASSUME CountInv, setup' = setup, sent' = sent, first' = first, base' = base, stray' = stray,
           lg' = lg, InWay' \subseteq InWay, given'["back"] = given["back"]
    PROVE  CountInv'
<1>1. /\ lg'.checkAt # Never => setup'.mode = "Increment" /\ lg'.lastTxCount = CheckLossInterval
      /\ setup'.mode = "Increment" =>
           /\ lg'.lastTxCount = sent' + 1 - first' /\ lg'.lastTxCount <= CheckLossInterval
           /\ lg'.sendAt # Never => lg'.lastTxCount < CheckLossInterval
  BY Zenon DEF CountInv
<1> DEFINE gv == given["back"]
<1>2. given'["back"] = gv
  OBVIOUS
<1>3. /\ base \in 0 .. Len(gv) /\ lg.lastRxCount = (Len(gv) - base) % Word
      /\ \A i \in 1 .. base : gv[i] < first
      /\ ample /\ ~ stray =>
           InWay \subseteq first .. sent /\ \A i \in base + 1 .. Len(gv) : gv[i] >= first
  BY Zenon DEF CountInv
<1> HIDE DEF gv
<1>4. ample' = ample
  BY Zenon, SameAmple
<1>5. ample' /\ ~ stray' =>
        /\ InWay' \subseteq first' .. sent'
        /\ \A i \in base' + 1 .. Len(given'["back"]) : given'["back"][i] >= first'
  BY Zenon, <1>2, <1>3, <1>4
<1>6. /\ base' \in 0 .. Len(given'["back"]) /\ lg'.lastRxCount = (Len(given'["back"]) - base') % Word
      /\ \A i \in 1 .. base' : given'["back"][i] < first'
  BY Zenon, <1>2, <1>3
<1> QED BY Zenon, <1>1, <1>5, <1>6 DEF CountInv

\* The frame that processRxPkt() counts.
LEMMA CountReturned ==
    ASSUME GenType, CountInv, setup' = setup, sent' = sent, first' = first, base' = base,
           stray' = stray, sent \in Nat, processRxPkt, NEW f \in InWay, InWay' = InWay \ {f},
           f \in Frame, given["back"] \in Seq(Frame), given'["back"] = Append(given["back"], f)
    PROVE  CountInv'
<1> DEFINE gv == given["back"]
           gw == given'["back"]
           n == Len(gv)
<1>1. /\ lg' \in Gens /\ lg'.packetRate = lg.packetRate /\ lg'.checkAt = lg.checkAt
      /\ lg'.sendAt = lg.sendAt /\ lg'.lastTxCount = lg.lastTxCount
      /\ lg'.lastRxCount = (lg.lastRxCount + 1) % Word
  BY Zenon, ReceivedGen DEF GenType
<1>2. /\ n \in Nat /\ Len(gw) = n + 1 /\ gw[n + 1] = f
      /\ \A i \in 1 .. n : gw[i] = gv[i]
  BY AppendFrame
<1>3. base \in 0 .. n /\ lg.lastRxCount = (n - base) % Word /\ \A i \in 1 .. base : gv[i] < first
  BY Zenon DEF CountInv
<1> HIDE DEF gv, gw, n
<1>4. base \in 0 .. n + 1 /\ 1 .. base \subseteq 1 .. n /\ n - base \in Int
      /\ (n + 1) - base = (n - base) + 1
      /\ \A i \in base + 1 .. n + 1 : i = n + 1 \/ (i \in base + 1 .. n /\ i \in 1 .. n)
  BY <1>2, <1>3
<1>5. lg'.lastRxCount = ((n + 1) - base) % Word
  <2>1. Word \in Nat /\ Word > 0 /\ 1 \in Int
    BY ConstantFacts
  <2>2. (((n - base) % Word) + 1) % Word = ((n - base) + 1) % Word
    BY Zenon, <1>4, <2>1, ModSum
  <2> QED BY Zenon, <1>1, <1>3, <1>4, <2>2
<1>6. \A i \in 1 .. base : gw[i] < first
  BY Zenon, <1>2, <1>3, <1>4
<1>7. ASSUME ample, ~ stray
      PROVE  InWay' \subseteq first .. sent /\ \A i \in base + 1 .. n + 1 : gw[i] >= first
  <2>1. InWay \subseteq first .. sent /\ \A i \in base + 1 .. n : gv[i] >= first
    BY Zenon, <1>7 DEF CountInv, gv, n
  <2>2. f >= first
    <3>1. f \in first .. sent
      BY Zenon, <2>1
    <3> QED BY <3>1 DEF GenType
  <2> QED BY Zenon, <1>2, <1>4, <2>1, <2>2
<1>8. /\ base' \in 0 .. Len(given'["back"]) /\ lg'.lastRxCount = (Len(given'["back"]) - base') % Word
      /\ \A i \in 1 .. base' : given'["back"][i] < first'
  BY Zenon, <1>2, <1>4, <1>5, <1>6 DEF gw
<1>9. ample' /\ ~ stray' =>
        /\ InWay' \subseteq first' .. sent'
        /\ \A i \in base' + 1 .. Len(given'["back"]) : given'["back"][i] >= first'
  BY Zenon, <1>2, <1>7, SameAmple DEF gw
<1>10. /\ lg.checkAt # Never => setup.mode = "Increment" /\ lg.lastTxCount = CheckLossInterval
       /\ setup.mode = "Increment" =>
            /\ lg.lastTxCount = sent + 1 - first /\ lg.lastTxCount <= CheckLossInterval
            /\ lg.sendAt # Never => lg.lastTxCount < CheckLossInterval
  BY Zenon DEF CountInv
<1> QED BY Zenon, <1>1, <1>8, <1>9, <1>10 DEF CountInv

\* A frame is sent: it is the next of the interval.
LEMMA CountSent ==
    ASSUME IInv, GenType, CountInv, sendPacket, InWay' \subseteq InWay \cup {sent + 1}
    PROVE  CountInv'
<1>1. /\ setup' = setup /\ sent' = sent + 1 /\ first' = first /\ base' = base /\ stray' = stray
      /\ given' = given /\ sent \in Nat /\ first \in 1 .. sent + 1 /\ lg \in Gens
  BY Zenon DEF sendPacket, history, IInv, GenType
<1>2. /\ lg.checkAt = Never /\ lg.sendAt # Never /\ lg' \in Gens
      /\ lg'.lastTxCount = (lg.lastTxCount + 1) % Word /\ lg'.lastRxCount = lg.lastRxCount
      /\ lg'.checkAt # Never => setup.mode = "Increment" /\ lg'.lastTxCount = CheckLossInterval
      /\ setup.mode = "Increment" /\ lg'.sendAt # Never => lg'.lastTxCount # CheckLossInterval
  BY Zenon, SentGen
<1>3. ASSUME setup.mode = "Increment"
      PROVE  /\ lg'.lastTxCount = sent' + 1 - first /\ lg'.lastTxCount <= CheckLossInterval
             /\ lg'.sendAt # Never => lg'.lastTxCount < CheckLossInterval
  <2> DEFINE m == lg.lastTxCount
  <2>1. m = sent + 1 - first /\ m < CheckLossInterval /\ m \in Nat
    BY <1>1, <1>2, <1>3 DEF CountInv, Gens
  <2> HIDE DEF m
  <2>2. m + 1 \in 0 .. Word - 1
    BY <2>1, ConstantFacts
  <2>3. (m + 1) % Word = m + 1
    BY Zenon, <2>2, ConstantFacts, ModSmall
  <2>4. lg'.lastTxCount = m + 1
    BY Zenon, <1>2, <2>3 DEF m
  <2> QED BY <1>1, <1>2, <1>3, <2>1, <2>4, ConstantFacts
<1>4. ASSUME ample, ~ stray PROVE InWay' \subseteq first .. sent'
  <2>1. InWay \subseteq first .. sent
    BY Zenon, <1>4 DEF CountInv
  <2>2. sent + 1 \in first .. sent' /\ first .. sent \subseteq first .. sent'
    BY <1>1
  <2> QED BY Zenon, <2>1, <2>2
<1>5. /\ base \in 0 .. Len(given["back"]) /\ lg.lastRxCount = (Len(given["back"]) - base) % Word
      /\ \A i \in 1 .. base : given["back"][i] < first
      /\ ample /\ ~ stray => \A i \in base + 1 .. Len(given["back"]) : given["back"][i] >= first
  BY Zenon DEF CountInv
<1>6. ample' = ample
  BY Zenon, <1>1, SameAmple
<1>7. /\ lg'.checkAt # Never => setup'.mode = "Increment" /\ lg'.lastTxCount = CheckLossInterval
      /\ setup'.mode = "Increment" =>
           /\ lg'.lastTxCount = sent' + 1 - first' /\ lg'.lastTxCount <= CheckLossInterval
           /\ lg'.sendAt # Never => lg'.lastTxCount < CheckLossInterval
  BY Zenon, <1>1, <1>2, <1>3
<1>8. /\ base' \in 0 .. Len(given'["back"]) /\ lg'.lastRxCount = (Len(given'["back"]) - base') % Word
      /\ \A i \in 1 .. base' : given'["back"][i] < first'
  BY Zenon, <1>1, <1>2, <1>5
<1>9. ample' /\ ~ stray' =>
        /\ InWay' \subseteq first' .. sent'
        /\ \A i \in base' + 1 .. Len(given'["back"]) : given'["back"][i] >= first'
  BY Zenon, <1>1, <1>4, <1>5, <1>6
<1> QED BY Zenon, <1>7, <1>8, <1>9 DEF CountInv

\* The counters are reset.
LEMMA CountReset ==
    ASSUME GenType, sent \in Nat, setup' = setup, sent' = sent, first' = sent + 1,
           lg'.checkAt = Never, lg'.lastTxCount = 0, lg'.lastRxCount = 0,
           given["back"] \in Seq(Frame), given' = given, base' = Len(given["back"]),
           ample' /\ ~ stray' => InWay' = {}, RangeOf(given["back"]) \subseteq 1 .. sent
    PROVE  CountInv'
<1> DEFINE gv == given["back"]
           n == Len(gv)
<1>1. n \in Nat /\ DOMAIN gv = 1 .. n
  OBVIOUS
<1>2. \A i \in 1 .. n : gv[i] \in 1 .. sent
  BY Zenon, <1>1 DEF RangeOf
<1> HIDE DEF gv, n
<1>3. \A i \in 1 .. n : gv[i] < sent + 1
  BY <1>2
<1>4. n \in 0 .. n /\ n - n = 0 /\ n + 1 .. n = {}
  BY <1>1
<1>5. 0 % Word = 0
  <2>1. Word \in Nat /\ 0 \in 0 .. Word - 1
    BY ConstantFacts
  <2> QED BY Zenon, <2>1, ModSmall
<1>6. sent + 1 - (sent + 1) = 0 /\ 0 <= CheckLossInterval /\ 0 < CheckLossInterval
  BY ConstantFacts
<1> QED BY Zenon, <1>3, <1>4, <1>5, <1>6 DEF CountInv, gv, n

-----------------------------------------------------------------------------
(* The invariant                                                           *)

LEMMA NextGenType ==
    ASSUME IInv, GenType, PastInv, [Next]_vars
    PROVE  GenType'
<1>1. lg' \in Gens
  BY Zenon, NextGens
<1>2. /\ setup \in Setups /\ now \in Nat /\ sent \in Nat /\ dut.by \in Nat /\ DOMAIN dut = {"frames", "by"}
      /\ first \in 1 .. sent + 1 /\ stray \in BOOLEAN /\ restores \in 0 .. setup.maxRestores
  BY Zenon DEF IInv, GenType
<1>3. setup.maxRestores \in Nat /\ setup.dutDelay \in Nat
  BY Zenon, <1>2, SetupFacts
<1> DEFINE T == /\ DOMAIN dut' = {"frames", "by"} /\ dut'.by \in Nat
                /\ first' \in 1 .. sent' + 1 /\ stray' \in BOOLEAN
                /\ restores' \in 0 .. setup'.maxRestores
<1>4. CASE sendPacket
  <2>1. sent' = sent + 1 /\ dut' = dut /\ UNCHANGED <<setup, first, stray, restores>>
    BY Zenon, <1>4 DEF sendPacket, history
  <2>2. first \in 1 .. (sent + 1) + 1
    BY <1>2
  <2> QED BY Zenon, <1>1, <1>2, <2>1, <2>2 DEF GenType
<1>5. CASE checkLoss
  <2>1. UNCHANGED <<setup, sent, dut, restores>> /\ first' = sent + 1 /\ stray' = (stray /\ inFlight # {})
    BY Zenon, <1>5 DEF checkLoss
  <2>2. sent + 1 \in 1 .. sent + 1
    BY <1>2
  <2> QED BY Zenon, <1>1, <1>2, <2>1, <2>2 DEF GenType
<1>6. CASE restore
  <2>1. /\ UNCHANGED <<setup, sent, dut>> /\ first' = sent + 1 /\ stray' = (inFlight # {})
        /\ restores < setup.maxRestores /\ restores' = restores + 1
    BY Zenon, <1>6 DEF restore
  <2>2. sent + 1 \in 1 .. sent + 1 /\ restores + 1 \in 0 .. setup.maxRestores
    <3> DEFINE m == setup.maxRestores
    <3>1. m \in Nat /\ restores \in 0 .. m /\ restores < m
      BY Zenon, <1>2, <1>3, <2>1
    <3> HIDE DEF m
    <3>2. restores + 1 \in 0 .. m
      BY <3>1
    <3> QED BY <1>2, <3>2 DEF m
  <2> QED BY Zenon, <1>1, <1>2, <2>1, <2>2 DEF GenType
<1>7. CASE forward
  <2>1. UNCHANGED <<setup, sent, first, stray, restores>> /\ DOMAIN dut' = {"frames", "by"} /\ dut'.by = now + setup.dutDelay
    BY Zenon, <1>7 DEF forward, history
  <2> QED BY <1>1, <1>2, <1>3, <2>1 DEF GenType
<1>8. CASE advance \/ UNCHANGED vars
  <2>1. UNCHANGED <<setup, sent, dut, first, stray, restores>>
    BY Zenon, <1>8 DEF advance, vars, history
  <2> QED BY Zenon, <1>1, <1>2, <2>1 DEF GenType
<1>9. ASSUME NEW d \in Dir, transferDone(d) \/ queueEvent(d) PROVE GenType'
  <2>1. UNCHANGED <<setup, sent, first, stray, restores>>
    BY Zenon, <1>9 DEF transferDone, queueEvent, history
  <2>2. \/ dut' = dut
        \/ /\ DOMAIN dut' = {"frames", "by"}
           /\ dut'.by = IF dut.frames = <<>> THEN now + setup.dutDelay ELSE dut.by
    BY Zenon, <1>9, ArriveEffect
  <2> QED BY <1>1, <1>2, <1>3, <2>1, <2>2 DEF GenType
<1> QED BY Zenon, <1>4, <1>5, <1>6, <1>7, <1>8, <1>9 DEF Next

LEMMA InitLoss == Init => LossInv
<1> SUFFICES ASSUME Init PROVE LossInv
  BY Zenon
<1>1. IInv /\ Shape /\ FlowInv
  BY Zenon, InitInv, InitFlow
<1>2. /\ setup \in Setups /\ now = 0 /\ lg = startup(0) /\ link = [d \in Dir |-> idleLink]
      /\ dut = [frames |-> <<>>, by |-> 0] /\ sent = 0 /\ first = 1 /\ base = 0 /\ lost = {}
      /\ stray = FALSE
      /\ restores = 0 /\ taken["out"] = <<>> /\ taken["back"] = <<>> /\ given["out"] = <<>>
      /\ given["back"] = <<>>
  BY Zenon DEF Init, Dir
<1>3. /\ lg \in Gens /\ lg.checkAt = Never /\ (lg.sendAt = Never \/ lg.sendAt > 0)
      /\ lg.lastTxCount = 0 /\ lg.lastRxCount = 0
  BY Zenon, <1>2, StartupGen
<1>4. setup.maxRestores \in Nat
  BY Zenon, <1>2, SetupFacts
<1>5. PastInv
  <2>1. lg.sendAt \in Int
    BY <1>3 DEF Gens, Time, Never
  <2>2. lg.sendAt > 0 => ~ (lg.sendAt < 0)
    BY <2>1
  <2> QED BY Zenon, <1>2, <1>3, <2>2 DEF PastInv
<1>6. GenType
  <2>1. 1 \in 1 .. 0 + 1 /\ 0 \in 0 .. setup.maxRestores
    BY <1>4
  <2> QED BY Zenon, <1>2, <1>3, <2>1 DEF GenType
<1>7. OutPart = {} /\ DutPart = {} /\ BackPart = {} /\ Counted = {} /\ RangeOf(taken["out"]) = {}
  BY <1>2 DEF OutPart, DutPart, BackPart, Counted, Part, RangeOf
<1>8. InWay = {} /\ 1 .. sent = {}
  BY <1>2, <1>7 DEF InWay
<1>9. PlaceInv
  BY <1>2, <1>7, <1>8 DEF PlaceInv, Distinct
<1>10. CountInv
  <2>1. Len(given["back"]) = 0 /\ 0 \in 0 .. 0 /\ 0 - 0 = 0 /\ 1 .. 0 = {} /\ 0 + 1 = 1 /\ 1 - 1 = 0
    BY <1>2
  <2>2. 0 < CheckLossInterval /\ 0 <= CheckLossInterval /\ Word \in Nat /\ 0 \in 0 .. Word - 1
    BY ConstantFacts
  <2>3. 0 % Word = 0
    BY Zenon, <2>2, ModSmall
  <2>4. given["back"] = <<>> /\ sent = 0 /\ first = 1 /\ base = 0
    BY Zenon, <1>2
  <2>5. /\ base \in 0 .. Len(given["back"]) /\ lg.lastRxCount = (Len(given["back"]) - base) % Word
        /\ \A i \in 1 .. base : given["back"][i] < first
        /\ \A i \in base + 1 .. Len(given["back"]) : given["back"][i] >= first
    BY <1>3, <2>1, <2>3, <2>4
  <2>6. lg.lastTxCount = sent + 1 - first /\ lg.lastTxCount < CheckLossInterval
        /\ lg.lastTxCount <= CheckLossInterval
    BY <1>3, <2>2, <2>4
  <2> QED BY Zenon, <1>3, <1>8, <2>5, <2>6 DEF CountInv
<1>11. TimeInv
  <2>1. ~ busy(link["out"]) /\ ~ busy(link["back"]) /\ DOMAIN link["out"].txQueue = {}
        /\ DOMAIN link["back"].txQueue = {}
    BY <1>2 DEF idleLink, busy, Dir
  <2>2. Ahead = 0
    BY <1>2 DEF Ahead
  <2> QED BY <1>2, <1>3, <2>1, <2>2 DEF TimeInv, Timely, Until
<1> QED BY Zenon, <1>1, <1>5, <1>6, <1>9, <1>10, <1>11 DEF LossInv

LEMMA NextLoss == LossInv /\ [Next]_vars => LossInv'
<1> SUFFICES ASSUME LossInv, [Next]_vars PROVE LossInv'
  BY Zenon
<1>1. IInv /\ Shape /\ FlowInv /\ PlaceInv /\ GenType /\ PastInv /\ CountInv /\ TimeInv
  BY Zenon DEF LossInv
<1>2. IInv' /\ Shape' /\ FlowInv'
  BY Zenon, <1>1, NextInv, NextFlow
<1>3. PastInv' /\ GenType'
  BY Zenon, <1>1, NextGens, NextGenType
<1>4. /\ sent \in Nat /\ Counted \subseteq 1 .. sent /\ inFlight = InWay
      /\ given["back"] \in Seq(Frame) /\ DOMAIN given = Dir
  BY Zenon, <1>1, InFlightWay, SequenceTypes DEF IInv, PlaceInv, Dir, Shape
<1> SUFFICES PlaceInv' /\ CountInv' /\ TimeInv'
  BY Zenon, <1>2, <1>3 DEF LossInv
<1>5. CASE sendPacket /\ (Refuses \/ Accepts)
  <2>1. PlaceInv' /\ InWay' \subseteq InWay \cup {sent + 1}
    BY Zenon, <1>1, <1>5, PlaceRefuses, PlaceAccepts
  <2>2. CountInv'
    BY Zenon, <1>1, <1>4, <1>5, <2>1, CountSent
  <2>3. TimeInv'
    BY Zenon, <1>1, <1>5, <2>2, TimeSent
  <2> QED BY Zenon, <2>1, <2>2, <2>3
<1>6. CASE forward /\ Leaves
  <2>1. PlaceInv' /\ InWay' = InWay /\ given' = given
    BY Zenon, <1>1, <1>6, PlaceLeaves DEF Leaves
  <2>2. CountInv'
    BY Zenon, <1>1, <1>6, <2>1, CountSame DEF forward, history
  <2>3. TimeInv'
    BY Zenon, <1>1, <1>2, <1>3, <1>6, TimeForward
  <2> QED BY Zenon, <2>1, <2>2, <2>3
<1>7. ASSUME NEW d \in Dir, NEW f \in Frame,
             (transferDone(d) /\ setup.linkDelay = 0) \/ queueEvent(d),
             (d = "out" /\ Arrives(f) /\ lg' = lg) \/ (d = "back" /\ Returns(f) /\ processRxPkt)
      PROVE  PlaceInv' /\ CountInv' /\ TimeInv'
  <2>1. setup' = setup /\ sent' = sent /\ first' = first /\ base' = base /\ stray' = stray
    BY Zenon, <1>7 DEF transferDone, queueEvent, history
  <2>2. TimeInv'
    BY Zenon, <1>1, <1>2, <1>3, <1>7, TimeDelivers
  <2>3. CASE d = "out" /\ Arrives(f) /\ lg' = lg
    <3>1. PlaceInv' /\ InWay' \subseteq InWay /\ Counted' = Counted
      BY Zenon, <1>1, <2>3, PlaceArrives
    <3>2. given'["back"] = given["back"]
      BY Zenon, <1>4, <2>3 DEF Arrives, Dir
    <3> QED BY Zenon, <1>1, <2>1, <2>2, <2>3, <3>1, <3>2, CountSame
  <2>4. CASE d = "back" /\ Returns(f) /\ processRxPkt
    <3>1. /\ PlaceInv' /\ f \in InWay /\ InWay' = InWay \ {f}
          /\ f \notin Counted /\ Counted' = Counted \cup {f}
      BY Zenon, <1>1, <2>4, PlaceReturns
    <3>2. given'["back"] = Append(given["back"], f)
      BY Zenon, <1>4, <2>4 DEF Returns, Dir
    <3>3. CountInv'
      BY Zenon, <1>1, <1>4, <1>7, <2>1, <2>4, <3>1, <3>2, CountReturned
    <3> QED BY Zenon, <2>2, <3>1, <3>3
  <2> QED BY Zenon, <1>7, <2>3, <2>4
<1>8. ASSUME Quiet PROVE PlaceInv' /\ InWay' = InWay /\ given' = given
  BY Zenon, <1>1, <1>8, PlaceQuiet DEF Quiet
<1>9. CASE Quiet /\ (checkLoss \/ restore)
  <2>1. setup' = setup /\ sent' = sent /\ first' = sent + 1 /\ base' = Len(given["back"])
    BY Zenon, <1>9 DEF checkLoss, restore
  <2>2. ample' /\ ~ stray' => InWay' = {}
    <3>1. CASE checkLoss
      <4>1. stray' = (stray /\ inFlight # {})
        BY Zenon, <3>1 DEF checkLoss
      <4>2. ample /\ ~ stray => inFlight = {}
        BY Zenon, <1>1, <3>1, AllBack
      <4> QED BY Zenon, <1>4, <1>8, <1>9, <2>1, <4>1, <4>2, SameAmple
    <3>2. CASE restore
      <4>1. stray' = (inFlight # {})
        BY Zenon, <3>2 DEF restore
      <4> QED BY Zenon, <1>4, <1>8, <1>9, <4>1
    <3> QED BY Zenon, <1>9, <3>1, <3>2
  <2>3. lg'.checkAt = Never /\ lg'.lastTxCount = 0 /\ lg'.lastRxCount = 0
    <3>1. CASE checkLoss
      BY Zenon, <1>1, <3>1, CheckedGen
    <3>2. CASE restore
      <4>1. lg' = startup(now) /\ now \in Nat /\ setup \in Setups
        BY Zenon, <1>1, <3>2 DEF restore, IInv
      <4> QED BY Zenon, <4>1, StartupGen
    <3> QED BY Zenon, <1>9, <3>1, <3>2
  <2>4. RangeOf(given["back"]) \subseteq 1 .. sent
    BY Zenon, <1>4 DEF Counted
  <2>5. CountInv'
    BY Zenon, <1>1, <1>4, <1>8, <1>9, <2>1, <2>2, <2>3, <2>4, CountReset
  <2>6. TimeInv'
    BY Zenon, <1>2, <1>3, <2>2, TimeReset
  <2> QED BY Zenon, <1>8, <1>9, <2>5, <2>6
<1>10. CASE Quiet /\ advance
  <2>1. CountInv'
    BY Zenon, <1>1, <1>8, <1>10, CountSame DEF advance, history
  <2>2. TimeInv'
    BY Zenon, <1>1, <1>10, TimeAdvance
  <2> QED BY Zenon, <1>8, <1>10, <2>1, <2>2
<1>11. CASE UNCHANGED vars
  <2>1. Quiet /\ UNCHANGED <<setup, now, lg, link, dut, sent, lost, taken, given, first, base,
                         stray, restores>>
    BY Zenon, <1>11 DEF vars, history, Quiet
  <2>2. CountInv'
    BY Zenon, <1>1, <1>8, <2>1, CountSame
  <2>3. TimeInv'
    BY Zenon, <1>1, <2>1, SameAmple DEF TimeInv, Ahead, Credit, Turn, LastSent, Timely
  <2> QED BY Zenon, <1>8, <2>1, <2>2, <2>3
<1>12. ASSUME Quiet, NEW d \in Dir, transferDone(d), setup.linkDelay > 0, lg' = lg
       PROVE  PlaceInv' /\ CountInv' /\ TimeInv'
  <2>1. setup' = setup /\ sent' = sent /\ first' = first /\ base' = base /\ stray' = stray
    BY Zenon, <1>12 DEF transferDone, history
  <2>2. CountInv'
    BY Zenon, <1>1, <1>8, <1>12, <2>1, CountSame
  <2>3. TimeInv'
    BY Zenon, <1>1, <1>2, <1>3, <1>12, TimeMoves
  <2> QED BY Zenon, <1>8, <1>12, <2>2, <2>3
<1> QED BY Zenon, <1>1, <1>5, <1>6, <1>7, <1>9, <1>10, <1>11, <1>12, PlaceStep
-----------------------------------------------------------------------------
(* What checkLoss() sees                                                   *)

\* The sizes of two parts of a set.
LEMMA PartsCount ==
    \A A, B : IsFiniteSet(A \cup B) /\ A \cap B = {} =>
      /\ IsFiniteSet(A) /\ IsFiniteSet(B) /\ Cardinality(A) \in Nat /\ Cardinality(B) \in Nat
      /\ Cardinality(A \cup B) = Cardinality(A) + Cardinality(B)
<1> SUFFICES ASSUME NEW A, NEW B, IsFiniteSet(A \cup B), A \cap B = {}
             PROVE  /\ IsFiniteSet(A) /\ IsFiniteSet(B)
                    /\ Cardinality(A) \in Nat /\ Cardinality(B) \in Nat
                    /\ Cardinality(A \cup B) = Cardinality(A) + Cardinality(B)
  BY Zenon
<1>1. IsFiniteSet(A) /\ IsFiniteSet(B)
  BY FS_Subset
<1>2. Cardinality(A) \in Nat /\ Cardinality(B) \in Nat /\ Cardinality({}) = 0
  BY Zenon, <1>1, FS_CardinalityType, FS_EmptySet
<1>3. Cardinality(A \cup B) = Cardinality(A) + Cardinality(B) - Cardinality(A \cap B)
  BY Zenon, <1>1, FS_Union
<1>4. Cardinality(A \cup B) = Cardinality(A) + Cardinality(B) - 0
  BY Zenon, <1>2, <1>3
<1> QED BY <1>1, <1>2, <1>4

\* The places of a sequence of distinct elements are as many as the elements there.
LEMMA PlacesCount ==
    ASSUME NEW s, NEW K, IsFiniteSet(K), \A i, j \in K : s[i] = s[j] => i = j
    PROVE  Cardinality({s[i] : i \in K}) = Cardinality(K)
<1> DEFINE R == {s[i] : i \in K}
           h == [i \in K |-> s[i]]
<1>1. h \in [K -> R] /\ \A i, j \in K : h[i] = h[j] => i = j
  BY Zenon
<1>2. \A y \in R : \E i \in K : h[i] = y
  BY Zenon
<1> HIDE DEF h, R
<1>3. h \in Bijection(K, R)
  BY <1>1, <1>2, Zenon DEF Bijection, Injection, Surjection, IsInjective
<1>4. ExistsBijection(K, R)
  BY Zenon, <1>3 DEF ExistsBijection
<1> QED BY Zenon, <1>4, FS_Bijection DEF R

\* A sequence of distinct elements is as long as its range is large.
LEMMA DistinctCount ==
    ASSUME NEW T, NEW s \in Seq(T), Distinct(s)
    PROVE  Cardinality(RangeOf(s)) = Len(s)
<1>1. DOMAIN s = 1 .. Len(s) /\ Len(s) \in Nat
  OBVIOUS
<1>2. IsFiniteSet(1 .. Len(s)) /\ Cardinality(1 .. Len(s)) = Len(s)
  BY SMTT(30), <1>1, FS_Interval
<1>3. IsFiniteSet(DOMAIN s) /\ Cardinality(DOMAIN s) = Len(s)
  BY Zenon, <1>1, <1>2
<1>4. \A i, j \in DOMAIN s : s[i] = s[j] => i = j
  BY Zenon DEF Distinct
<1>5. Cardinality({s[i] : i \in DOMAIN s}) = Cardinality(DOMAIN s)
  BY Zenon, <1>3, <1>4, PlacesCount
<1> QED BY Zenon, <1>3, <1>5 DEF RangeOf

\* Every frame that was delivered back has left the link.
LEMMA CountedApart ==
    ASSUME IInv, Shape, FlowInv, PlaceInv
    PROVE  /\ BackPart \cap Counted = {} /\ Distinct(given["back"])
           /\ RangeOf(given["back"]) \subseteq 1 .. sent /\ RangeOf(taken["back"]) \subseteq 1 .. sent
           /\ RangeOf(given["out"]) \subseteq 1 .. sent
<1> DEFINE tk == taken["back"]
           gv == given["back"]
           to == taken["out"]
           go == given["out"]
<1>1. /\ tk \in Seq(Frame) /\ gv \in Seq(Frame) /\ Len(gv) \in 0 .. Len(tk) /\ Len(tk) \in Nat
      /\ to \in Seq(Frame) /\ go \in Seq(Frame) /\ Len(go) \in 0 .. Len(to) /\ Len(to) \in Nat
  BY Zenon, SequenceTypes DEF Dir
<1>2. /\ \A i \in 1 .. Len(gv) : gv[i] = tk[i]
      /\ \A i \in 1 .. Len(go) : go[i] = to[i]
  BY Zenon DEF FlowInv, Flow, Dir
<1>3. /\ DOMAIN gv = 1 .. Len(gv) /\ DOMAIN tk = 1 .. Len(tk)
      /\ DOMAIN go = 1 .. Len(go) /\ DOMAIN to = 1 .. Len(to)
  BY <1>1
<1>4. Distinct(tk) /\ RangeOf(to) \subseteq 1 .. sent /\ BackPart \subseteq 1 .. sent
      /\ Counted \subseteq 1 .. sent
  BY Zenon DEF PlaceInv
<1>5. \A i \in DOMAIN gv : i \in DOMAIN tk /\ i <= Len(gv)
  BY <1>1, <1>3
<1>6. Distinct(gv)
  BY Zenon, <1>2, <1>3, <1>4, <1>5 DEF Distinct
<1>7. BackPart \cap Counted = {}
  <2> SUFFICES ASSUME NEW i \in Len(gv) + 1 .. Len(tk), NEW j \in DOMAIN gv, tk[i] = gv[j]
               PROVE  FALSE
    BY Zenon DEF BackPart, Part, Counted, RangeOf
  <2>1. i \in DOMAIN tk /\ j \in DOMAIN tk /\ tk[j] = gv[j] /\ i # j
    BY <1>1, <1>2, <1>3
  <2> QED BY Zenon, <1>4, <2>1 DEF Distinct
<1>8. RangeOf(tk) \subseteq 1 .. sent
  <2> SUFFICES ASSUME NEW i \in 1 .. Len(tk) PROVE tk[i] \in 1 .. sent
    BY Zenon, <1>3 DEF RangeOf
  <2>1. CASE i <= Len(gv)
    <3>1. i \in 1 .. Len(gv)
      BY <1>1, <2>1
    <3>2. gv[i] \in Counted
      BY Zenon, <1>3, <3>1 DEF Counted, RangeOf
    <3> QED BY Zenon, <1>2, <1>4, <3>1, <3>2
  <2>2. CASE ~ (i <= Len(gv))
    <3>1. i \in Len(gv) + 1 .. Len(tk)
      BY <1>1, <2>2
    <3>2. tk[i] \in BackPart
      BY Zenon, <3>1 DEF BackPart, Part
    <3> QED BY Zenon, <1>4, <3>2
  <2> QED BY Zenon, <2>1, <2>2
<1>9. RangeOf(go) \subseteq RangeOf(to)
  <2>1. \A i \in DOMAIN go : i \in DOMAIN to /\ go[i] = to[i]
    BY <1>1, <1>2, <1>3
  <2> QED BY Zenon, <2>1 DEF RangeOf
<1> QED BY Zenon, <1>4, <1>6, <1>7, <1>8, <1>9 DEF Counted

LEMMA LossConserved == LossInv => Conserved
<1> SUFFICES ASSUME LossInv PROVE Conserved
  BY Zenon
<1>1. IInv /\ Shape /\ FlowInv /\ PlaceInv
  BY Zenon DEF LossInv
<1>2. inFlight = InWay /\ sent \in Nat
  BY Zenon, <1>1, InFlightWay DEF IInv
<1>3. BackPart \cap Counted = {} /\ Distinct(given["back"]) /\ given["back"] \in Seq(Frame)
  BY Zenon, <1>1, CountedApart, SequenceTypes DEF Dir
<1>4. /\ lost \cap (InWay \cup Counted) = {} /\ InWay \cap Counted = {}
      /\ 1 .. sent = lost \cup (InWay \cup Counted)
  BY Zenon, <1>1, <1>3 DEF PlaceInv, InWay
<1> DEFINE U == 1 .. sent
           W == InWay \cup Counted
<1>5. IsFiniteSet(U) /\ Cardinality(U) = sent
  BY <1>2, FS_Interval
<1> HIDE DEF U
<1>6. U = lost \cup W /\ lost \cap W = {}
  BY Zenon, <1>4 DEF U
<1> HIDE DEF W
<1>7. /\ IsFiniteSet(lost) /\ IsFiniteSet(W) /\ Cardinality(lost) \in Nat
      /\ Cardinality(W) \in Nat /\ Cardinality(U) = Cardinality(lost) + Cardinality(W)
  BY Zenon, <1>5, <1>6, PartsCount
<1>8. /\ Cardinality(InWay) \in Nat /\ Cardinality(Counted) \in Nat
      /\ Cardinality(W) = Cardinality(InWay) + Cardinality(Counted)
  <2>1. W = InWay \cup Counted
    BY Zenon DEF W
  <2> QED BY Zenon, <1>4, <1>7, <2>1, PartsCount
<1>9. Cardinality(Counted) = Len(given["back"])
  BY Zenon, <1>3, DistinctCount DEF Counted
<1>10. sent = Cardinality(lost) + Cardinality(InWay) + Len(given["back"])
  BY <1>5, <1>7, <1>8, <1>9
<1> QED BY Zenon, <1>2, <1>4, <1>10 DEF Conserved, Counted

\* The frames that came back in an interval are late ones and frames of it.
LEMMA BackCount ==
    ASSUME LossInv
    PROVE  /\ Cardinality(late) \in Nat /\ Cardinality(Counted \cap first .. sent) \in Nat
           /\ Len(given["back"]) - base = Cardinality(late) + Cardinality(Counted \cap first .. sent)
<1> DEFINE gv == given["back"]
           n == Len(gv)
           K == base + 1 .. n
           E == {i \in K : gv[i] >= first}
           B == Counted \cap first .. sent
<1>1. IInv /\ Shape /\ FlowInv /\ PlaceInv /\ GenType /\ CountInv
  BY Zenon DEF LossInv
<1>2. gv \in Seq(Frame) /\ Distinct(gv) /\ RangeOf(gv) \subseteq 1 .. sent
  BY Zenon, <1>1, CountedApart, SequenceTypes DEF Dir
<1>3. /\ n \in Nat /\ DOMAIN gv = 1 .. n /\ base \in 0 .. n
      /\ \A i \in 1 .. base : gv[i] < first
  BY <1>1, <1>2 DEF CountInv
<1>4. first \in Nat /\ sent \in Nat
  BY <1>1 DEF GenType, IInv
<1>5. \A i \in 1 .. n : gv[i] \in 1 .. sent
  BY Zenon, <1>2, <1>3 DEF RangeOf
<1>6. IsFiniteSet(K) /\ Cardinality(K) = n - base
  <2>1. base + 1 \in Int /\ n \in Int
    BY <1>3
  <2>2. IsFiniteSet(K) /\ Cardinality(K) = IF base + 1 > n THEN 0 ELSE n - (base + 1) + 1
    <3> HIDE DEF n
    <3> QED BY Zenon, <2>1, FS_Interval
  <2> HIDE DEF K, n
  <2> QED BY <1>3, <2>2
<1>7. late = {i \in K : gv[i] < first}
  BY Zenon DEF late
<1> HIDE DEF gv, n
<1>8. K \subseteq 1 .. n /\ \A i \in 1 .. n : i \in K \/ i \in 1 .. base
  BY <1>3
<1> HIDE DEF K
<1>9. \A i \in K : gv[i] \in Nat
  BY <1>5, <1>8
<1>10. \A i \in K : (gv[i] < first) = ~ (gv[i] >= first)
  BY <1>4, <1>9
<1>11. K = late \cup E /\ late \cap E = {}
  BY Zenon, <1>7, <1>10
<1>12. B = {gv[i] : i \in E}
  <2>1. ASSUME NEW f \in B PROVE f \in {gv[i] : i \in E}
    <3>1. PICK i \in 1 .. n : gv[i] = f
      BY Zenon, <1>3 DEF Counted, RangeOf, gv
    <3>2. f \in first .. sent
      BY Zenon
    <3>3. f >= first /\ ~ (f < first)
      BY <1>4, <3>2
    <3>4. i \in K
      BY Zenon, <1>3, <1>8, <3>1, <3>3
    <3> QED BY Zenon, <3>1, <3>3, <3>4
  <2>2. ASSUME NEW i \in E PROVE gv[i] \in B
    <3>1. i \in 1 .. n /\ gv[i] >= first /\ gv[i] \in 1 .. sent
      BY Zenon, <1>5, <1>8
    <3>2. gv[i] \in first .. sent
      BY <1>4, <3>1
    <3>3. gv[i] \in Counted
      BY Zenon, <1>3, <3>1 DEF Counted, RangeOf, gv
    <3> QED BY Zenon, <3>2, <3>3
  <2> HIDE DEF B, E
  <2> QED BY Zenon, <2>1, <2>2
<1>13. \A i, j \in E : gv[i] = gv[j] => i = j
  BY Zenon, <1>2, <1>3, <1>8 DEF Distinct
<1> HIDE DEF E, B
<1>14. /\ IsFiniteSet(E) /\ Cardinality(late) \in Nat /\ Cardinality(E) \in Nat
       /\ n - base = Cardinality(late) + Cardinality(E)
  BY Zenon, <1>6, <1>11, PartsCount
<1>15. Cardinality(B) = Cardinality(E)
  BY Zenon, <1>12, <1>13, <1>14, PlacesCount
<1> QED BY Zenon, <1>14, <1>15 DEF B, n, gv

\* What checkLoss() compares with the tolerance.
LEMMA CheckVerdict ==
    ASSUME LossInv, checkLoss
    PROVE  IF (Cardinality(missing) - Cardinality(late)) % Word < Tolerance
           THEN lg'.packetRate = (lg.packetRate + setup.incrementInterval) % RateWord
           ELSE lg'.packetRate <= lg.packetRate
<1> DEFINE U == first .. sent
           B == Counted \cap U
           m == Cardinality(missing)
           l == Cardinality(late)
           b == Cardinality(B)
           n == Len(given["back"]) - base
           w == (m - l) % Word
<1>1. IInv /\ GenType /\ CountInv
  BY Zenon DEF LossInv
<1>2. lg.checkAt # Never /\ sent \in Nat /\ first \in 1 .. sent + 1
  BY <1>1 DEF checkLoss, IInv, GenType, Never
<1>3. lg.lastTxCount = sent + 1 - first /\ lg.lastRxCount = n % Word
  BY Zenon, <1>1, <1>2 DEF CountInv
<1>4. l \in Nat /\ b \in Nat /\ n = l + b
  BY Zenon, BackCount
<1>5. IsFiniteSet(U) /\ Cardinality(U) = sent + 1 - first
  <2>1. first \in Int /\ sent \in Int
    BY <1>2
  <2>2. IsFiniteSet(U) /\ Cardinality(U) = IF first > sent THEN 0 ELSE sent - first + 1
    BY Zenon, <2>1, FS_Interval
  <2> HIDE DEF U
  <2> QED BY <1>2, <2>2
<1>6. missing = U \ Counted
  BY Zenon DEF missing, Counted
<1> HIDE DEF U
<1>7. U = missing \cup B /\ missing \cap B = {}
  BY Zenon, <1>6
<1> HIDE DEF B
<1>8. m \in Nat /\ sent + 1 - first = m + b
  BY Zenon, <1>5, <1>7, PartsCount
<1> HIDE DEF m, l, b, n
<1>9. (lg.lastTxCount - lg.lastRxCount) % Word = w
  <2>1. Word \in Nat /\ Word > 0 /\ n \in Int /\ m + b \in Int /\ (m + b) - n = m - l
    BY <1>4, <1>8, ConstantFacts
  <2>2. ((m + b) - (n % Word)) % Word = ((m + b) - n) % Word
    BY Zenon, <2>1, ModSum
  <2> QED BY Zenon, <1>3, <1>8, <2>1, <2>2
<1>10. w \in Nat /\ Tolerance \in Nat
  <2>1. m - l \in Int /\ Word \in Nat /\ Word > 0
    BY <1>4, <1>8, ConstantFacts
  <2>2. w \in 0 .. Word - 1
    BY Zenon, <2>1, ModRange
  <2> HIDE DEF w
  <2> QED BY <2>2, ConstantFacts
<1> HIDE DEF w
<1>11. w < Tolerance <=> ~ (w >= Tolerance)
  BY <1>10
<1>12. lossDetected <=> w >= Tolerance
  BY Zenon, <1>9 DEF lossDetected
<1>13. /\ ~ lossDetected => lg'.packetRate = (lg.packetRate + setup.incrementInterval) % RateWord
       /\ lossDetected => lg'.packetRate <= lg.packetRate
  BY Zenon, <1>1, CheckedRate
<1>14. IF w < Tolerance
       THEN lg'.packetRate = (lg.packetRate + setup.incrementInterval) % RateWord
       ELSE lg'.packetRate <= lg.packetRate
  BY Zenon, <1>11, <1>12, <1>13
<1> QED BY Zenon, <1>14 DEF w, m, l

\* With an ample allowance checkLoss() runs when all frames are back.
LEMMA CheckTime ==
    ASSUME LossInv, checkLoss, ample, ~ stray
    PROVE  inFlight = {} /\ late = {}
<1>1. IInv /\ Shape /\ FlowInv /\ GenType /\ CountInv /\ TimeInv /\ PlaceInv
  BY Zenon DEF LossInv
<1>2. inFlight = {}
  BY Zenon, <1>1, AllBack
<1> DEFINE gv == given["back"]
           K == base + 1 .. Len(gv)
<1>3. \A i \in K : gv[i] >= first
  BY Zenon, <1>1 DEF CountInv
<1>4. /\ gv \in Seq(Frame) /\ base \in 0 .. Len(gv) /\ first \in 1 .. sent + 1
      /\ RangeOf(gv) \subseteq 1 .. sent /\ sent \in Nat
  BY Zenon, <1>1, SequenceTypes, CountedApart DEF CountInv, Dir, GenType, IInv
<1>5. K \subseteq DOMAIN gv
  BY <1>4
<1>6. \A i \in K : gv[i] \in 1 .. sent
  BY Zenon, <1>4, <1>5 DEF RangeOf
<1> HIDE DEF gv, K
<1>7. \A i \in K : ~ (gv[i] < first)
  BY <1>3, <1>4, <1>6
<1>8. late = {}
  BY Zenon, <1>7 DEF late, gv, K
<1> QED BY Zenon, <1>2, <1>8
-----------------------------------------------------------------------------
(* The theorems                                                            *)

\* The variables are functions and records.
Functional ==
    /\ link = [d \in Dir |-> link[d]] /\ taken = [d \in Dir |-> taken[d]]
    /\ given = [d \in Dir |-> given[d]] /\ dut = [frames |-> dut.frames, by |-> dut.by]

LEMMA ExceptFunction ==
    ASSUME NEW f, f = [d \in Dir |-> f[d]], NEW e, NEW v, NEW g, g = [f EXCEPT ![e] = v]
    PROVE  g = [d \in Dir |-> g[d]]
BY Zenon

LEMMA NextFunctional == Functional /\ [Next]_vars => Functional'
<1> SUFFICES ASSUME Functional, [Next]_vars PROVE Functional'
  BY Zenon
<1>1. /\ link = [d \in Dir |-> link[d]] /\ taken = [d \in Dir |-> taken[d]]
      /\ given = [d \in Dir |-> given[d]] /\ dut = [frames |-> dut.frames, by |-> dut.by]
  BY Zenon DEF Functional
<1>2. \/ dut' = dut
      \/ \E q, t : dut' = [frames |-> q, by |-> t]
  BY Zenon DEF Next, vars, sendPacket, checkLoss, forward, advance, restore, transferDone, queueEvent, txComplete
<1>3. taken' = taken \/ \E e \in Dir : \E v : taken' = [taken EXCEPT ![e] = v]
  <2>1. CASE sendPacket
    BY Zenon, <2>1 DEF sendPacket, Dir
  <2>2. CASE forward
    BY Zenon, <2>2 DEF forward, Dir
  <2>3. CASE ~ sendPacket /\ ~ forward
    BY Zenon, <2>3 DEF Next, vars, checkLoss, advance, restore, transferDone, queueEvent
  <2> QED BY Zenon, <2>1, <2>2, <2>3
<1>4. given' = given \/ \E e \in Dir : \E v : given' = [given EXCEPT ![e] = v]
  <2>1. ASSUME NEW d \in Dir, transferDone(d) \/ queueEvent(d)
        PROVE  given' = given \/ \E e \in Dir : \E v : given' = [given EXCEPT ![e] = v]
    BY Zenon, <2>1 DEF transferDone, queueEvent, txComplete
  <2>2. CASE ~ \E d \in Dir : transferDone(d) \/ queueEvent(d)
    BY Zenon, <2>2 DEF Next, vars, sendPacket, forward, checkLoss, advance, restore
  <2> QED BY Zenon, <2>1, <2>2
<1>5. \/ link' = link
      \/ \E e \in Dir : \E v : link' = [link EXCEPT ![e] = v]
      \/ link' = [d \in Dir |-> restored(link[d])]
  <2>1. CASE sendPacket
    BY Zenon, <2>1 DEF sendPacket, Dir
  <2>2. CASE forward
    BY Zenon, <2>2 DEF forward, Dir
  <2>3. CASE checkLoss \/ advance \/ restore \/ UNCHANGED vars
    BY Zenon, <2>3 DEF vars, checkLoss, advance, restore
  <2>4. ASSUME NEW d \in Dir, transferDone(d) \/ queueEvent(d)
        PROVE  \E e \in Dir : \E v : link' = [link EXCEPT ![e] = v]
    BY Zenon, <2>4 DEF transferDone, queueEvent
  <2> QED BY Zenon, <2>1, <2>2, <2>3, <2>4 DEF Next
<1>6. dut' = [frames |-> dut'.frames, by |-> dut'.by]
  BY Zenon, <1>1, <1>2
<1>7. taken' = [d \in Dir |-> taken'[d]]
  BY Zenon, <1>1, <1>3, ExceptFunction
<1>8. given' = [d \in Dir |-> given'[d]]
  BY Zenon, <1>1, <1>4, ExceptFunction
<1>9. link' = [d \in Dir |-> link'[d]]
  BY Zenon, <1>1, <1>5, ExceptFunction
<1> QED BY Zenon, <1>6, <1>7, <1>8, <1>9 DEF Functional

LEMMA InitFunctional == Init => Functional
BY Zenon DEF Init, Functional

\* A sequence over the set its elements are in.
LEMMA SeqNarrow ==
    ASSUME NEW T, NEW S, NEW s \in Seq(T), RangeOf(s) \subseteq S
    PROVE  s \in Seq(S)
<1>1. DOMAIN s = 1 .. Len(s) /\ Len(s) \in Nat
  OBVIOUS
<1>2. \A i \in 1 .. Len(s) : s[i] \in S
  BY Zenon, <1>1 DEF RangeOf
<1>3. s = [i \in 1 .. Len(s) |-> s[i]]
  BY <1>1
<1>4. s \in [1 .. Len(s) -> S]
  BY Zenon, <1>2, <1>3
<1> QED BY <1>1, <1>4

LEMMA LossTypes == LossInv /\ Functional => TypeOK
<1> SUFFICES ASSUME LossInv, Functional PROVE TypeOK
  BY Zenon
<1>1. IInv /\ Shape /\ FlowInv /\ PlaceInv /\ GenType /\ CountInv
  BY Zenon DEF LossInv
<1>2. setup \in Setups /\ now \in Nat /\ sent \in Nat /\ lg \in Gens
  BY Zenon, <1>1 DEF IInv, GenType
<1>3. /\ first \in 1 .. sent + 1 /\ stray \in BOOLEAN /\ restores \in 0 .. setup.maxRestores
      /\ base \in 0 .. Len(given["back"])
  BY Zenon, <1>1 DEF GenType, CountInv
<1>4. link \in [Dir -> Link]
  <2>1. \A d \in Dir : link[d] \in Link
    BY Zenon, <1>1 DEF IInv, LinkInv
  <2> QED BY Zenon, <2>1 DEF Functional
<1>5. dut \in [frames : Seq(Frame), by : Nat]
  <2>1. dut.frames \in Seq(Frame) /\ dut.by \in Nat /\ dut = [frames |-> dut.frames, by |-> dut.by]
    BY Zenon, <1>1 DEF IInv, GenType, Functional
  <2> DEFINE T == Seq(Frame)
  <2> HIDE DEF T
  <2>2. dut.frames \in T
    BY Zenon, <2>1 DEF T
  <2>3. dut \in [frames : T, by : Nat]
    BY Zenon, <2>1, <2>2
  <2> QED BY Zenon, <2>3 DEF T
<1>6. lost \subseteq 1 .. sent
  BY Zenon, <1>1 DEF PlaceInv
<1> DEFINE U == 1 .. sent
<1>7. ASSUME NEW d \in Dir PROVE taken[d] \in Seq(U) /\ given[d] \in Seq(U)
  <2>1. taken[d] \in Seq(Frame) /\ given[d] \in Seq(Frame)
    BY Zenon, <1>1, SequenceTypes
  <2>2. RangeOf(taken[d]) \subseteq U /\ RangeOf(given[d]) \subseteq U
    BY Zenon, <1>1, CountedApart DEF Dir, PlaceInv
  <2> HIDE DEF U
  <2> QED BY Zenon, <2>1, <2>2, SeqNarrow
<1>8. taken \in [Dir -> Seq(U)] /\ given \in [Dir -> Seq(U)]
  <2> DEFINE T == Seq(U)
  <2>1. \A d \in Dir : taken[d] \in T /\ given[d] \in T
    BY Zenon, <1>7
  <2> HIDE DEF T
  <2>2. taken \in [Dir -> T] /\ given \in [Dir -> T]
    BY Zenon, <2>1 DEF Functional
  <2> QED BY Zenon, <2>2 DEF T
<1> QED BY Zenon, <1>2, <1>3, <1>4, <1>5, <1>6, <1>8 DEF TypeOK, Gens

\* The variables have their types for every rate, also when packetRate becomes 0
\* or wraps around its width: the unsigned counters, the rate and the times of
\* the events stay in their ranges.
THEOREM TypeTheorem == Spec => []TypeOK
<1>1. Init => LossInv /\ Functional
  BY Zenon, InitLoss, InitFunctional
<1>2. LossInv /\ Functional /\ [Next]_vars => LossInv' /\ Functional'
  BY Zenon, NextLoss, NextFunctional
<1> QED BY <1>1, <1>2, LossTypes, PTL DEF Spec

(***************************************************************************)
(* No assertion of EtherLink::Link fails, the generator never schedules an *)
(* event twice, and schedules one in the past only at rate 0, for every    *)
(* rate, delay, transfer time and loss, and with checkpoints restored at   *)
(* any tick.                                                               *)
(***************************************************************************)
THEOREM AssertsTheorem == Spec => []AssertsHold
<1>1. LossInv => AssertsHold
  BY Zenon DEF LossInv, IInv, PastInv, AssertsHold, LinkInv, GenInv, aborted
<1> QED BY <1>1, InitLoss, NextLoss, PTL DEF Spec

\* Every frame that sendPacket() sends is lost, on its way, or counted once.
THEOREM ConservedTheorem == Spec => []Conserved
BY InitLoss, NextLoss, LossConserved, PTL DEF Spec

(***************************************************************************)
(* checkLoss() raises packetRate, modulo its width, exactly when the       *)
(* frames missing from the interval, less the late ones of earlier         *)
(* intervals, are fewer than Tolerance as an unsigned number: whatever the *)
(* allowance, and whatever is still in flight.                             *)
(***************************************************************************)
THEOREM LossVerdictTheorem == Spec => LossVerdict
<1>1. LossInv /\ [Next]_vars =>
        [checkLoss =>
           IF (Cardinality(missing) - Cardinality(late)) % Word < Tolerance
           THEN lg'.packetRate = (lg.packetRate + setup.incrementInterval) % RateWord
           ELSE lg'.packetRate <= lg.packetRate]_vars
  BY Zenon, CheckVerdict
<1> QED BY <1>1, InitLoss, NextLoss, PTL DEF Spec, LossVerdict

(***************************************************************************)
(* With an allowance that is longer than the frames of an interval take    *)
(* one after the other, checkLoss() finds no frame in flight and has       *)
(* counted no late one, unless some were in flight at a restore.           *)
(***************************************************************************)
THEOREM EnoughTimeTheorem == Spec => EnoughTime
<1>1. LossInv /\ [Next]_vars =>
        [checkLoss /\ ample /\ ~ stray => inFlight = {} /\ late = {}]_vars
  BY Zenon, CheckTime
<1> QED BY <1>1, InitLoss, NextLoss, PTL DEF Spec, EnoughTime
=============================================================================
