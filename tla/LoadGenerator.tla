---------------------------- MODULE LoadGenerator ----------------------------
(***************************************************************************)
(* The load generator (gem5/src/dev/net/load_generator.cc) on an Ethernet  *)
(* link to the card it loads, as configs/common/FSConfig.py connects them. *)
(* The card with its driver and the forwarding application is external: it *)
(* loses a frame on arrival or sends it back within dutDelay of its turn,  *)
(* in order, as FrameChannel says of the receive and the transmit path.    *)
(*                                                                         *)
(* Time is in ticks.  Events due at the same tick run in any order.        *)
(***************************************************************************)
EXTENDS EtherLink, FiniteSets

CONSTANTS
    Clock,              \* ticks of a second (10^12)
    CheckLossInterval,  \* frames between two checks (1000)
    Tolerance,          \* lost frames that count as loss (10)
    Allowance,          \* ticks left for the frames in flight (100000000)
    Word,               \* values of a uint64_t
    RateWord,           \* values of an unsigned, the type of packetRate
    SimLength,          \* transfer time of a frame from the card
    Setups              \* the configurations (see Setup)

(***************************************************************************)
(* The parameters of the generator and of the link, the longest time the   *)
(* card keeps the frame at its front, and a bound on the number of         *)
(* restores of a checkpoint.  The generator is started at some rate.       *)
(***************************************************************************)
Setup ==
    [mode : {"Static", "Increment", "Burst"}, packetRate : 1 .. RateWord - 1,
     incrementInterval : 1 .. RateWord - 1, startTick : Nat, stopTick : Nat,
     burstWidth : Nat, burstGap : Nat, linkDelay : Nat, delayVar : Nat,
     dutDelay : Nat, maxRestores : Nat]

ASSUME GenAssumption ==
    /\ {Clock, CheckLossInterval, Tolerance, Allowance} \subseteq Nat \ {0}
    /\ {SimLength, Word, RateWord} \subseteq Nat
    /\ Word > 2 * CheckLossInterval /\ Word > Clock /\ Clock >= RateWord
    /\ \A s \in Setups : s \in Setup

VARIABLES
    setup,      \* the configuration, fixed from the start
    now,        \* curTick()
    lg,         \* the generator (see startup)
    link,       \* the two directions: "out" to the card, "back" from it
    dut,        \* external: [frames: those in the card, by: when the first is sent]
    sent,       \* history: frames 1 .. sent were sent
    first,      \* history: the first frame since the counters were reset
    base,       \* history: how many frames had come back when they were
    lost,       \* history: the frames lost in the card or refused by the link
    stray,      \* history: frames of before a restore may still be counted
    restores,   \* history: number of restores
    taken,      \* history: the frames each direction of the link has taken
    given       \* history: and those it has delivered

history == <<first, base, stray, restores>>
vars == <<setup, now, lg, link, dut, sent, lost, taken, given, history>>

Dir == {"out", "back"}

(***************************************************************************)
(* The ticks between two frames.  At rate 0 the quotient is infinite and   *)
(* its conversion to a Tick undefined: 0 on an x86-64 host, the largest    *)
(* Tick on an aarch64 host, which a sum of ticks takes for -1.             *)
(***************************************************************************)
frequency(rate) == IF rate = 0 THEN {0, -1} ELSE {Clock \div rate}

\* A new generator, after startup() at time t.
startup(t) ==
    [packetRate |-> setup.packetRate, burstStartTick |-> 0,
     lastTxCount |-> 0, lastRxCount |-> 0, checkAt |-> Never,
     sendAt |-> IF t > setup.stopTick THEN Never
                ELSE IF t > setup.startTick THEN t + 1 ELSE setup.startTick + 1]

Init ==
    /\ setup \in Setups
    /\ now = 0
    /\ lg = startup(0)
    /\ link = [d \in Dir |-> idleLink]
    /\ dut = [frames |-> <<>>, by |-> 0]
    /\ sent = 0 /\ first = 1 /\ base = 0 /\ lost = {} /\ stray = FALSE /\ restores = 0
    /\ taken = [d \in Dir |-> <<>>] /\ given = [d \in Dir |-> <<>>]

\* The frames between the generator and the end of their way back.
inFlight ==
    {link[d].packet : d \in {e \in Dir : busy(link[e])}}
      \cup {dut.frames[i] : i \in DOMAIN dut.frames}
      \cup UNION {{link[d].txQueue[i].frame : i \in DOMAIN link[d].txQueue} : d \in Dir}

-----------------------------------------------------------------------------
(* The generator                                                           *)

\* Fault: nothing is left for the frames in flight.
lossCheckAt_soon == now + 1

lossCheckAt == now + Allowance

\* What sendPacket() schedules, with the frame counted and the next one due after
\* ticks.
scheduled(g, ticks) ==
    LET next == now + ticks
        burst == now + setup.burstGap
    IN  IF now >= setup.stopTick THEN g
        ELSE CASE setup.mode = "Static" -> [g EXCEPT !.sendAt = next]
               [] setup.mode = "Increment" ->
                    IF g.lastTxCount = CheckLossInterval
                    THEN [g EXCEPT !.checkAt = lossCheckAt] ELSE [g EXCEPT !.sendAt = next]
               [] setup.mode = "Burst" ->
                    IF (now - g.burstStartTick) % Word > setup.burstWidth
                    THEN [g EXCEPT !.burstStartTick = burst, !.sendAt = burst]
                    ELSE [g EXCEPT !.sendAt = next]

\* A frame that the link refuses is counted as sent.
sendPacket ==
    LET frame == sent + 1
    IN  /\ lg.sendAt = now
        /\ \E ticks \in frequency(lg.packetRate) :
             lg' = scheduled([lg EXCEPT !.lastTxCount = (@ + 1) % Word, !.sendAt = Never], ticks)
        /\ sent' = frame
        /\ IF busy(link["out"])
           THEN lost' = lost \cup {frame} /\ UNCHANGED <<link, taken>>
           ELSE /\ \E n \in transferTicks(0, setup.delayVar) :
                     link' = [link EXCEPT !["out"] = transmit(@, frame, now + n)]
                /\ taken' = [taken EXCEPT !["out"] = Append(@, frame)]
                /\ UNCHANGED lost
        /\ UNCHANGED <<setup, now, dut, given, history>>

\* Fault: one more frame must be lost.
lossDetected_more == (lg.lastTxCount - lg.lastRxCount) % Word > Tolerance

lossDetected == (lg.lastTxCount - lg.lastRxCount) % Word >= Tolerance

\* Fault: the rate is lowered below its increment.
lowerRate_signed(rate) == rate - setup.incrementInterval

\* The unsigned difference is larger than the rate when the increment is.
lowerRate(rate) ==
    LET lower == (rate - setup.incrementInterval) % Word
    IN  IF lower < rate THEN lower ELSE rate

checkLoss ==
    LET rate == IF lossDetected THEN lowerRate(lg.packetRate)
                                ELSE (lg.packetRate + setup.incrementInterval) % RateWord
        extra == IF lossDetected THEN Allowance ELSE 0
    IN  /\ lg.checkAt = now
        /\ \E ticks \in frequency(rate) :
             lg' = [lg EXCEPT !.packetRate = rate, !.checkAt = Never,
                              !.sendAt = now + ticks + extra,
                              !.lastTxCount = 0, !.lastRxCount = 0]
        /\ first' = sent + 1 /\ base' = Len(given["back"])
        /\ stray' = (stray /\ inFlight # {})
        /\ UNCHANGED <<setup, now, link, dut, sent, lost, restores, taken, given>>

\* schedule() was asked for an event in the past: its assertion has stopped the
\* simulator.
aborted == lg.sendAt # Never /\ lg.sendAt < now

processRxPkt == lg' = [lg EXCEPT !.lastRxCount = (@ + 1) % Word]

-----------------------------------------------------------------------------
(* The link and the card                                                   *)

\* txComplete(): the frame is at the other end of direction d.
txComplete(d, frame) ==
    /\ given' = [given EXCEPT ![d] = Append(@, frame)]
    /\ \/ /\ d = "out"
          /\ \/ /\ dut' = [frames |-> Append(dut.frames, frame),
                            by |-> IF dut.frames = <<>> THEN now + setup.dutDelay ELSE dut.by]
                /\ UNCHANGED lost
             \/ lost' = lost \cup {frame} /\ UNCHANGED dut
          /\ UNCHANGED lg
       \/ d = "back" /\ processRxPkt /\ UNCHANGED <<dut, lost>>

transferDone(d) ==
    /\ ~ aborted /\ link[d].doneAt = now
    /\ link' = [link EXCEPT ![d] = txDone(@, now, setup.linkDelay)]
    /\ IF setup.linkDelay > 0 THEN UNCHANGED <<given, dut, lost, lg>>
                              ELSE txComplete(d, link[d].packet)
    /\ UNCHANGED <<setup, now, sent, taken, history>>

queueEvent(d) ==
    /\ ~ aborted /\ link[d].queueAt = now
    /\ link' = [link EXCEPT ![d] = processTxQueue(@)]
    /\ txComplete(d, Head(link[d].txQueue).frame)
    /\ UNCHANGED <<setup, now, sent, taken, history>>

\* The card sends its first frame when the link is free, and has another
\* dutDelay for the next one.
forward ==
    /\ ~ aborted /\ dut.frames # <<>> /\ ~ busy(link["back"])
    /\ dut' = [frames |-> Tail(dut.frames), by |-> now + setup.dutDelay]
    /\ \E n \in transferTicks(SimLength, setup.delayVar) :
         link' = [link EXCEPT !["back"] = transmit(@, Head(dut.frames), now + n)]
    /\ taken' = [taken EXCEPT !["back"] = Append(@, Head(dut.frames))]
    /\ UNCHANGED <<setup, now, lg, sent, lost, given, history>>

-----------------------------------------------------------------------------
(* Time and restore                                                        *)

EventTimes == ({lg.sendAt, lg.checkAt} \cup {link[d].doneAt : d \in Dir}
                 \cup {link[d].queueAt : d \in Dir}) \ {Never}

\* Time moves on when nothing is due at this tick.
advance ==
    /\ EventTimes # {} \/ dut.frames # <<>>
    /\ \A t \in EventTimes : now < t
    /\ dut.frames = <<>> \/ busy(link["back"]) \/ now < dut.by
    /\ now' = now + 1
    /\ UNCHANGED <<setup, lg, link, dut, sent, lost, taken, given, history>>

\* A new simulator process restores a checkpoint.  The links and the card save
\* their state; the generator saves none and starts up as new.
restore ==
    /\ ~ aborted /\ restores < setup.maxRestores
    /\ restores' = restores + 1
    /\ lg' = startup(now)
    /\ link' = [d \in Dir |-> restored(link[d])]
    /\ first' = sent + 1 /\ base' = Len(given["back"])
    /\ stray' = (inFlight # {})
    /\ UNCHANGED <<setup, now, dut, sent, lost, taken, given>>

Next ==
    \/ sendPacket \/ checkLoss \/ forward \/ advance \/ restore
    \/ \E d \in Dir : transferDone(d) \/ queueEvent(d)

Spec == Init /\ [][Next]_vars

\* The event queue runs every event when its time has come, and the card sends
\* what it has taken.
FairSpec ==
    /\ Spec
    /\ WF_vars(sendPacket) /\ WF_vars(checkLoss) /\ WF_vars(forward) /\ WF_vars(advance)
    /\ \A d \in Dir : WF_vars(transferDone(d)) /\ WF_vars(queueEvent(d))

-----------------------------------------------------------------------------
(* Properties                                                              *)

\* Type invariant of the generator, the link and the card.
TypeOK ==
    /\ setup \in Setups /\ now \in Nat
    /\ lg \in [packetRate : 0 .. RateWord - 1, burstStartTick : Nat, lastTxCount : 0 .. Word - 1,
               lastRxCount : 0 .. Word - 1, checkAt : Time, sendAt : Time]
    /\ link \in [Dir -> Link]
    /\ dut \in [frames : Seq(Frame), by : Nat]
    /\ sent \in Nat /\ first \in 1 .. sent + 1 /\ lost \subseteq 1 .. sent
    /\ base \in 0 .. Len(given["back"])
    /\ stray \in BOOLEAN /\ restores \in 0 .. setup.maxRestores
    /\ taken \in [Dir -> Seq(1 .. sent)] /\ given \in [Dir -> Seq(1 .. sent)]

(***************************************************************************)
(* The assertions of the link, and those of schedule(): the generator has  *)
(* at most one of its two events scheduled, so neither is scheduled twice, *)
(* also when a checkpoint is restored; and no event is scheduled in the    *)
(* past, except by a generator whose rate has become 0.                    *)
(***************************************************************************)
AssertsHold ==
    /\ \A d \in Dir : LinkAsserts(link[d], now, setup.linkDelay)
    /\ lg.sendAt = Never \/ lg.checkAt = Never
    /\ aborted => lg.packetRate = 0

RangeOf(s) == {s[i] : i \in DOMAIN s}

(***************************************************************************)
(* Every frame sent is in exactly one place: lost, on its way, or counted  *)
(* by processRxPkt() once.                                                 *)
(***************************************************************************)
Conserved ==
    LET back == RangeOf(given["back"])
    IN  /\ 1 .. sent = lost \cup inFlight \cup back
        /\ sent = Cardinality(lost) + Cardinality(inFlight) + Len(given["back"])

\* The frames of this interval that have not come back, lost or in flight.
missing == (first .. sent) \ RangeOf(given["back"])

\* The places of the earlier frames that were counted in this interval.
late == {i \in base + 1 .. Len(given["back"]) : given["back"][i] < first}

(***************************************************************************)
(* What the counters of checkLoss() tell: the rate is raised exactly when  *)
(* the frames missing from this interval, less the late ones of earlier    *)
(* intervals, are fewer than Tolerance as an unsigned number, so that more *)
(* late frames than missing ones are a loss too.                           *)
(***************************************************************************)
LossVerdict ==
    [][checkLoss =>
         IF (Cardinality(missing) - Cardinality(late)) % Word < Tolerance
         THEN lg'.packetRate = (lg.packetRate + setup.incrementInterval) % RateWord
         ELSE lg'.packetRate <= lg.packetRate]_vars

\* The allowance is longer than the frames of an interval take one after the other.
ample ==
    2 + 2 * setup.delayVar + 2 * setup.linkDelay
      + CheckLossInterval * (SimLength + 1 + setup.delayVar + setup.dutDelay) < Allowance

(***************************************************************************)
(* "allow enough time for any in flight packets to be recieved": with an   *)
(* ample allowance no frame is in flight when checkLoss() runs and none    *)
(* was late, so only lost frames count as loss, unless frames that were in *)
(* flight when a checkpoint was restored are counted too.                  *)
(***************************************************************************)
EnoughTime == [][checkLoss /\ ample /\ ~ stray => inFlight = {} /\ late = {}]_vars

\* The frames delivered by direction d, by their place in the order they were
\* taken in.
inOrder(d) == [i \in DOMAIN given[d] |-> IF given[d][i] = taken[d][i] THEN i ELSE 0]

Out == INSTANCE FrameChannel WITH accepted <- Len(taken["out"]), delivered <- inOrder("out")
Back == INSTANCE FrameChannel WITH accepted <- Len(taken["back"]), delivered <- inOrder("back")

(***************************************************************************)
(* "Maintain a queue of in-flight packets": each direction of the link     *)
(* delivers the frames it takes once and in order, with any mix of         *)
(* transfer times.                                                         *)
(***************************************************************************)
LinkSpec == Out!Spec /\ Back!Spec

(***************************************************************************)
(* After stop_tick the generator schedules nothing more, and every frame   *)
(* that is not lost is counted, unless the simulator has stopped.          *)
(***************************************************************************)
Settles ==
    \/ <>[](EventTimes = {} /\ 1 .. sent = lost \cup RangeOf(given["back"]))
    \/ <>[] aborted

(***************************************************************************)
(* README.md: "The network rate will stop incrementing once packet loss is *)
(* encountered": checkLoss() does not raise the rate after a loss.         *)
(***************************************************************************)
RateStops == [][checkLoss /\ lost # {} => lg'.packetRate <= lg.packetRate]_vars
=============================================================================
