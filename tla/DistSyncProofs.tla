--------------------------- MODULE DistSyncProofs ---------------------------
(***************************************************************************)
(* The theorems about the barrier of distributed gem5, for any number of   *)
(* nodes, any periods and delays, and any number of processes that stop.   *)
(***************************************************************************)
EXTENDS DistSyncData, FiniteSetTheorems

-----------------------------------------------------------------------------
(* The facts about the constants that the steps rest on                    *)

LEMMA QuantumMin == LeastRepeat
<1> DEFINE T == {Repeat[p] : p \in Proc}
<1>1. T \subseteq Nat \ {0} /\ T # {}
  BY TimeAssumption, Procs
<1>2. \E r \in T : \A p \in Proc : r <= Repeat[p]
  <2> DEFINE L == OpToRel(<, Nat)
  <2>1. IsWellFoundedOn(L, Nat)
    BY Zenon, NatLessThanWellFounded
  <2>2. \E r \in T : \A s \in T : ~ (<<s, r>> \in L)
    <3> HIDE DEF T, L
    <3> QED BY Zenon, <1>1, <2>1, WFMin
  <2>3. \A r, s \in Nat : <<s, r>> \in L <=> s < r
    BY Zenon DEF OpToRel
  <2>4. PICK r \in T : \A s \in T : ~ (<<s, r>> \in L)
    BY Zenon, <2>2
  <2>5. \A p \in Proc : Repeat[p] \in T /\ Repeat[p] \in Nat /\ r \in Nat
    BY Zenon, <1>1
  <2> HIDE DEF L, T
  <2>6. ASSUME NEW p \in Proc PROVE r <= Repeat[p]
    <3>1. Repeat[p] \in Nat /\ r \in Nat /\ ~ (<<Repeat[p], r>> \in L)
      BY Zenon, <2>4, <2>5
    <3>2. ~ (Repeat[p] < r)
      BY Zenon, <2>3, <3>1
    <3> QED BY <3>1, <3>2
  <2> QED BY Zenon, <2>6
<1>3. Quantum \in T /\ \A p \in Proc : Quantum <= Repeat[p]
  BY Zenon, <1>2 DEF Quantum
<1>4. ASSUME NEW r \in T, \A p \in Proc : r <= Repeat[p] PROVE r = Quantum
  BY <1>1, <1>3, <1>4
<1> QED BY Zenon, <1>1, <1>3, <1>4 DEF LeastRepeat

LEMMA NodeCount == Cardinality(Node) \in Nat \ {0}
<1>1. Cardinality(Node) \in Nat /\ Cardinality(Node) # 0
  BY Zenon, ProcAssumption, FS_CardinalityType, FS_EmptySet
<1> QED BY Zenon, <1>1

LEMMA CountingNodes == Counting
<1>1. ASSUME NEW C \in SUBSET Node
      PROVE  /\ Cardinality(Node \ C) \in Nat /\ (Cardinality(Node \ C) = 0 => C = Node)
             /\ \A n \in Node \ C : Cardinality(Node \ (C \cup {n})) = Cardinality(Node \ C) - 1
  <2>1. IsFiniteSet(Node \ C)
    BY Zenon, ProcAssumption, FS_Subset
  <2>2. Cardinality(Node \ C) \in Nat /\ (Cardinality(Node \ C) = 0 => Node \ C = {})
    BY Zenon, <2>1, FS_EmptySet, FS_CardinalityType
  <2>3. ASSUME NEW n \in Node \ C PROVE Cardinality(Node \ (C \cup {n})) = Cardinality(Node \ C) - 1
    <3>1. Node \ (C \cup {n}) = (Node \ C) \ {n}
      BY Zenon
    <3> QED BY Zenon, <2>1, <3>1, FS_RemoveElement
  <2> QED BY Zenon, <2>2, <2>3
<1> QED BY Zenon, <1>1, NodeCount DEF Counting

LEMMA SoundAlways == Spec /\ Regular => []Sound
<1>1. Init /\ Regular => Sound
  BY Zenon, SoundInit, CountingNodes, QuantumMin
<1>2. Sound /\ [Next]_vars => Sound'
  BY Zenon, SoundStep
<1> QED BY <1>1, <1>2, PTL DEF Spec

-----------------------------------------------------------------------------
(* The assertions of the barrier                                           *)

\* The head of a channel is one of its messages.
LEMMA HeadMsg ==
    ASSUME Types, NEW i \in Iface, NEW kind, receives(i, {kind})
    PROVE  Msgs(in[i], kind) # {} /\ ~ gone(Owner(i))
<1>1. in[i] \in Seq(Message) /\ in[i] # <<>> /\ Head(in[i]).kind = kind /\ ~ gone(Owner(i))
  BY Zenon DEF Types, LinkTypes, receives
<1>2. 1 \in DOMAIN in[i] /\ Head(in[i]) = in[i][1]
  BY <1>1
<1> QED BY Zenon, <1>1, <1>2 DEF Msgs

\* What the switch still waits for.
LEMMA SwitchWaits ==
    ASSUME Sound, ~ gone(Switch), ~ Ab(Switch), NEW n \in Node, Req(n) # {}
    PROVE  W(Switch) \in Nat \ {0}
<1>1. PICK C \in SUBSET Node : Collect(C)
  BY Zenon DEF Sound, Ready, MainInv
<1>2. n \notin C /\ W(Switch) = Cardinality(Node \ C)
  BY Zenon, <1>1 DEF Collect, NodePart, SwitchPart
<1>3. Cardinality(Node \ C) \in Nat
  BY Zenon, ProcAssumption, FS_Subset, FS_CardinalityType
<1>4. Cardinality(Node \ C) # 0
  BY Zenon, <1>2, CountingNodes DEF Counting
<1> QED BY Zenon, <1>2, <1>3, <1>4

LEMMA SoundAsserts == Sound => SyncAsserts
<1> SUFFICES ASSUME Sound PROVE SyncAsserts
  BY Zenon
<1>0. Types /\ (\A p \in Proc : LocalInv(p)) /\ (\A n \in Node : NodeInv(n)) /\ SwitchInv
  BY Zenon DEF Sound, Ready
<1>1. ASSUME NEW n \in Node, pc[n] \in {"startup", "run", "event", "drain"} PROVE sync[n].waitNum = 0
  BY Zenon, <1>0, <1>1 DEF NodeInv, W
<1>2. ASSUME NEW n \in Node, receives(<<n, "node">>, {"cmdSyncAck"})
      PROVE  sync[n].waitNum > 0 \/ sync[n].isAbort
  <2>1. <<n, "node">> \in Iface /\ Owner(<<n, "node">>) = n
    BY Zenon, Ends
  <2>2. Ack(n) # {} /\ ~ gone(n)
    BY Zenon, <1>0, <1>2, <2>1, HeadMsg DEF Ack
  <2>3. W(n) = 1 \/ Ab(n)
    BY Zenon, <1>0, <2>2 DEF NodeInv
  <2> QED BY <2>3 DEF W, Ab
<1>3. ASSUME NEW n \in Node, receives(<<n, "switch">>, {"cmdSyncReq"})
      PROVE  sync[Switch].waitNum > 0 \/ sync[Switch].isAbort
  <2>1. <<n, "switch">> \in Iface /\ Owner(<<n, "switch">>) = Switch
    BY Zenon, Ends
  <2>2. Req(n) # {} /\ ~ gone(Switch)
    BY Zenon, <1>0, <1>3, <2>1, HeadMsg DEF Req
  <2>3. W(Switch) \in Nat \ {0} \/ Ab(Switch)
    BY Zenon, <2>2, SwitchWaits
  <2> QED BY <2>3 DEF W, Ab
<1>4. ASSUME NEW p \in Proc, pc[p] = "wait", W(p) = 0, ~ Ab(p), caller[p] = "periodic"
      PROVE  At(p) = tick[p]
  <2>1. CASE p = Switch
    BY Zenon, <1>4, <2>1, DecideFacts
  <2>2. CASE p \in Node
    BY Zenon, <1>0, <1>4, <2>2 DEF NodeInv
  <2> QED BY Zenon, <2>1, <2>2 DEF Proc
<1>5. ASSUME NEW p \in Proc, completed(p), caller[p] \in Starting
      PROVE  (\A w \in Wish : ~ Do(p, w)) /\ At(p) >= tick[p] /\ Rep(p) <= ev[p].repeat
  <2>1. LocalInv(p) /\ caller[p] = "startup" /\ InRun(p) /\ Fresh(p)
    BY Zenon, <1>0, <1>5 DEF LocalInv, Starting, completed, Fresh, InRun
  <2>2. tick[p] = 0 /\ Rep(p) <= ev[p].repeat /\ SyncStart \in Nat
    BY Zenon, <2>1, TimeAssumption DEF LocalInv
  <2>3. (\A w \in Wish : ~ Do(p, w)) /\ At(p) = SyncStart
    <3>1. CASE p = Switch
      BY Zenon, <1>0, <2>1, <3>1 DEF SwitchInv
    <3>2. CASE p \in Node
      BY Zenon, <1>0, <1>5, <2>1, <3>2, Procs DEF NodeInv, completed, W, Ab
    <3> QED BY Zenon, <3>1, <3>2 DEF Proc
  <2> QED BY <2>2, <2>3
<1> QED BY Zenon, <1>1, <1>2, <1>3, <1>4, <1>5 DEF SyncAsserts, W, Ab, At, Rep, Do

(***************************************************************************)
(* The assertions of Sync::run, Sync::progress and SyncEvent::start never  *)
(* fail: every acknowledgement finds the node waiting for it, every        *)
(* request finds the switch still counting, the periodic barrier ends at   *)
(* the tick it began at, and the first barrier agrees on nothing but the   *)
(* start and the period.                                                   *)
(***************************************************************************)
THEOREM SyncAssertsTheorem == Spec /\ Regular => []SyncAsserts
BY SoundAlways, SoundAsserts, PTL

LEMMA SoundCkpt == Sound => CkptAgreement
<1> SUFFICES ASSUME Sound, NEW p \in Proc, pc[p] = "drain", \A q \in Proc : ~ gone(q), NEW q \in Proc
             PROVE  pc[q] \in {"drain", "wait", "acked"}
  BY Zenon DEF CkptAgreement
<1>1. ~ gone(Switch) /\ ~ Ab(Switch) /\ \A n \in Node : ~ gone(n)
  BY Zenon, Procs DEF Sound, SwitchInv
<1>2. PICK C \in SUBSET Node : Collect(C)
  BY Zenon, <1>1 DEF Sound, Ready, MainInv
<1>3. \A r \in Proc : Kind(r) = Kind(Switch)
  BY Zenon, <1>1, <1>2 DEF Collect, NodePart, Proc
<1>4. Kind(p) = "ckpt"
  BY Zenon DEF Kind, Answered, InRun
<1>5. Kind(q) = "ckpt"
  BY Zenon, <1>3, <1>4
<1> QED BY Zenon, <1>5 DEF Kind, Answered, InRun

(***************************************************************************)
(* A checkpoint decided by a barrier is taken by every process after that  *)
(* barrier, whatever the order in which they read the decision.            *)
(***************************************************************************)
THEOREM CkptAgreementTheorem == Spec /\ Regular => []CkptAgreement
BY SoundAlways, SoundCkpt, PTL

-----------------------------------------------------------------------------
(* Lockstep simulation                                                     *)

\* The number of a barrier.
LEMMA BarrierCount ==
    ASSUME NEW d \in Nat, NEW q \in Nat \ {0}, d % q = 0
    PROVE  /\ d \div q \in Nat /\ d = (d \div q) * q
           /\ (d + q) \div q = (d \div q) + 1
           /\ 0 \div q = 0
<1> DEFINE k == d \div q
<1>1. k \in Int /\ d = q * k + (d % q)
  OBVIOUS
<1>2. q * k \in Int /\ q * k = k * q /\ d = q * k
  BY <1>1
<1>3. k >= 0
  OBVIOUS
<1>4. d + q = q * (k + 1)
  BY <1>1, <1>2
<1>5. (d + q) \div q = k + 1
  BY <1>1, <1>4
<1>6. 0 \div q = 0
  OBVIOUS
<1> QED BY <1>1, <1>2, <1>3, <1>5, <1>6

\* The barrier that a process comes to next is the tick of its sync event.
LEMMA PassedCount ==
    ASSUME Sound, NEW p \in Proc
    PROVE  /\ passed[p] \in Nat
           /\ When(p) \in Barrier => SyncStart + passed[p] * Quantum = When(p)
           /\ When(p) \notin Barrier => passed[p] = 0
<1>1. SyncStart \in Nat /\ Quantum \in Nat \ {0}
  BY Zenon, TimeAssumption, QuantumMin DEF LeastRepeat
<1>2. LocalInv(p) /\ When(p) \in Nat
  BY Zenon, Fields DEF Sound, Ready
<1>3. passed[p] = IF When(p) < SyncStart THEN 0 ELSE (When(p) - SyncStart) \div Quantum
  BY Zenon DEF passed, When
<1> DEFINE d == When(p) - SyncStart
<1> HIDE DEF Quantum
<1>4. CASE When(p) \in Barrier
  <2>1. d \in Nat /\ d % Quantum = 0 /\ ~ (When(p) < SyncStart) /\ When(p) = SyncStart + d
    BY <1>1, <1>2, <1>4 DEF Barrier
  <2>2. passed[p] = d \div Quantum
    BY Zenon, <1>3, <2>1
  <2> HIDE DEF d
  <2>3. d \div Quantum \in Nat /\ d = (d \div Quantum) * Quantum
    BY Zenon, <1>1, <2>1, BarrierCount
  <2> QED BY Zenon, <1>4, <2>1, <2>2, <2>3
<1>5. CASE When(p) \notin Barrier
  <2>1. When(p) = 0
    BY Zenon, <1>2, <1>5 DEF LocalInv
  <2>2. SyncStart # 0
    BY Zenon, <1>1, <1>5, <2>1, QuantumMin, BarrierTicks
  <2> QED BY <1>1, <1>3, <1>5, <2>1, <2>2
<1> QED BY Zenon, <1>4, <1>5

LEMMA SoundClocks == Sound /\ Sound' /\ Step => [Clocks!Next]_<<tick, passed>>
<1> SUFFICES ASSUME Sound, Sound', Step PROVE [Clocks!Next]_<<tick, passed>>
  BY Zenon
<1>1. PICK p \in Proc : Rest(p)
  BY Zenon, OneMoves
<1>2. tick = [q \in Proc |-> tick[q]] /\ tick' = [q \in Proc |-> tick'[q]]
  BY Zenon DEF Sound, Ready, Types, SimTypes
<1>3. passed = [q \in Proc |-> passed[q]] /\ passed' = [q \in Proc |-> passed'[q]]
  BY Zenon DEF passed
<1>4. \A q \in Proc \ {p} : tick'[q] = tick[q] /\ passed'[q] = passed[q]
  BY Zenon, <1>1 DEF Rest, Keeps, passed
<1>5. SyncStart \in Nat /\ Quantum \in Nat \ {0} /\ tick[p] \in Nat /\ When(p) \in Nat
  BY Zenon, TimeAssumption, Fields DEF Sound, Ready, LeastRepeat
<1>6. /\ passed[p] \in Nat
      /\ When(p) \in Barrier => SyncStart + passed[p] * Quantum = When(p)
      /\ When(p) \notin Barrier => passed[p] = 0
  BY Zenon, PassedCount
<1>7. /\ tick'[p] \in Nat
      /\ tick'[p] # tick[p] => tick'[p] = tick[p] + 1 /\ ~ Answered(p) /\ When(p)' = When(p)
      /\ \/ When(p)' = When(p)
         \/ When(p)' = SyncStart /\ When(p) = 0 /\ tick[p] = 0
         \/ When(p)' = tick[p] + Quantum /\ tick[p] = When(p) /\ Answered(p) /\ caller[p] = "periodic"
  BY Zenon, ClockStep
<1>8. \A q \in Proc : passed'[q] = IF When(q)' < SyncStart THEN 0 ELSE (When(q)' - SyncStart) \div Quantum
  BY Zenon DEF passed, When
<1>9. passed[p] = IF When(p) < SyncStart THEN 0 ELSE (When(p) - SyncStart) \div Quantum
  BY Zenon DEF passed, When
<1> HIDE DEF Quantum, passed
<1>10. CASE tick'[p] # tick[p]
  <2>1. tick'[p] = tick[p] + 1 /\ When(p)' = When(p) /\ passed'[p] = passed[p]
    BY Zenon, <1>7, <1>8, <1>9, <1>10
  <2>2. LocalInv(p)'
    BY Zenon DEF Sound, Ready
  <2>3. When(p) \in Barrier /\ tick[p] + 1 <= When(p)
    BY <1>5, <2>1, <2>2 DEF LocalInv
  <2>4. tick[p] < SyncStart + passed[p] * Quantum
    BY <1>5, <1>6, <2>3
  <2>5. tick' = [tick EXCEPT ![p] = @ + 1] /\ passed' = passed
    BY Zenon, <1>2, <1>3, <1>4, <2>1
  <2> QED BY Zenon, <2>4, <2>5 DEF Clocks!Next, Clocks!Advance, Clocks!Barrier
<1>11. CASE tick'[p] = tick[p] /\ passed'[p] = passed[p]
  BY Zenon, <1>2, <1>3, <1>4, <1>11
<1>12. CASE tick'[p] = tick[p] /\ passed'[p] # passed[p]
  <2>1. ~ (When(p)' = When(p))
    BY Zenon, <1>8, <1>9, <1>12
  <2>2. ~ (When(p)' = SyncStart /\ When(p) = 0 /\ tick[p] = 0)
    <3> SUFFICES ASSUME When(p)' = SyncStart, When(p) = 0 PROVE FALSE
      BY Zenon
    <3>1. 0 \div Quantum = 0
      BY <1>5
    <3>2. passed'[p] = 0 /\ passed[p] = 0
      BY <1>5, <1>8, <1>9, <3>1
    <3> QED BY Zenon, <1>12, <3>2
  <2>3. When(p)' = tick[p] + Quantum /\ tick[p] = When(p) /\ Answered(p) /\ caller[p] = "periodic"
    BY Zenon, <1>7, <2>1, <2>2
  <2>4. When(p) \in Barrier
    <3>1. ~ Fresh(p) /\ ~ gone(p)
      BY Zenon, <2>3 DEF Answered, Fresh, InRun, gone, Stopped
    <3> QED BY Zenon, <3>1 DEF Sound, Ready, LocalInv
  <2>5. SyncStart + passed[p] * Quantum = tick[p]
    BY Zenon, <1>6, <2>3, <2>4
  <2>6. \A q \in Proc : tick[q] >= SyncStart + passed[p] * Quantum
    BY Zenon, <2>3, <2>5 DEF Sound, StepInv
  <2>7. passed'[p] = passed[p] + 1
    <3> DEFINE d == When(p) - SyncStart
    <3>1. d \in Nat /\ d % Quantum = 0 /\ ~ (When(p) < SyncStart)
      BY <1>5, <2>4 DEF Barrier
    <3>2. ~ (When(p)' < SyncStart) /\ When(p)' - SyncStart = d + Quantum
      BY <1>5, <2>3, <3>1
    <3>3. passed'[p] = (d + Quantum) \div Quantum /\ passed[p] = d \div Quantum
      BY Zenon, <1>8, <1>9, <3>1, <3>2
    <3> HIDE DEF d
    <3>4. (d + Quantum) \div Quantum = (d \div Quantum) + 1
      BY Zenon, <1>5, <3>1, BarrierCount
    <3> QED BY Zenon, <3>3, <3>4
  <2>8. passed' = [passed EXCEPT ![p] = @ + 1] /\ tick' = tick
    BY Zenon, <1>2, <1>3, <1>4, <1>12, <2>7
  <2> QED BY Zenon, <2>5, <2>6, <2>8 DEF Clocks!Next, Clocks!Pass, Clocks!Barrier
<1> QED BY Zenon, <1>10, <1>11, <1>12

(***************************************************************************)
(* The barrier implements lockstep simulation: the clocks of the processes *)
(* (curTick()) and the barriers they have behind them (the tick of the     *)
(* sync event) move only as Lockstep allows, also when processes are       *)
(* killed or the simulation exits.                                         *)
(***************************************************************************)
THEOREM LockstepTheorem == Spec /\ Regular => LockstepSpec
<1>1. Init => Clocks!Init
  <2> SUFFICES ASSUME Init PROVE Clocks!Init
    BY Zenon
  <2>1. SyncStart \in Nat /\ Quantum \in Nat \ {0}
    BY Zenon, TimeAssumption, QuantumMin DEF LeastRepeat
  <2>2. tick = [p \in Proc |-> 0] /\ \A p \in Proc : ev[p].when = 0
    BY Zenon DEF Init, newEvent
  <2> HIDE DEF Quantum
  <2>3. 0 \div Quantum = 0
    BY <2>1
  <2>4. passed = [p \in Proc |-> 0]
    <3>1. ASSUME NEW p \in Proc
          PROVE  (IF ev[p].when < SyncStart THEN 0 ELSE (ev[p].when - SyncStart) \div Quantum) = 0
      <4>1. ev[p].when < SyncStart \/ ev[p].when - SyncStart = 0
        BY <2>1, <2>2
      <4> QED BY Zenon, <2>3, <4>1
    <3> QED BY Zenon, <3>1 DEF passed
  <2> QED BY Zenon, <2>2, <2>4 DEF Clocks!Init
<1>2. Sound /\ [Next]_vars => [Clocks!Next]_<<tick, passed>>
  BY Zenon, SoundStep, SoundClocks
<1> QED BY <1>1, <1>2, SoundAlways, PTL DEF Spec, LockstepSpec, Clocks!Spec

LEMMA SoundWithin == Sound => WithinQuantum
<1> SUFFICES ASSUME Sound, NEW p \in Proc, NEW q \in Proc
             PROVE  tick[p] <= SyncStart \/ tick[p] <= tick[q] + Quantum
  BY Zenon DEF WithinQuantum, Clocks!WithinQuantum
<1>1. /\ SyncStart \in Nat /\ Quantum \in Nat \ {0} /\ tick[p] \in Nat /\ tick[q] \in Nat /\ When(p) \in Nat
      /\ LocalInv(p)
  BY Zenon, TimeAssumption, Fields DEF Sound, Ready, LeastRepeat
<1> HIDE DEF Quantum
<1>2. CASE When(p) \in Barrier /\ tick[p] <= When(p)
  <2>1. CASE When(p) >= SyncStart + Quantum
    <3>1. tick[q] + Quantum >= When(p)
      BY Zenon, <2>1 DEF Sound, StepInv
    <3> QED BY <1>1, <1>2, <3>1
  <2>2. CASE When(p) < SyncStart + Quantum
    <3>1. When(p) = SyncStart
      BY Zenon, <1>2, <2>2, QuantumMin, BarrierTicks
    <3> QED BY Zenon, <1>2, <3>1
  <2> QED BY <1>1, <2>1, <2>2
<1> QED BY <1>1, <1>2 DEF LocalInv

(***************************************************************************)
(* No process is more than a quantum ahead of another: the promise of      *)
(* dist_iface.hh, with a quantum no longer than the shortest sync_repeat.  *)
(***************************************************************************)
THEOREM QuantumTheorem == Spec /\ Regular => []WithinQuantum
BY SoundAlways, SoundWithin, PTL

-----------------------------------------------------------------------------
(* The packets                                                             *)

(***************************************************************************)
(* A checkpoint loses no packet: when a process writes its part of it      *)
(* (after the barrier in drainComplete()), every packet that was sent      *)
(* before its peer wrote its own part has left the channel, for any number *)
(* of checkpoints and as long as no process has stopped.                   *)
(***************************************************************************)
THEOREM DrainedTheorem == Spec /\ Regular => NetworkDrained
<1>1. Init /\ Regular => Consistent
  BY Zenon, SoundInit, CountingNodes, QuantumMin, ConsistentInit
<1> QED BY <1>1, ConsistentAlways, DrainedStep, PTL DEF Spec, NetworkDrained

LEMMA OrderlyAtStart == Init /\ Regular /\ Timely => Orderly
BY Zenon, SoundInit, CountingNodes, QuantumMin, PunctualInit, OrderlyInit

LEMMA OrderlyEver == Spec /\ Regular /\ Timely => []Orderly
BY OrderlyAtStart, OrderlyAlways, PTL DEF Spec

(***************************************************************************)
(* A packet arrives in the quantum it was sent in, and is received in a    *)
(* later one: the assertions of pushPacket() on sendTick and recvTick,     *)
(* which the receive thread evaluates without stopping the simulation      *)
(* thread.  The quantum is no longer than any link delay, no process sends *)
(* before the first periodic barrier, and that barrier is no earlier than  *)
(* the sync_repeat of each process.                                        *)
(***************************************************************************)
THEOREM SameQuantumTheorem == Spec /\ Regular /\ Timely => []SameQuantum
<1>1. Orderly => SameQuantum
  BY Zenon, PunctualQuantum DEF Orderly
<1> QED BY <1>1, OrderlyEver, PTL

(***************************************************************************)
(* The receive event of a packet can always be scheduled: the assertions   *)
(* and panics of calcReceiveTick() and the order check of pushPacket()     *)
(* hold when a packet arrives and when the one before it is popped.        *)
(***************************************************************************)
THEOREM SchedulableTheorem == Spec /\ Regular /\ Timely => []Schedulable
BY OrderlyEver, OrderlySchedulable, PTL

-----------------------------------------------------------------------------
(* The counters                                                            *)

\* No barrier is waited for too often.
WaitInv == \A p \in Proc : W(p) \in Nat

LEMMA WaitStep ==
    ASSUME Sound, Step, WaitInv
    PROVE  WaitInv'
<1> SUFFICES ASSUME NEW p \in Proc PROVE W(p)' \in Nat
  BY Zenon DEF WaitInv
<1>0. W(p) \in Nat /\ Cardinality(Node) \in Nat
  BY Zenon, NodeCount DEF WaitInv
<1>1. CASE W(p)' = W(p)
  BY Zenon, <1>0, <1>1
<1>2. CASE SimStep(p)
  <2>1. W(p)' \in {W(p), 0, 1}
    BY Zenon, <1>2 DEF SimStep, Enters, RunEnters, Sends, Halts, Ticks, Fires, Starts, Passes, Resumes, Loses, W
  <2> QED BY <1>0, <2>1
<1>3. CASE p \in Node /\ Hears(p)
  <2>1. Ack(p) # {} /\ ~ gone(p) /\ ~ Ab(p) /\ W(p)' = W(p) - 1
    BY Zenon, <1>3 DEF Hears
  <2>2. W(p) = 1
    BY Zenon, <1>3, <2>1 DEF Sound, Ready, NodeInv
  <2> QED BY <2>1, <2>2
<1>4. CASE p = Switch /\ \E n \in Node : Collects(n)
  <2>1. PICK n \in Node : Collects(n)
    BY Zenon, <1>4
  <2>2. Req(n) # {} /\ ~ gone(p) /\ ~ Ab(p) /\ W(p)' = W(p) - 1
    BY Zenon, <1>4, <2>1 DEF Collects, Takes
  <2>3. W(p) \in Nat \ {0}
    BY Zenon, <1>4, <2>2, SwitchWaits
  <2> QED BY <2>2, <2>3
<1>5. CASE p = Switch /\ Decides
  BY Zenon, <1>0, <1>5 DEF Decides
<1>6. Keeps(p) => W(p)' = W(p)
  BY Zenon DEF Keeps, W
<1>7. \A n \in Node : (p = n /\ Asks(n)) \/ (p = Switch /\ Ignores(n)) => Keeps(p)
  BY Zenon DEF Asks, Ignores
<1> QED BY Zenon, <1>1, <1>2, <1>3, <1>4, <1>5, <1>6, <1>7 DEF Step, SimStep, NodeStep, Still, Rest

\* A request that is counted stays counted.
LEMMA CountedGrows ==
    ASSUME Sound, Step, NEW w \in Wish, NEW n \in Node, need[n][w] = "pending"
    PROVE  /\ need'[n][w] = "pending"
           /\ \A m \in Req(n)' : m \in Req(n) \/ m.need[w] = "pending"
<1>0. n \in Proc /\ n # Switch
  BY Zenon, Procs
<1>1. CASE need' = need /\ Req(n)' \subseteq Req(n)
  BY Zenon, <1>1
<1>2. CASE \E k \in Node : Sends(k)
  <2>1. PICK k \in Node : Sends(k)
    BY Zenon, <1>2
  <2>2. CASE k # n
    BY Zenon, <2>1, <2>2 DEF Sends
  <2>3. CASE k = n
    <3>1. need'[n][w] = "pending" /\ (Req(n)' = Req(n) \/ Req(n)' = {Request(n)})
      BY Zenon, <2>1, <2>3 DEF Sends
    <3>2. Request(n).need[w] = "pending"
      BY Zenon DEF Request
    <3> QED BY Zenon, <3>1, <3>2
  <2> QED BY Zenon, <2>2, <2>3
<1>3. CASE \E k \in Node : Asks(k)
  <2>1. PICK k \in Node : Asks(k)
    BY Zenon, <1>3
  <2> QED BY Zenon, <2>1 DEF Asks, KeepsMsgs
<1>4. ASSUME NEW p \in Proc, SimStep(p) PROVE (need' = need /\ Req(n)' = Req(n)) \/ (p \in Node /\ Sends(p))
  BY Zenon, <1>4 DEF SimStep, Enters, RunEnters, Halts, Ticks, Fires, Starts, Passes, Resumes, Loses, KeepsNeed, KeepsMsgs, Proc
<1>5. ASSUME NEW k \in Node, Hears(k) \/ Ignores(k) \/ Collects(k) PROVE need' = need /\ Req(n)' \subseteq Req(n)
  BY Zenon, <1>5 DEF Hears, Ignores, Collects, Takes, KeepsNeed
<1>6. Decides => need' = need /\ Req(n)' = Req(n)
  BY Zenon DEF Decides
<1>7. Still => need' = need /\ Req(n)' = Req(n)
  BY Zenon DEF Still, KeepsNeed, KeepsMsgs
<1> QED BY Zenon, <1>1, <1>2, <1>3, <1>4, <1>5, <1>6, <1>7 DEF Step, NodeStep

\* A request for a collective decision on its way is one that its node waits for.
LEMMA AskedPending ==
    ASSUME Sound, Step, NumInv, NEW w \in Wish, NEW n \in Node, NEW m \in Req(n)', m.need[w] = "collective"
    PROVE  need'[n][w] = "pending"
<1>1. CASE m \in Req(n)
  <2>1. need[n][w] = "pending"
    BY Zenon, <1>1 DEF NumInv
  <2> QED BY Zenon, <2>1, CountedGrows
<1>2. CASE m \notin Req(n)
  <2>1. Sends(n)
    <3>1. ASSUME NEW p \in Proc, SimStep(p) PROVE Req(n)' = Req(n) \/ Sends(n)
      BY Zenon, <3>1 DEF SimStep, Enters, RunEnters, Halts, Ticks, Fires, Starts, Passes, Resumes, Loses, KeepsNeed, KeepsMsgs, Sends, Proc
    <3>2. ASSUME NEW k \in Node, NodeStep(k) PROVE Req(n)' \subseteq Req(n)
      BY Zenon, <3>2 DEF NodeStep, Asks, Hears, Ignores, Collects, Takes, KeepsMsgs
    <3>3. Decides \/ Still => Req(n)' = Req(n)
      BY Zenon DEF Decides, Still, KeepsMsgs
    <3> QED BY Zenon, <1>2, <3>1, <3>2, <3>3 DEF Step
  <2>2. m = Request(n)
    BY Zenon, <1>2, <2>1 DEF Sends
  <2>3. need[n][w] = "collective"
    BY Zenon, <2>2 DEF Request
  <2> QED BY Zenon, <2>1, <2>3 DEF Sends
<1> QED BY Zenon, <1>1, <1>2

LEMMA NumStep ==
    ASSUME Sound, Step, NumInv
    PROVE  NumInv'
<1> SUFFICES ASSUME NEW w \in Wish PROVE num'[w] <= Cardinality(Counted(w)')
  BY Zenon, AskedPending DEF NumInv
<1>1. Counted(w) \subseteq Node /\ Counted(w)' \subseteq Node
  BY Zenon DEF Counted
<1>2. IsFiniteSet(Counted(w)) /\ IsFiniteSet(Counted(w)')
  BY Zenon, <1>1, ProcAssumption, FS_Subset
<1>3. Cardinality(Counted(w)) \in Nat /\ Cardinality(Counted(w)') \in Nat
  BY Zenon, <1>2, FS_CardinalityType
<1>4. Counted(w) \subseteq Counted(w)'
  <2> SUFFICES ASSUME NEW n \in Counted(w) PROVE n \in Counted(w)'
    BY Zenon
  <2>1. n \in Node /\ need[n][w] = "pending" /\ \A m \in Req(n) : m.need[w] # "collective"
    BY Zenon DEF Counted
  <2>2. need'[n][w] = "pending" /\ \A m \in Req(n)' : m \in Req(n) \/ m.need[w] = "pending"
    BY Zenon, <2>1, CountedGrows
  <2> QED BY Zenon, <2>1, <2>2 DEF Counted
<1>5. Cardinality(Counted(w)) <= Cardinality(Counted(w)')
  BY Zenon, <1>2, <1>4, FS_Subset
<1>6. num[w] \in Nat /\ num[w] <= Cardinality(Counted(w))
  BY Zenon DEF Sound, Ready, Types, SyncTypes, NumInv
<1>7. CASE num'[w] \in {0, num[w]}
  BY <1>3, <1>5, <1>6, <1>7
<1>8. ASSUME NEW n \in Node, Collects(n), num'[w] # num[w] PROVE num'[w] <= Cardinality(Counted(w)')
  <2>1. PICK m : Req(n) = {m} /\ Req(n)' = {} /\ need' = need /\ m.need[w] = "collective" /\ num'[w] = num[w] + 1
    BY Zenon, <1>8 DEF Collects, Takes
  <2>2. n \notin Counted(w)
    BY Zenon, <2>1 DEF Counted
  <2>3. need[n][w] = "pending"
    BY Zenon, <2>1 DEF NumInv
  <2>4. n \in Counted(w)'
    BY Zenon, <2>1, <2>3 DEF Counted
  <2>5. Counted(w) \cup {n} \subseteq Counted(w)'
    BY Zenon, <1>4, <2>4
  <2>6. Cardinality(Counted(w) \cup {n}) = Cardinality(Counted(w)) + 1 /\ IsFiniteSet(Counted(w) \cup {n})
    BY Zenon, <1>2, <2>2, FS_AddElement
  <2>7. Cardinality(Counted(w) \cup {n}) <= Cardinality(Counted(w)')
    BY Zenon, <1>2, <2>5, FS_Subset
  <2> QED BY <1>3, <1>6, <2>1, <2>6, <2>7
<1>9. ASSUME NEW p \in Proc, SimStep(p) PROVE num' = num
  BY Zenon, <1>9 DEF SimStep, Enters, Halts, Ticks, Fires, Starts, Passes, Resumes, Loses, KeepsNeed
<1>10. ASSUME NEW n \in Node, Asks(n) \/ Hears(n) \/ Ignores(n) PROVE num' = num
  BY Zenon, <1>10 DEF Asks, Hears, Ignores, KeepsNeed
<1>11. Decides => num'[w] \in {0, num[w]}
  BY Zenon DEF Decides
<1>12. Still => num' = num
  BY Zenon DEF Still, KeepsNeed
<1> QED BY Zenon, <1>7, <1>8, <1>9, <1>10, <1>11, <1>12 DEF Step, NodeStep

\* Nothing is saved where no restore can follow.
LEMMA SavedKept ==
    ASSUME Regular, [Next]_vars
    PROVE  saved' = saved
<1>0. "restore" \notin setup.requests
  BY Zenon DEF Regular
<1>1. \A p : saving(p) = saved
  BY Zenon, <1>0 DEF saving
<1>2. ASSUME NEW p \in Proc, SimThread(p) PROVE saved' = saved
  <2>1. CASE startup(p) \/ simulate(p) \/ receiveResumed(p) \/ process(p) \/ enterPeriodic(p) \/ drainComplete(p)
    BY Zenon, <2>1 DEF startup, simulate, receiveResumed, process, enterPeriodic, drainComplete
  <2>2. CASE startDone(p) \/ processDone(p) \/ leave(p)
    BY Zenon, <2>2 DEF startDone, processDone, leave
  <2>3. CASE ckptDone(p) \/ aborted(p)
    BY Zenon, <1>1, <2>3 DEF ckptDone, aborted
  <2> QED BY Zenon, <1>2, <2>1, <2>2, <2>3 DEF SimThread
<1>3. ASSUME NEW i \in Iface, RecvThread(i) PROVE saved' = saved
  BY Zenon, <1>3 DEF RecvThread, pushPacket, connectionLost
<1>4. ASSUME NEW n \in Node, nodeProgress(n) \/ switchProgress(n) \/ Workload(n) PROVE saved' = saved
  BY Zenon, <1>4 DEF nodeProgress, switchProgress, Workload, readyToCkpt, readyToExit, toggleSync, linkVars
<1>5. ASSUME NEW p \in Proc, kill(p) PROVE saved' = saved
  BY Zenon, <1>5 DEF kill
<1>6. acknowledge => saved' = saved
  BY Zenon DEF acknowledge
<1>7. ~ restore
  BY Zenon, <1>0 DEF restore
<1>8. UNCHANGED vars => saved' = saved
  BY Zenon DEF vars, linkVars
<1> QED BY Zenon, <1>2, <1>3, <1>4, <1>5, <1>6, <1>7, <1>8 DEF Next

CountInv == Sound /\ WaitInv /\ NumInv /\ saved.numExitReq = 0

LEMMA CountAlways == Spec /\ Regular => []CountInv
<1>1. Init /\ Regular => CountInv
  <2> SUFFICES ASSUME Init, Regular PROVE CountInv
    BY Zenon
  <2>1. Sound
    BY Zenon, SoundInit, CountingNodes, QuantumMin
  <2>2. \A w \in Wish : Counted(w) = {} /\ num[w] = 0
    BY Zenon DEF Counted, Init
  <2>3. \A n \in Node : in[<<n, "switch">>] = <<>>
    BY Zenon DEF Init, Iface
  <2>m. Msgs(<<>>, "cmdSyncReq") = {}
    BY DEF Msgs
  <2>4. \A n \in Node : Req(n) = {}
    BY Zenon, <2>3, <2>m DEF Req
  <2>5. NumInv
    BY <2>2, <2>4, FS_EmptySet DEF NumInv
  <2>6. \A p \in Proc : W(p) \in {0, Cardinality(Node)}
    BY Zenon DEF Init, newSync, W
  <2>7. WaitInv
    BY <2>6, NodeCount DEF WaitInv
  <2>8. saved.numExitReq = 0
    BY Zenon DEF Init
  <2> QED BY Zenon, <2>1, <2>5, <2>7, <2>8 DEF CountInv
<1>2. CountInv /\ [Next]_vars => CountInv'
  <2> SUFFICES ASSUME CountInv, [Next]_vars PROVE CountInv'
    BY Zenon
  <2>1. Sound' /\ Step
    BY Zenon, SoundStep DEF CountInv
  <2>2. saved' = saved
    BY Zenon, SavedKept DEF CountInv, Sound, Ready
  <2>3. WaitInv' /\ NumInv'
    BY Zenon, <2>1, WaitStep, NumStep DEF CountInv
  <2> QED BY Zenon, <2>1, <2>2, <2>3 DEF CountInv
<1> QED BY <1>1, <1>2, PTL DEF Spec

LEMMA CountTypes == CountInv => TypeOK
<1> SUFFICES ASSUME CountInv PROVE TypeOK
  BY Zenon
<1>1. Types /\ Cardinality(Node) \in Nat
  BY Zenon, NodeCount DEF CountInv, Sound, Ready
<1>2. sync \in [Proc -> [waitNum : Nat, nextAt : Nat, nextRepeat : Nat, isAbort : BOOLEAN, do : Decision]]
  <2>1. \A p \in Proc : sync[p].waitNum \in Nat /\ sync[p] \in SyncType
    BY Zenon, <1>1 DEF CountInv, WaitInv, W, Types, SyncTypes
  <2>2. \A p \in Proc : sync[p] \in [waitNum : Nat, nextAt : Nat, nextRepeat : Nat, isAbort : BOOLEAN, do : Decision]
    BY Zenon, <2>1 DEF SyncType
  <2> QED BY Zenon, <1>1, <2>2 DEF Types, SyncTypes
<1>3. num \in [Wish -> 0 .. Cardinality(Node)]
  <2>1. \A w \in Wish : num[w] \in Nat /\ num[w] <= Cardinality(Counted(w)) /\ Counted(w) \subseteq Node
    BY Zenon, <1>1 DEF CountInv, NumInv, Counted, Types, SyncTypes
  <2>2. \A w \in Wish : Cardinality(Counted(w)) <= Cardinality(Node) /\ Cardinality(Counted(w)) \in Nat
    BY Zenon, <2>1, ProcAssumption, FS_Subset, FS_CardinalityType
  <2>3. \A w \in Wish : num[w] \in 0 .. Cardinality(Node)
    BY <1>1, <2>1, <2>2
  <2> QED BY Zenon, <1>1, <2>3 DEF Types, SyncTypes
<1>4. saved \in [tick : [Proc -> Nat], wake : [Node -> Nat], rx : [Iface -> Scheduler],
                 txFree : [Iface -> Nat], needExit : [Node -> ReqType],
                 numExitReq : 0 .. Cardinality(Node)]
  <2>1. saved \in SavedType /\ saved.numExitReq \in 0 .. Cardinality(Node)
    BY <1>1 DEF Types, LinkTypes, CountInv
  <2> QED BY Zenon, <2>1 DEF SavedType
<1> QED BY Zenon, <1>1, <1>2, <1>3, <1>4 DEF TypeOK, Types, SimTypes, SyncTypes, LinkTypes, HistoryTypes, Event

(***************************************************************************)
(* Types: with them, waitNum never goes below zero (it is unsigned in      *)
(* dist_iface.hh), and the switch never counts more requests for a         *)
(* checkpoint or an exit than there are nodes, although a node may ask     *)
(* again and again while its request is pending.                           *)
(***************************************************************************)
THEOREM TypeTheorem == Spec /\ Regular => []TypeOK
BY CountAlways, CountTypes, PTL
=============================================================================
