--------------------------- MODULE LockstepProofs ----------------------------
(***************************************************************************)
(* Clocks that meet at every barrier are never more than a quantum apart,  *)
(* for any number of processes, any first barrier and any quantum.         *)
(***************************************************************************)
EXTENDS Lockstep, TLAPS

\* Barriers are a quantum apart.
LEMMA BarrierStep ==
    ASSUME Start \in Nat, Quantum \in Nat, NEW k \in Nat
    PROVE  Barrier(k) \in Nat /\ Barrier(k + 1) = Barrier(k) + Quantum
BY DEF Barrier

\* The barrier after the last one that was passed.
LEMMA BarrierBefore ==
    ASSUME Start \in Nat, Quantum \in Nat, NEW k \in Nat, k > 0
    PROVE  Barrier(k - 1) \in Nat /\ Barrier(k) = Barrier(k - 1) + Quantum
<1>1. k - 1 \in Nat /\ (k - 1) + 1 = k
  OBVIOUS
<1>2. Barrier(k - 1) \in Nat /\ Barrier((k - 1) + 1) = Barrier(k - 1) + Quantum
  BY <1>1, BarrierStep
<1> QED BY <1>1, <1>2

\* Initially every clock is at 0 and no barrier has been passed.
LEMMA InitInStep ==
    ASSUME Start \in Nat, Quantum \in Nat
    PROVE  Init => InStep
<1>1. Barrier(0) \in Nat
  BY BarrierStep
<1> QED BY <1>1 DEF Init, InStep

\* A clock that advances stays at or before its barrier, and a barrier is passed
\* only when every clock has reached it.
LEMMA NextInStep ==
    ASSUME Start \in Nat, Quantum \in Nat
    PROVE  InStep /\ [Next]_<<clock, passed>> => InStep'
<1> SUFFICES ASSUME InStep, [Next]_<<clock, passed>> PROVE InStep'
  OBVIOUS
<1>1. \A k \in Nat : Barrier(k) \in Nat /\ Barrier(k + 1) = Barrier(k) + Quantum
  BY BarrierStep
<1>2. /\ clock \in [Proc -> Nat] /\ passed \in [Proc -> Nat]
      /\ \A p \in Proc : clock[p] <= Barrier(passed[p])
      /\ \A p, q \in Proc : passed[p] > 0 => Barrier(passed[p] - 1) <= clock[q]
  BY DEF InStep
<1>3. \A k \in Nat : k > 0 => Barrier(k - 1) \in Nat
  BY BarrierBefore
<1>4. ASSUME NEW p \in Proc, Advance(p) PROVE InStep'
  <2>1. /\ clock[p] < Barrier(passed[p]) /\ passed' = passed
        /\ clock' = [clock EXCEPT ![p] = clock[p] + 1]
    BY <1>4 DEF Advance
  <2>2. clock' \in [Proc -> Nat] /\ \A q \in Proc : clock[q] <= clock'[q]
    BY <1>2, <2>1
  <2>3. \A q \in Proc : clock'[q] <= Barrier(passed'[q])
    BY <1>1, <1>2, <2>1
  <2>4. \A r, q \in Proc : passed'[r] > 0 => Barrier(passed'[r] - 1) <= clock'[q]
    BY <1>2, <1>3, <2>1, <2>2
  <2> QED BY <1>2, <2>1, <2>2, <2>3, <2>4 DEF InStep
<1>5. ASSUME NEW p \in Proc, Pass(p) PROVE InStep'
  <2>1. /\ clock[p] = Barrier(passed[p]) /\ clock' = clock
        /\ \A q \in Proc : clock[q] >= Barrier(passed[p])
        /\ passed' = [passed EXCEPT ![p] = passed[p] + 1]
    BY <1>5 DEF Pass
  <2>2. passed' \in [Proc -> Nat] /\ passed'[p] = passed[p] + 1 /\ passed'[p] - 1 = passed[p]
    BY <1>2, <2>1
  <2>3. \A r \in Proc : r # p => passed'[r] = passed[r]
    BY <1>2, <2>1
  <2>4. clock'[p] <= Barrier(passed'[p])
    BY <1>1, <1>2, <2>1, <2>2
  <2>5. \A q \in Proc : clock'[q] <= Barrier(passed'[q])
    BY <1>2, <2>1, <2>3, <2>4
  <2>6. \A q \in Proc : Barrier(passed'[p] - 1) <= clock'[q]
    BY <1>1, <1>2, <2>1, <2>2
  <2>7. \A r, q \in Proc : passed'[r] > 0 => Barrier(passed'[r] - 1) <= clock'[q]
    BY <1>2, <2>1, <2>3, <2>6
  <2> QED BY <1>2, <2>1, <2>2, <2>5, <2>7 DEF InStep
<1>6. CASE UNCHANGED <<clock, passed>>
  BY <1>2, <1>6 DEF InStep
<1> QED BY <1>4, <1>5, <1>6 DEF Next

(***************************************************************************)
(* Processes that keep to the barriers of dist-gem5 are never more than a  *)
(* quantum apart once the barriers have begun.                             *)
(***************************************************************************)
THEOREM WithinQuantumTheorem ==
    ASSUME Start \in Nat, Quantum \in Nat
    PROVE  Spec => []WithinQuantum
<1>1. InStep => WithinQuantum
  <2> SUFFICES ASSUME InStep, NEW p \in Proc, NEW q \in Proc
               PROVE  clock[p] <= Start \/ clock[p] <= clock[q] + Quantum
    BY DEF WithinQuantum
  <2>1. /\ clock[p] \in Nat /\ clock[q] \in Nat /\ passed[p] \in Nat
        /\ clock[p] <= Barrier(passed[p])
        /\ passed[p] > 0 => Barrier(passed[p] - 1) <= clock[q]
    BY DEF InStep
  <2>2. CASE passed[p] = 0
    <3>1. Barrier(0) = Start
      BY DEF Barrier
    <3> QED BY <2>1, <2>2, <3>1
  <2>3. CASE passed[p] > 0
    <3>1. /\ Barrier(passed[p] - 1) \in Nat
          /\ Barrier(passed[p]) = Barrier(passed[p] - 1) + Quantum
      BY <2>1, <2>3, BarrierBefore
    <3> QED BY <2>1, <2>3, <3>1
  <2> QED BY <2>1, <2>2, <2>3
<1>2. Init => InStep
  BY InitInStep
<1>3. InStep /\ [Next]_<<clock, passed>> => InStep'
  BY NextInStep
<1> QED BY <1>1, <1>2, <1>3, PTL DEF Spec
=============================================================================
