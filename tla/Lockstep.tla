------------------------------ MODULE Lockstep -------------------------------
(***************************************************************************)
(* What the periodic barrier of distributed gem5 promises: the processes'  *)
(* clocks meet at the ticks Start, Start + Quantum, Start + 2 Quantum, ... *)
(* and a clock passes such a tick only when every clock has reached it.    *)
(***************************************************************************)
EXTENDS Naturals

CONSTANTS
    Proc,      \* the processes
    Start,     \* tick of the first barrier
    Quantum    \* ticks between two barriers

VARIABLES
    clock,     \* simulated time of every process
    passed     \* barriers every process has passed

Barrier(k) == Start + k * Quantum

Init == /\ clock = [p \in Proc |-> 0]
        /\ passed = [p \in Proc |-> 0]

Advance(p) == /\ clock[p] < Barrier(passed[p])
              /\ clock' = [clock EXCEPT ![p] = @ + 1]
              /\ UNCHANGED passed

Pass(p) == /\ clock[p] = Barrier(passed[p])
           /\ \A q \in Proc : clock[q] >= Barrier(passed[p])
           /\ passed' = [passed EXCEPT ![p] = @ + 1]
           /\ UNCHANGED clock

Next == \E p \in Proc : Advance(p) \/ Pass(p)

Spec == Init /\ [][Next]_<<clock, passed>>

(***************************************************************************)
(* "no gem5 process can go ahead further than the simulated link           *)
(* transmission delay" (dist_iface.hh): once the barriers have begun, no   *)
(* process is more than a quantum ahead of another.                        *)
(***************************************************************************)
WithinQuantum ==
    \A p, q \in Proc : clock[p] <= Start \/ clock[p] <= clock[q] + Quantum

(***************************************************************************)
(* Why: a clock is at most at the barrier its process comes to next, and   *)
(* every clock has reached the barrier any process has passed last.        *)
(***************************************************************************)
InStep ==
    /\ clock \in [Proc -> Nat] /\ passed \in [Proc -> Nat]
    /\ \A p \in Proc : clock[p] <= Barrier(passed[p])
    /\ \A p, q \in Proc : passed[p] > 0 => Barrier(passed[p] - 1) <= clock[q]
=============================================================================
