----------------------------- MODULE MCDistSync ------------------------------
(* Instances of DistSync for TLC. *)
EXTENDS DistSync, TLC

CONSTANTS n1, n2, sw

MCNode == {n1, n2}
MCOneNode == {n1}

\* The links of n1 have the smallest sync_repeat.
MCRepeat == [p \in Proc |-> IF p = n1 THEN 2 ELSE 3]
MCLinkDelay == [i \in Iface |-> IF i[2] = "node" THEN 2 ELSE 3]

Quiet(requests, maxTick, maxPkts) ==
    [requests |-> requests, pseudoOp |-> FALSE, quiet |-> TRUE, maxTick |-> maxTick,
     maxPkts |-> maxPkts]
Toggled(requests, maxTick) ==
    [requests |-> requests, pseudoOp |-> TRUE, quiet |-> TRUE, maxTick |-> maxTick,
     maxPkts |-> 0]

\* The set-ups of the runs.
SyncSetups == {Quiet({"ckpt"}, 7, 1), Quiet({"exit", "kill"}, 6, 1)}
StopSetups == {Quiet({"exit", "kill"}, 4, 0), Quiet({"ckpt", "slowDrain", "kill"}, 4, 0),
               Quiet({"ckpt", "restore"}, 3, 1), Toggled({"toggle", "exit"}, 4)}
RestoreSetups == {Quiet({"ckpt", "restore"}, 9, 3)}
ToggleSetups == {Toggled({"toggle", "kill"}, 4)}
=============================================================================
