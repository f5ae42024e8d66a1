--------------------------- MODULE MCLoadGenerator ---------------------------
(* Instances of LoadGenerator for TLC. *)
EXTENDS LoadGenerator, TLC

Gen(mode, rate, inc, stop, delay, var, keep, restarts) ==
    [mode |-> mode, packetRate |-> rate, incrementInterval |-> inc, startTick |-> 1,
     stopTick |-> stop, burstWidth |-> 4, burstGap |-> 5, linkDelay |-> delay, delayVar |-> var,
     dutDelay |-> keep, maxRestores |-> restarts]

\* A generator that adapts its rate, with a link delay shorter and longer than the
\* time between frames and with none, with a rate that cannot be lowered, and with
\* a rate the link cannot take; a card so slow that frames come back late; rates
\* that become 0 and that wrap around; and the two modes that do not adapt.
MCSetups ==
    {Gen("Increment", 3, 2, 70, 2, 0, 1, 0), Gen("Increment", 3, 2, 36, 3, 0, 1, 1),
     Gen("Increment", 5, 4, 34, 3, 1, 1, 0), Gen("Increment", 2, 3, 40, 0, 1, 1, 0),
     Gen("Increment", 6, 2, 44, 0, 0, 14, 0), Gen("Increment", 2, 2, 50, 1, 0, 1, 0),
     Gen("Increment", 7, 2, 40, 1, 0, 1, 0),
     Gen("Static", 6, 5, 12, 3, 0, 1, 1), Gen("Burst", 4, 3, 16, 2, 1, 1, 0)}
=============================================================================
