------------------------------ MODULE DistSync -------------------------------
(***************************************************************************)
(* Distributed gem5: several simulator processes, one per simulated node   *)
(* and one for the Ethernet switch, each node connected to the switch by   *)
(* one link over one TCP connection.                                       *)
(*                                                                         *)
(*   gem5/src/dev/net/dist_iface.cc      Sync, SyncEvent, RecvScheduler,   *)
(*                                       receive threads, m5 operations    *)
(*   gem5/src/dev/net/dist_etherlink.cc  TxLink, RxLink                    *)
(*   gem5/src/dev/net/tcp_iface.cc       sendTCP, recvTCP                  *)
(*                                                                         *)
(* The processes run in step by a periodic barrier: a node sends a request *)
(* and waits, the switch collects one request per node and acknowledges.   *)
(* Requests carry the node's wishes (checkpoint, exit, stop the barriers), *)
(* acknowledgements the decision.  Every process has a simulation thread   *)
(* and one receive thread per link, which share the Sync object (guarded   *)
(* by its own lock) and the event queue (guarded by the queue's lock).     *)
(***************************************************************************)
EXTENDS Integers, Sequences, FiniteSets

CONSTANTS
    Node,         \* the node processes
    Switch,       \* the switch process
    SyncStart,    \* sync_start of the switch's links
    Repeat,       \* Repeat[p]: smallest sync_repeat of p's links
    LinkDelay,    \* LinkDelay[i]: delay of the link at end i
    SendDelay,    \* the transmission times a packet may have
    SimLength,    \* simLength of a packet, its sendDelay after a restore
    Setups,       \* the ways the simulation may be set up (see setup)
    MaxCkpts      \* bound on the checkpoints asked for

Proc == Node \cup {Switch}

\* The two ends of every link, named by the node and the side.
Iface == Node \X {"node", "switch"}
Owner(i) == IF i[2] = "node" THEN i[1] ELSE Switch
Peer(i) == <<i[1], IF i[2] = "node" THEN "switch" ELSE "node">>

\* ReqType of dist_packet.hh, for each of the three things a node can ask for.
ReqType == {"none", "collective", "immediate", "pending"}
Wish == {"ckpt", "exit", "stop"}

ASSUME ProcAssumption == IsFiniteSet(Node) /\ Node # {} /\ Switch \notin Node
ASSUME TimeAssumption == /\ SyncStart \in Nat
                         /\ Repeat \in [Proc -> Nat \ {0}]
                         /\ LinkDelay \in [Iface -> Nat]
                         /\ SendDelay \subseteq Nat \ {0}
                         /\ SimLength \in Nat \ {0}
(***************************************************************************)
(* A set-up: the m5 operations the workloads call and what else may happen *)
(* ("kill": a process is killed, "slowDrain": a drain outlasts the         *)
(* quantum, "restore": the checkpoint is restored); whether the nodes      *)
(* start unsynchronised (dist_sync_on_pseudo_op); whether no packet is     *)
(* sent before the first periodic barrier; and the bounds on its time and  *)
(* on the packets sent.                                                    *)
(***************************************************************************)
Setup == [requests : SUBSET {"ckpt", "ckptNow", "exit", "exitNow", "toggle",
                             "kill", "slowDrain", "restore"},
          pseudoOp : BOOLEAN, quiet : BOOLEAN, maxTick : Nat, maxPkts : Nat]

ASSUME EnvAssumption == Setups \subseteq Setup /\ MaxCkpts \in Nat

VARIABLES
    setup,    \* how the simulation is set up, fixed from the start
    tick,     \* curTick() of every process
    pc,       \* where its simulation thread is
    caller,   \* who called Sync::run() last
    ev,       \* SyncEvent: [when, repeat, scheduled]
    sync,     \* Sync: [waitNum, nextAt, nextRepeat, isAbort, do: decisions]
    need,     \* SyncNode: needCkpt, needExit, needStopSync
    num,      \* SyncSwitch: numCkptReq, numExitReq, numStopSyncReq
    exiting,  \* an exit event of exitSimLoop() is in the event queue
    wake,     \* node: tick from which its CPUs execute (Never: suspended)
    in,       \* in[i]: what has been sent to end i and not been received
    thread,   \* receive thread of end i is alive
    rx,       \* RecvScheduler of end i: [descQueue, recvDone, prevRecvTick, ckptRestore]
    txFree,   \* tick at which the TxLink of end i is idle again
    saved,    \* what the processes' checkpoints hold
    wrote,    \* history: checkpoints a process has written
    asked,    \* history: progress of a node's collective checkpoint request
    sent      \* history: number of packets sent

simVars == <<tick, pc, caller, ev, exiting, wake>>
syncVars == <<sync, need, num>>
linkVars == <<in, thread, rx, txFree, saved>>
history == <<wrote, asked, sent>>
vars == <<setup, simVars, syncVars, linkVars, history>>

(***************************************************************************)
(* The simulation thread is: not yet in startup(); simulating; in the sync *)
(* event's process(), with the event queue's lock released and run() not   *)
(* yet entered; waiting in run(); back from run() on the switch, the       *)
(* decision not yet read; draining for a checkpoint; gone (left the        *)
(* simulation, panicked, killed).                                          *)
(***************************************************************************)
Stopped == {"left", "panic", "killed"}
PC == {"startup", "run", "event", "wait", "acked", "drain"} \cup Stopped

\* startup(), toggleSync() and readyToExit() call start(); the others call
\* run() themselves.
Starting == {"startup", "toggle", "exit", "exitNow", "stop"}
Caller == Starting \cup {"periodic", "ckpt"}

Never == setup.maxTick + 1

\* The members of a process that has just been started.
newEvent == [when |-> 0, repeat |-> 0, scheduled |-> FALSE]
newSync(p) == [waitNum |-> IF p = Switch THEN Cardinality(Node) ELSE 0,
               nextAt |-> SyncStart, nextRepeat |-> Repeat[p],
               isAbort |-> FALSE, do |-> [w \in Wish |-> FALSE]]
newRx == [descQueue |-> <<>>, recvDone |-> 0, prevRecvTick |-> 0, ckptRestore |-> FALSE]

Init ==
    /\ setup \in Setups
    /\ tick = [p \in Proc |-> 0]
    /\ pc = [p \in Proc |-> "startup"]
    /\ caller = [p \in Proc |-> "startup"]
    /\ ev = [p \in Proc |-> newEvent]
    /\ sync = [p \in Proc |-> newSync(p)]
    /\ need = [n \in Node |-> [w \in Wish |-> "none"]]
    /\ num = [w \in Wish |-> 0]
    /\ exiting = [p \in Proc |-> FALSE]
    /\ wake = [n \in Node |-> 0]
    /\ in = [i \in Iface |-> <<>>]
    /\ thread = [i \in Iface |-> TRUE]
    /\ rx = [i \in Iface |-> newRx]
    /\ txFree = [i \in Iface |-> 0]
    /\ saved = [tick |-> tick, wake |-> wake, rx |-> rx, txFree |-> txFree,
                needExit |-> [n \in Node |-> "none"], numExitReq |-> 0]
    /\ wrote = [p \in Proc |-> 0]
    /\ asked = [n \in Node |-> "no"]
    /\ sent = 0

-----------------------------------------------------------------------------
(* The connections.  A message to a process that is gone vanishes, or the  *)
(* send fails and the sender panics (sendTCP).  A process that goes closes *)
(* its connections.                                                        *)

gone(p) == pc[p] \in Stopped

deliver(ch, to, msg) ==
    [i \in Iface |-> IF i \in to /\ ~ gone(Owner(i)) THEN Append(ch[i], msg) ELSE ch[i]]

closed(ch, p) ==
    [i \in Iface |-> IF Owner(Peer(i)) = p THEN Append(ch[i], [kind |-> "closed"]) ELSE ch[i]]

ends(p) == {i \in Iface : Owner(i) = p}
peers(p) == {i \in Iface : Owner(Peer(i)) = p}

\* The simulation thread of p stops for the reason given.
stops(p, why) ==
    /\ pc' = [pc EXCEPT ![p] = why]
    /\ in' = closed(in, p)

\* ::send() to a connection the peer has closed can fail, and then panics.
sendFails(p, to) ==
    /\ \E i \in to : gone(Owner(i))
    /\ stops(p, "panic")

-----------------------------------------------------------------------------
(* SyncNode::run() up to its wait, and SyncSwitch::run() up to its own     *)

\* Fault: the wait for the acknowledgement is not armed.
awaiting_none(n) == sync

\* waitNum = recvThreadsNum, of which a node has one.
awaiting(n) == [sync EXCEPT ![n].waitNum = 1]

nodeRun(n) ==
    /\ sync' = awaiting(n)
    /\ need' = [need EXCEPT ![n] = [w \in Wish |-> IF @[w] = "none" THEN "none" ELSE "pending"]]
    /\ asked' = [asked EXCEPT ![n] = IF @ = "yes" THEN "sent" ELSE @]
    /\ in' = deliver(in, {<<n, "switch">>},
                     [kind |-> "cmdSyncReq", sendTick |-> tick[n],
                      syncRepeat |-> sync[n].nextRepeat, need |-> need[n]])
    /\ pc' = [pc EXCEPT ![n] = "wait"]

\* assert(!isAbort) stops a node that enters a barrier after losing its connection.
run(p, who) ==
    /\ caller' = [caller EXCEPT ![p] = who]
    /\ IF p = Switch
       THEN pc' = [pc EXCEPT ![p] = "wait"] /\ UNCHANGED <<sync, need, asked, in>>
       ELSE \/ ~ sync[p].isAbort /\ nodeRun(p)
            \/ sendFails(p, peers(p)) /\ UNCHANGED <<sync, need, asked>>
            \/ sync[p].isAbort /\ stops(p, "panic") /\ UNCHANGED <<sync, need, asked>>

\* SyncEvent::start() up to the barrier.
start(p, who) ==
    /\ ev' = [ev EXCEPT ![p].repeat = sync[p].nextRepeat]
    /\ run(p, who)

\* requestCkpt and requestExit: an immediate request replaces a waiting one.
request(n, w, type) ==
    need' = IF need[n][w] = "none" \/ type = "immediate"
            THEN [need EXCEPT ![n][w] = type] ELSE need

exitType(who) == IF who = "exit" THEN "collective" ELSE "immediate"

-----------------------------------------------------------------------------
(* The simulation thread                                                   *)

\* RecvScheduler::resumeRecvTicks, called by the drainResume() that follows startup().
resumeRecvTicks(p) ==
    [i \in Iface |->
       IF Owner(i) = p /\ rx[i].ckptRestore
       THEN [rx[i] EXCEPT !.ckptRestore = FALSE,
                          !.recvDone = IF rx[i].descQueue = <<>> THEN @ ELSE tick[p],
                          !.descQueue = [k \in DOMAIN @ |-> [@[k] EXCEPT !.sendTick = tick[p],
                                                                        !.sendDelay = SimLength]]]
       ELSE rx[i]]

startup(p) ==
    /\ pc[p] = "startup"
    /\ IF setup.pseudoOp /\ p # Switch
       THEN /\ pc' = [pc EXCEPT ![p] = "run"]
            /\ rx' = resumeRecvTicks(p)
            /\ UNCHANGED <<caller, ev, sync, need, asked, in>>
       ELSE start(p, "startup") /\ UNCHANGED rx
    /\ UNCHANGED <<tick, exiting, wake, num, thread, txFree, saved, wrote, sent>>

\* Fault: the link delay is left out.
calcReceiveTick_noLink(sendTick, sendDelay, linkDelay) == sendTick + sendDelay

calcReceiveTick(sendTick, sendDelay, linkDelay) == sendTick + sendDelay + linkDelay

recvTick(i, d) == calcReceiveTick(d.sendTick, d.sendDelay, LinkDelay[i])

\* Ends of p with a recvDone event no later than the tick given.
due(p, now) == {i \in ends(p) : rx[i].descQueue # <<>> /\ rx[i].recvDone <= now}

\* RecvScheduler::popPacket in the recvDone event.
popPacket(i) ==
    LET q == Tail(rx[i].descQueue)
    IN  [rx[i] EXCEPT !.descQueue = q, !.prevRecvTick = rx[i].recvDone,
                      !.recvDone = IF q = <<>> THEN 0 ELSE recvTick(i, Head(q))]

popAll(ready) == [i \in Iface |-> IF i \in ready THEN popPacket(i) ELSE rx[i]]

(***************************************************************************)
(* The events of the next tick: packets whose receive time it is are       *)
(* handed to the simulated device, and a link that is idle may transmit    *)
(* one.  The sync event has the lowest priority, so time does not pass it. *)
(* A node may need time to drain (nothing in the switch does), and an exit *)
(* event that fires inside m5.drain() is dropped by its loop.              *)
(***************************************************************************)
simulate(p) ==
    LET now == tick[p] + 1
    IN  /\ pc[p] \in {"run", "drain"}
        /\ pc[p] = "run" => ~ exiting[p]
        /\ pc[p] = "drain" => p # Switch
        /\ pc[p] = "drain" /\ ev[p].scheduled => "slowDrain" \in setup.requests \/ now < ev[p].when
        /\ due(p, tick[p]) = {}
        /\ ~ (ev[p].scheduled /\ ev[p].when = tick[p])
        /\ now <= setup.maxTick
        /\ tick' = [tick EXCEPT ![p] = now]
        /\ exiting' = [exiting EXCEPT ![p] = FALSE]
        /\ rx' = popAll(due(p, now))
        /\ \/ UNCHANGED <<in, txFree, sent, pc>>
           \/ /\ setup.quiet => caller[p] \in {"periodic", "ckpt"}
              /\ sent < setup.maxPkts
              /\ sent' = sent + 1
              /\ \E i \in ends(p), d \in SendDelay :
                   /\ txFree[i] <= now
                   /\ txFree' = [txFree EXCEPT ![i] = now + d]
                   /\ \/ /\ in' = deliver(in, {Peer(i)},
                                          [kind |-> "dataDescriptor", sendTick |-> now,
                                           sendDelay |-> d, epoch |-> wrote[p]])
                         /\ UNCHANGED pc
                      \/ sendFails(p, {Peer(i)})
        /\ UNCHANGED <<caller, ev, wake, syncVars, thread, saved, wrote, asked>>

\* The recvDone events that resumeRecvTicks() put at the current tick.
receiveResumed(p) ==
    /\ pc[p] = "run" /\ due(p, tick[p]) # {}
    /\ rx' = popAll(due(p, tick[p]))
    /\ UNCHANGED <<simVars, syncVars, in, thread, txFree, saved, history>>

\* SyncEvent::process() up to run(true): the queue's lock is released.
process(p) ==
    /\ ev[p].scheduled /\ ev[p].when = tick[p] /\ due(p, tick[p]) = {}
    /\ \/ /\ pc[p] = "run" /\ ~ exiting[p]
          /\ pc' = [pc EXCEPT ![p] = "event"]
          /\ ev' = [ev EXCEPT ![p].scheduled = FALSE]
          /\ UNCHANGED in
       \/ /\ pc[p] = "drain"             \* "Distributed sync is hit while draining"
          /\ stops(p, "panic")
          /\ UNCHANGED ev
    /\ UNCHANGED <<tick, caller, exiting, wake, syncVars, thread, rx, txFree, saved, history>>

enterPeriodic(p) ==
    /\ pc[p] = "event"
    /\ run(p, "periodic")
    /\ UNCHANGED <<tick, ev, exiting, wake, num, thread, rx, txFree, saved, wrote, sent>>

\* Fault: a node saves its state without the barrier.
drainComplete_noBarrier(p) ==
    /\ pc[p] = "drain"
    /\ IF p = Switch THEN run(p, "ckpt") /\ UNCHANGED wrote
       ELSE /\ sync' = [sync EXCEPT ![p].do["ckpt"] = FALSE]
            /\ pc' = [pc EXCEPT ![p] = "run"]
            /\ wrote' = [wrote EXCEPT ![p] = @ + 1]
            /\ UNCHANGED <<caller, need, asked, in>>
    /\ UNCHANGED <<tick, ev, exiting, wake, num, thread, rx, txFree, saved, sent>>

\* DistIface::serialize() of a drained system: drainComplete() up to the barrier.
\* m5.drain() may have dropped an exit event.
drainComplete(p) ==
    /\ pc[p] = "drain"
    /\ run(p, "ckpt")
    /\ \E e \in IF p = Switch THEN {exiting[p]} ELSE {exiting[p], FALSE} :
         exiting' = [exiting EXCEPT ![p] = e]
    /\ UNCHANGED <<tick, ev, wake, num, thread, rx, txFree, saved, wrote, sent>>

\* Fault: one request is not waited for.
allArrived_early ==
    pc[Switch] = "wait" /\ sync[Switch].waitNum <= 1 /\ ~ sync[Switch].isAbort

allArrived ==
    pc[Switch] = "wait" /\ sync[Switch].waitNum = 0 /\ ~ sync[Switch].isAbort

\* Fault: the switch is not ready for the next requests when it acknowledges.
rearmed_late(do) == [sync EXCEPT ![Switch].do = do]

rearmed(do) == [sync EXCEPT ![Switch].waitNum = Cardinality(Node), ![Switch].do = do]

\* Fault: collective requests are forgotten after every barrier.
counters_reset(do) == [w \in Wish |-> 0]

\* numExitReq is not reset: the simulation is about to end.
counters(do) == [w \in Wish |-> IF do[w] /\ w # "exit" THEN 0 ELSE num[w]]

\* SyncSwitch::run() when every request is in: decide and acknowledge.
acknowledge ==
    LET do == [w \in Wish |-> sync[Switch].do[w] \/ num[w] = Cardinality(Node)]
    IN  /\ allArrived
        /\ sync' = rearmed(do)
        /\ num' = counters(do)
        /\ LET ack == [kind |-> "cmdSyncAck", sendTick |-> sync[Switch].nextAt,
                       syncRepeat |-> sync[Switch].nextRepeat,
                       need |-> [w \in Wish |-> IF do[w] THEN "immediate" ELSE "none"]]
           IN  \/ /\ in' = deliver(in, peers(Switch), ack)
                  /\ pc' = [pc EXCEPT ![Switch] = "acked"]
               \/ /\ \E i \in peers(Switch) : gone(Owner(i))
                  /\ \E reached \in SUBSET peers(Switch) :
                        in' = closed(deliver(in, reached, ack), Switch)
                  /\ pc' = [pc EXCEPT ![Switch] = "panic"]
        /\ UNCHANGED <<tick, caller, ev, exiting, wake, need, thread, rx, txFree, saved, history>>

-----------------------------------------------------------------------------
(* Back from run(): a node when its receive thread has seen the            *)
(* acknowledgement, the switch when it has sent them all                   *)

completed(p) ==
    /\ IF p = Switch THEN pc[p] = "acked"
                     ELSE pc[p] = "wait" /\ sync[p].waitNum = 0 /\ ~ sync[p].isAbort

\* SyncEvent::start() after the barrier, and readyToExit() after start().
startDone(p) ==
    /\ completed(p) /\ caller[p] \in Starting
    /\ ev' = [ev EXCEPT ![p].when = sync[p].nextAt, ![p].scheduled = TRUE]
    /\ pc' = [pc EXCEPT ![p] = "run"]
    /\ rx' = resumeRecvTicks(p)
    /\ IF caller[p] \in {"exit", "exitNow"} THEN request(p, "exit", exitType(caller[p]))
                                            ELSE UNCHANGED need
    /\ wake' = IF caller[p] = "toggle" THEN [wake EXCEPT ![p] = sync[p].nextAt + 1] ELSE wake
    /\ UNCHANGED <<tick, caller, exiting, sync, num, in, thread, txFree, saved, history>>

\* Fault: the decision to stop is left set.
stopSyncDone_left(p) == sync

stopSyncDone(p) == [sync EXCEPT ![p].do["stop"] = FALSE]

\* The rest of SyncEvent::process().  Exit events at one tick run last in, first
\* out, so an exit wins over a checkpoint decided by the same barrier.
processDone(p) ==
    LET do == sync[p].do
    IN  /\ completed(p) /\ caller[p] = "periodic"
        /\ \/ /\ do["exit"]
              /\ stops(p, "left")
              /\ UNCHANGED <<caller, ev, sync, need, asked, wake>>
           \/ /\ ~ do["exit"] /\ do["stop"] /\ p = Switch
              /\ ev' = [ev EXCEPT ![p].repeat = sync[p].nextRepeat]
              /\ sync' = stopSyncDone(p)
              /\ pc' = [pc EXCEPT ![p] = "wait"]
              /\ caller' = [caller EXCEPT ![p] = "stop"]
              /\ UNCHANGED <<need, asked, in, wake>>
           \/ /\ ~ do["exit"] /\ do["stop"] /\ p # Switch
              /\ sync' = stopSyncDone(p)
              /\ wake' = [wake EXCEPT ![p] = tick[p]]
              /\ pc' = [pc EXCEPT ![p] = IF do["ckpt"] THEN "drain" ELSE "run"]
              /\ UNCHANGED <<caller, ev, need, asked, in>>
           \/ /\ ~ do["exit"] /\ ~ do["stop"]
              /\ ev' = [ev EXCEPT ![p] = [when |-> tick[p] + sync[p].nextRepeat,
                                          repeat |-> sync[p].nextRepeat, scheduled |-> TRUE]]
              /\ pc' = [pc EXCEPT ![p] = IF do["ckpt"] THEN "drain" ELSE "run"]
              /\ UNCHANGED <<caller, sync, need, asked, in, wake>>
        /\ UNCHANGED <<tick, exiting, num, thread, rx, txFree, saved, wrote, sent>>

\* The serialize() functions of the interface, its receive scheduler and its links
\* (kept only where a restore can follow).
saving(p) ==
    LET own(new, old) == [i \in Iface |-> IF Owner(i) = p THEN new[i] ELSE old[i]]
    IN  IF "restore" \notin setup.requests THEN saved ELSE
        [saved EXCEPT !.tick[p] = tick[p],
                      !.rx = own(rx, @), !.txFree = own(txFree, @),
                      !.wake = IF p = Switch THEN @ ELSE [@ EXCEPT ![p] = wake[p]],
                      !.needExit = IF p = Switch THEN @ ELSE [@ EXCEPT ![p] = need[p]["exit"]],
                      !.numExitReq = IF p = Switch THEN num["exit"] ELSE @]

\* The rest of drainComplete(), the writing of the checkpoint and the resume.
ckptDone(p) ==
    /\ completed(p) /\ caller[p] = "ckpt"
    /\ sync' = [sync EXCEPT ![p].do["ckpt"] = FALSE]
    /\ pc' = [pc EXCEPT ![p] = "run"]
    /\ wrote' = [wrote EXCEPT ![p] = @ + 1]
    /\ asked' = IF p = Switch THEN asked ELSE [asked EXCEPT ![p] = IF @ = "sent" THEN "no" ELSE @]
    /\ saved' = saving(p)
    /\ UNCHANGED <<tick, caller, ev, exiting, wake, need, num, in, thread, rx, txFree, sent>>

\* run() returns false: start() panics, process() returns without scheduling
\* the next barrier, drainComplete() does not look.
aborted(p) ==
    /\ pc[p] = "wait" /\ sync[p].waitNum = 0 /\ sync[p].isAbort
    /\ \/ /\ caller[p] \in Starting
          /\ stops(p, "panic")
          /\ UNCHANGED <<sync, wrote, saved>>
       \/ /\ caller[p] = "periodic"
          /\ pc' = [pc EXCEPT ![p] = "run"]
          /\ UNCHANGED <<sync, wrote, saved, in>>
       \/ /\ caller[p] = "ckpt"
          /\ pc' = [pc EXCEPT ![p] = "run"]
          /\ sync' = [sync EXCEPT ![p].do["ckpt"] = FALSE]
          /\ wrote' = [wrote EXCEPT ![p] = @ + 1]
          /\ saved' = saving(p)
          /\ UNCHANGED in
    /\ UNCHANGED <<tick, caller, ev, exiting, wake, need, num, thread, rx, txFree, asked, sent>>

\* The exit event of a lost connection ends the simulation.
leave(p) ==
    /\ pc[p] = "run" /\ exiting[p]
    /\ stops(p, "left")
    /\ UNCHANGED <<tick, caller, ev, exiting, wake, syncVars, thread, rx, txFree, saved, history>>

-----------------------------------------------------------------------------
(* The receive thread of end i                                             *)

\* start() called from an event: the thread that waits holds the queue's lock.
queueLocked(p) ==
    pc[p] \in {"wait", "acked"} /\ caller[p] \in Starting \ {"startup"}

receives(i, kinds) ==
    /\ thread[i] /\ ~ gone(Owner(i))
    /\ in[i] # <<>> /\ Head(in[i]).kind \in kinds

\* RecvScheduler::pushPacket
pushPacket(i) ==
    /\ receives(i, {"dataDescriptor"}) /\ ~ queueLocked(Owner(i))
    /\ LET m == Head(in[i])
           d == [sendTick |-> m.sendTick, sendDelay |-> m.sendDelay, epoch |-> m.epoch]
       IN  rx' = [rx EXCEPT ![i].descQueue = Append(@, d),
                            ![i].recvDone = IF rx[i].descQueue = <<>> THEN recvTick(i, d) ELSE @]
    /\ in' = [in EXCEPT ![i] = Tail(@)]
    /\ UNCHANGED <<simVars, syncVars, thread, txFree, saved, history>>

\* SyncNode::progress; the thread ends when the simulation is to exit.  A node has
\* one connection, and the thread that aborts its barrier reads nothing after, so
\* the early return for an aborted barrier is never taken here.
nodeProgress(n) ==
    LET i == <<n, "node">>
        m == Head(in[i])
        do == [w \in Wish |-> m.need[w] # "none"]
    IN  /\ receives(i, {"cmdSyncAck"}) /\ ~ sync[n].isAbort
        /\ sync' = [sync EXCEPT ![n] = [waitNum |-> @.waitNum - 1, nextAt |-> m.sendTick,
                                        nextRepeat |-> m.syncRepeat, isAbort |-> FALSE, do |-> do]]
        /\ thread' = [thread EXCEPT ![i] = ~ do["exit"]]
        /\ in' = [in EXCEPT ![i] = Tail(@)]
        /\ UNCHANGED <<simVars, need, num, rx, txFree, saved, history>>

\* Fault: a collective request decides alone.
immediate_any(m) == [w \in Wish |-> sync[Switch].do[w] \/ m.need[w] # "none"]

immediate(m) == [w \in Wish |-> sync[Switch].do[w] \/ m.need[w] = "immediate"]

\* SyncSwitch::progress
switchProgress(n) ==
    LET i == <<n, "switch">>
        m == Head(in[i])
        s == sync[Switch]
    IN  /\ receives(i, {"cmdSyncReq"})
        /\ IF s.isAbort
           THEN thread' = [thread EXCEPT ![i] = FALSE] /\ UNCHANGED <<sync, num>>
           ELSE /\ sync' = [sync EXCEPT ![Switch] =
                     [waitNum |-> s.waitNum - 1,
                      nextAt |-> IF m.sendTick > s.nextAt THEN m.sendTick ELSE s.nextAt,
                      nextRepeat |-> IF s.nextRepeat > m.syncRepeat THEN m.syncRepeat ELSE s.nextRepeat,
                      isAbort |-> FALSE, do |-> immediate(m)]]
                /\ num' = [w \in Wish |-> IF m.need[w] = "collective" THEN num[w] + 1 ELSE num[w]]
                /\ UNCHANGED thread
        /\ in' = [in EXCEPT ![i] = Tail(@)]
        /\ UNCHANGED <<simVars, need, rx, txFree, saved, history>>

\* Fault: the waiting simulation thread is not released.
abort_none(p) == sync

\* Sync::abort
abort(p) == [sync EXCEPT ![p].waitNum = 0, ![p].isAbort = TRUE]

\* recvHeader() fails: stop the simulation, abort the barrier, end the thread.
connectionLost(i) ==
    /\ receives(i, {"closed"}) /\ ~ queueLocked(Owner(i))
    /\ exiting' = [exiting EXCEPT ![Owner(i)] = TRUE]
    /\ sync' = abort(Owner(i))
    /\ thread' = [thread EXCEPT ![i] = FALSE]
    /\ in' = [in EXCEPT ![i] = Tail(@)]
    /\ UNCHANGED <<tick, pc, caller, ev, wake, need, num, rx, txFree, saved, history>>

-----------------------------------------------------------------------------
(* What the simulated programs do: the m5 operations of pseudo_inst.cc     *)

executing(n) == pc[n] = "run" /\ ~ exiting[n] /\ wake[n] <= tick[n]

readyToCkpt(n) ==
    /\ executing(n) /\ wrote[n] < MaxCkpts
    /\ \E op \in {"ckpt", "ckptNow"} \cap setup.requests :
         /\ request(n, "ckpt", IF op = "ckpt" THEN "collective" ELSE "immediate")
         /\ asked' = [asked EXCEPT ![n] = IF op = "ckpt" /\ @ = "no" THEN "yes" ELSE @]
    /\ UNCHANGED <<simVars, sync, num, linkVars, wrote, sent>>

readyToExit(n) ==
    /\ executing(n)
    /\ \E who \in {"exit", "exitNow"} \cap setup.requests :
         IF ev[n].scheduled
         THEN /\ request(n, "exit", exitType(who))
              /\ UNCHANGED <<pc, caller, ev, sync, asked, in>>
         ELSE start(n, who)
    /\ UNCHANGED <<tick, exiting, wake, num, thread, rx, txFree, saved, wrote, sent>>

toggleSync(n) ==
    /\ executing(n) /\ "toggle" \in setup.requests
    /\ IF ev[n].scheduled
       THEN /\ need' = [need EXCEPT ![n]["stop"] = "collective"]
            /\ wake' = [wake EXCEPT ![n] = Never]
            /\ UNCHANGED <<pc, caller, ev, sync, asked, in>>
       ELSE start(n, "toggle") /\ UNCHANGED wake
    /\ UNCHANGED <<tick, exiting, num, thread, rx, txFree, saved, wrote, sent>>

\* A process is stopped from outside.
kill(p) ==
    /\ "kill" \in setup.requests
    /\ \A q \in Proc : ~ gone(q)
    /\ stops(p, "killed")
    /\ UNCHANGED <<tick, caller, ev, exiting, wake, syncVars, thread, rx, txFree, saved, history>>

(***************************************************************************)
(* All processes are started from the checkpoint they have written:        *)
(* DistIface::unserialize and the unserialize of its parts.                *)
(***************************************************************************)
restore ==
    /\ "restore" \in setup.requests
    /\ \A p \in Proc : wrote[p] > 0 /\ wrote[p] = wrote[Switch]
    /\ tick' = saved.tick
    /\ pc' = [p \in Proc |-> "startup"]
    /\ caller' = [p \in Proc |-> "startup"]
    /\ ev' = [p \in Proc |-> newEvent]
    /\ sync' = [p \in Proc |-> newSync(p)]
    /\ need' = [n \in Node |-> [w \in Wish |-> IF w = "exit" THEN saved.needExit[n] ELSE "none"]]
    /\ num' = [w \in Wish |-> IF w = "exit" THEN saved.numExitReq ELSE 0]
    /\ exiting' = [p \in Proc |-> FALSE]
    /\ wake' = saved.wake
    /\ in' = [i \in Iface |-> <<>>]
    /\ thread' = [i \in Iface |-> TRUE]
    /\ rx' = [i \in Iface |-> [saved.rx[i] EXCEPT !.ckptRestore = TRUE]]
    /\ txFree' = saved.txFree
    /\ asked' = [n \in Node |-> "no"]
    /\ UNCHANGED <<saved, wrote, sent>>

-----------------------------------------------------------------------------
SimThread(p) ==
    \/ startup(p) \/ simulate(p) \/ receiveResumed(p) \/ process(p) \/ enterPeriodic(p) \/ drainComplete(p)
    \/ startDone(p) \/ processDone(p) \/ ckptDone(p) \/ aborted(p) \/ leave(p)

RecvThread(i) == pushPacket(i) \/ connectionLost(i)

Workload(n) == readyToCkpt(n) \/ readyToExit(n) \/ toggleSync(n)

Next ==
    /\ \/ \E p \in Proc : SimThread(p) \/ kill(p)
       \/ acknowledge \/ restore
       \/ \E i \in Iface : RecvThread(i)
       \/ \E n \in Node : nodeProgress(n) \/ switchProgress(n) \/ Workload(n)
    /\ UNCHANGED setup

Spec == Init /\ [][Next]_vars

(***************************************************************************)
(* Fairness.  Every thread of every process runs: a simulation thread that *)
(* has something to do does it, a receive thread takes what has arrived.   *)
(* Nothing forces a workload to call an m5 operation.                      *)
(***************************************************************************)
Fairness ==
    /\ \A p \in Proc : WF_vars(SimThread(p) /\ UNCHANGED setup)
    /\ WF_vars(acknowledge /\ UNCHANGED setup)
    /\ \A i \in Iface : WF_vars(RecvThread(i) /\ UNCHANGED setup)
    /\ \A n \in Node : /\ WF_vars(nodeProgress(n) /\ UNCHANGED setup)
                        /\ WF_vars(switchProgress(n) /\ UNCHANGED setup)

FairSpec == Spec /\ Fairness

-----------------------------------------------------------------------------
(* Properties                                                              *)

Decision == [Wish -> BOOLEAN]
Message == [kind : {"closed"}]
             \cup [kind : {"dataDescriptor"}, sendTick : Nat, sendDelay : Nat, epoch : Nat]
             \cup [kind : {"cmdSyncReq", "cmdSyncAck"}, sendTick : Nat, syncRepeat : Nat,
                   need : [Wish -> ReqType]]
Desc == [sendTick : Nat, sendDelay : Nat, epoch : Nat]
Scheduler == [descQueue : Seq(Desc), recvDone : Nat, prevRecvTick : Nat, ckptRestore : BOOLEAN]

\* Type invariant of the distributed simulation.
TypeOK ==
    /\ setup \in Setup
    /\ tick \in [Proc -> Nat]
    /\ pc \in [Proc -> PC]
    /\ caller \in [Proc -> Caller]
    /\ ev \in [Proc -> [when : Nat, repeat : Nat, scheduled : BOOLEAN]]
    /\ sync \in [Proc -> [waitNum : Nat, nextAt : Nat, nextRepeat : Nat,
                          isAbort : BOOLEAN, do : Decision]]
    /\ need \in [Node -> [Wish -> ReqType]]
    /\ num \in [Wish -> 0 .. Cardinality(Node)]
    /\ exiting \in [Proc -> BOOLEAN]
    /\ wake \in [Node -> Nat]
    /\ in \in [Iface -> Seq(Message)]
    /\ thread \in [Iface -> BOOLEAN]
    /\ rx \in [Iface -> Scheduler]
    /\ txFree \in [Iface -> Nat]
    /\ saved \in [tick : [Proc -> Nat], wake : [Node -> Nat], rx : [Iface -> Scheduler],
                  txFree : [Iface -> Nat], needExit : [Node -> ReqType],
                  numExitReq : 0 .. Cardinality(Node)]
    /\ wrote \in [Proc -> Nat]
    /\ asked \in [Node -> {"no", "yes", "sent"}]
    /\ sent \in Nat

\* The repeat value the first barrier agrees on.
Quantum == CHOOSE r \in {Repeat[p] : p \in Proc} : \A p \in Proc : r <= Repeat[p]

(***************************************************************************)
(* The assertions of Sync::run, Sync::progress and SyncEvent::start: a     *)
(* barrier is entered with no answer outstanding, a message of a barrier   *)
(* finds somebody waiting for it, the periodic barrier ends at the tick it *)
(* began at in every process, and the barrier of start() decides nothing.  *)
(***************************************************************************)
SyncAsserts ==
    /\ \A n \in Node : pc[n] \in {"startup", "run", "event", "drain"} => sync[n].waitNum = 0
    /\ \A n \in Node : /\ receives(<<n, "node">>, {"cmdSyncAck"})
                            => sync[n].waitNum > 0 \/ sync[n].isAbort
                       /\ receives(<<n, "switch">>, {"cmdSyncReq"})
                            => sync[Switch].waitNum > 0 \/ sync[Switch].isAbort
    /\ \A p \in Proc : /\ pc[p] = "wait" /\ sync[p].waitNum = 0 /\ ~ sync[p].isAbort
                            => (caller[p] = "periodic" => sync[p].nextAt = tick[p])
                       /\ completed(p) /\ caller[p] \in Starting
                            => /\ \A w \in Wish : ~ sync[p].do[w]
                               /\ sync[p].nextAt >= tick[p]
                               /\ sync[p].nextRepeat <= ev[p].repeat

\* The packet that the receive thread of end i is about to push.
pushing(i) == receives(i, {"dataDescriptor"}) /\ ~ queueLocked(Owner(i))

(***************************************************************************)
(* The assertions of pushPacket(): "Every packet must be sent and arrive   *)
(* in the same quantum" and "No packet may be scheduled for receive in the *)
(* arrival quantum".  The difference of ticks is unsigned.                 *)
(***************************************************************************)
SameQuantum ==
    \A i \in Iface : pushing(i) =>
      LET e == ev[Owner(i)]
          m == Head(in[i])
      IN  /\ e.when >= e.repeat /\ m.sendTick > e.when - e.repeat
          /\ m.sendTick + m.sendDelay + LinkDelay[i] > e.when

(***************************************************************************)
(* The assertions and panics of calcReceiveTick() and of the order check   *)
(* in pushPacket(): the receive event of a packet can always be scheduled, *)
(* when it arrives and when the packet before it has been received.        *)
(***************************************************************************)
Schedulable ==
    \A i \in Iface :
      LET p == Owner(i)
          q == rx[i].descQueue
          m == Head(in[i])
          t == recvTick(i, m)
      IN  /\ pushing(i) => /\ t > tick[p] /\ t >= rx[i].prevRecvTick + m.sendDelay
                           /\ q # <<>> => Head(q).sendTick + Head(q).sendDelay <= t
          /\ q # <<>> /\ ~ gone(p) /\ ~ rx[i].ckptRestore => rx[i].recvDone >= tick[p]
          /\ Len(q) >= 2 /\ ~ rx[i].ckptRestore
               => recvTick(i, q[2]) >= rx[i].recvDone + q[2].sendDelay

(***************************************************************************)
(* A checkpoint is taken by all processes after the same barrier: while    *)
(* one drains for it, every other has decided the same or has not yet read *)
(* the decision; none simulates on (unless a process has stopped).         *)
(***************************************************************************)
CkptAgreement ==
    (\E p \in Proc : pc[p] = "drain") /\ (\A p \in Proc : ~ gone(p))
      => \A q \in Proc : pc[q] \in {"drain", "wait", "acked"}

(***************************************************************************)
(* The barrier in drainComplete() empties the physical network: when a     *)
(* process writes its checkpoint, every packet its peers had sent before   *)
(* theirs is in a receive queue, so none is lost by a restore (as long as  *)
(* no process has stopped: drainComplete() ignores an aborted barrier).    *)
(***************************************************************************)
NetworkDrained ==
    [][\A i \in Iface :
         wrote'[Owner(i)] # wrote[Owner(i)] /\ (\A p \in Proc : ~ gone(p))
           => \A k \in DOMAIN in[i] : in[i][k].kind = "dataDescriptor"
                                        => in[i][k].epoch > wrote[Owner(i)]]_vars

(***************************************************************************)
(* "Drain the dist interface before the checkpoint is taken" (serialize):  *)
(* a receive queue that is saved holds no packet that its peer sent after  *)
(* saving its own state, and will send again when restored.                *)
(***************************************************************************)
CleanSnapshot ==
    [][\A i \in Iface :
         wrote'[Owner(i)] # wrote[Owner(i)]
           => \A k \in DOMAIN rx[i].descQueue : rx[i].descQueue[k].epoch <= wrote[Owner(i)]]_vars

(***************************************************************************)
(* The periodic barrier implements lockstep simulation: clocks that pass a *)
(* multiple of the quantum only when all of them have reached it.          *)
(***************************************************************************)
passed == [p \in Proc |-> IF ev[p].when < SyncStart THEN 0
                                                   ELSE (ev[p].when - SyncStart) \div Quantum]

Clocks == INSTANCE Lockstep WITH Start <- SyncStart, clock <- tick, passed <- passed

LockstepSpec == Clocks!Spec

(***************************************************************************)
(* "no gem5 process can go ahead further than the simulated link           *)
(* transmission delay" (dist_iface.hh).                                    *)
(***************************************************************************)
WithinQuantum == Clocks!WithinQuantum

(***************************************************************************)
(* "We lost connection to the peer gem5 processes most likely because one  *)
(* of them called m5 exit. So we stop here." (recvThreadFunc): when one    *)
(* process has gone, all eventually stop.                                  *)
(***************************************************************************)
StopsOnLoss == (\E p \in Proc : gone(p)) ~> (\A p \in Proc : gone(p))

(***************************************************************************)
(* "m5 exit called with zero delay => triggering collaborative exit"       *)
(* (readyToExit): when every node has asked and another barrier comes, all *)
(* processes leave the simulation, none by a panic, unless one is killed.  *)
(***************************************************************************)
CollectiveExit ==
    (/\ \A n \in Node : need[n]["exit"] \in {"collective", "pending"}
     /\ \A n \in Node : tick[n] + Quantum < setup.maxTick)
      ~> ((\A p \in Proc : pc[p] = "left") \/ (\E p \in Proc : pc[p] = "killed"))

(***************************************************************************)
(* "m5 checkpoint called with zero delay => triggering collaborative       *)
(* checkpoint" (readyToCkpt): a barrier for which every node has sent its  *)
(* request decides for a checkpoint.                                       *)
(***************************************************************************)
CkptHonoured ==
    [][pc[Switch] = "wait" /\ pc'[Switch] = "acked" /\ (\A n \in Node : asked[n] = "sent")
         => sync'[Switch].do["ckpt"]]_vars
=============================================================================
