------------------------------ MODULE EtherLink ------------------------------
(***************************************************************************)
(* One direction of an Ethernet link (gem5/src/dev/net/etherlink.cc, class *)
(* EtherLink::Link): the frame being transferred, and the frames that      *)
(* travel for the link's delay behind it.                                  *)
(***************************************************************************)
EXTENDS Integers, Sequences

Never == -1     \* the time of an event that is not scheduled
NoFrame == 0

idleLink == [packet |-> NoFrame, doneAt |-> Never, txQueue |-> <<>>, queueAt |-> Never]

busy(l) == l.packet # NoFrame

\* The ticks a transfer may take: bytes ticks, one more, and up to delayVar.
transferTicks(bytes, delayVar) == bytes + 1 .. bytes + 1 + delayVar

transmit(l, frame, done) ==
    [packet |-> frame, doneAt |-> done, txQueue |-> l.txQueue, queueAt |-> l.queueAt]

\* Fault: a frame joins the queue at its front.
joined_front(q, e) == <<e>> \o q

\* Fault: there is room for one frame.
joined_one(q, e) == <<e>>

\* A frame joins the frames that are delayed.
joined(q, e) == Append(q, e)

\* The end of a transfer.  With a link delay the frame joins the queue, and its
\* event is scheduled unless it is already.
txDone(l, now, linkDelay) ==
    LET queue == IF linkDelay > 0
                 THEN joined(l.txQueue, [at |-> now + linkDelay, frame |-> l.packet])
                 ELSE l.txQueue
    IN  [packet |-> NoFrame, doneAt |-> Never, txQueue |-> queue,
         queueAt |-> IF linkDelay > 0 /\ l.queueAt = Never THEN queue[1].at ELSE l.queueAt]

\* Fault: the event is not scheduled for the frame that follows.
processTxQueue_once(l) ==
    [packet |-> l.packet, doneAt |-> l.doneAt, txQueue |-> Tail(l.txQueue), queueAt |-> Never]

processTxQueue(l) ==
    [packet |-> l.packet, doneAt |-> l.doneAt, txQueue |-> Tail(l.txQueue),
     queueAt |-> IF Len(l.txQueue) > 1 THEN l.txQueue[2].at ELSE Never]

\* serialize() and unserialize(): the queue's event is scheduled for its front.
restored(l) ==
    [packet |-> l.packet, doneAt |-> l.doneAt, txQueue |-> l.txQueue,
     queueAt |-> IF l.txQueue = <<>> THEN Never ELSE l.txQueue[1].at]

Time == Nat \cup {Never}
Frame == Nat \ {NoFrame}
Link == [packet : Nat, doneAt : Time, queueAt : Time, txQueue : Seq([at : Nat, frame : Frame])]

(***************************************************************************)
(* The assertions of processTxQueue() and txDone(), and why they hold: an  *)
(* event is scheduled exactly when there is work for it, the queue is in   *)
(* strict order of time, nothing in it is overdue, and the frame that is   *)
(* being transferred will come behind it.                                  *)
(***************************************************************************)
LinkAsserts(l, now, linkDelay) ==
    /\ busy(l) = (l.doneAt # Never)
    /\ (l.txQueue = <<>>) = (l.queueAt = Never)
    /\ l.queueAt # Never => l.txQueue[1].at = l.queueAt
    /\ linkDelay = 0 => l.txQueue = <<>>
    /\ \A i, j \in DOMAIN l.txQueue : i < j => l.txQueue[i].at < l.txQueue[j].at
    /\ \A i \in DOMAIN l.txQueue :
         /\ now <= l.txQueue[i].at /\ l.txQueue[i].at <= now + linkDelay
         /\ busy(l) => l.txQueue[i].at < l.doneAt + linkDelay
    /\ busy(l) => now <= l.doneAt
=============================================================================
