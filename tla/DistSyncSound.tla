--------------------------- MODULE DistSyncSound ----------------------------
(***************************************************************************)
(* The barrier of distributed gem5, for any number of nodes, any periods   *)
(* and delays, and any number of processes that stop: the types, what      *)
(* every step changes of the state the barrier is about (Step), and Sound, *)
(* the inductive invariant, which holds at the start and which the steps   *)
(* preserve.                                                               *)
(***************************************************************************)
EXTENDS DistSync, TLAPS

Event == [when : Nat, repeat : Nat, scheduled : BOOLEAN]
SyncType == [waitNum : Int, nextAt : Nat, nextRepeat : Nat, isAbort : BOOLEAN, do : Decision]
SavedType == [tick : [Proc -> Nat], wake : [Node -> Nat], rx : [Iface -> Scheduler],
              txFree : [Iface -> Nat], needExit : [Node -> ReqType], numExitReq : Nat]

\* The types, with no bound on the counters of the barrier.
SimTypes ==
    /\ setup \in Setup /\ tick \in [Proc -> Nat] /\ pc \in [Proc -> PC] /\ caller \in [Proc -> Caller]
    /\ ev \in [Proc -> Event] /\ exiting \in [Proc -> BOOLEAN] /\ wake \in [Node -> Nat]
SyncTypes ==
    /\ sync \in [Proc -> SyncType] /\ need \in [Node -> [Wish -> ReqType]] /\ num \in [Wish -> Nat]
LinkTypes ==
    /\ in \in [Iface -> Seq(Message)] /\ thread \in [Iface -> BOOLEAN] /\ rx \in [Iface -> Scheduler]
    /\ txFree \in [Iface -> Nat] /\ saved \in SavedType
HistoryTypes ==
    /\ wrote \in [Proc -> Nat] /\ asked \in [Node -> {"no", "yes", "sent"}] /\ sent \in Nat
Types == SimTypes /\ SyncTypes /\ LinkTypes /\ HistoryTypes

\* What the proofs use of the number of nodes and of the periods (proved in
\* DistSyncProofs, from the assumption that there are finitely many nodes).
Counting ==
    /\ Cardinality(Node) \in Nat \ {0}
    /\ \A C \in SUBSET Node :
         /\ Cardinality(Node \ C) \in Nat /\ (Cardinality(Node \ C) = 0 => C = Node)
         /\ \A n \in Node \ C : Cardinality(Node \ (C \cup {n})) = Cardinality(Node \ C) - 1

\* The quantum is the smallest of the periods.
LeastRepeat ==
    /\ Quantum \in {Repeat[p] : p \in Proc} /\ Quantum \in Nat \ {0}
    /\ \A p \in Proc : Quantum <= Repeat[p]
    /\ \A r \in {Repeat[p] : p \in Proc} : (\A p \in Proc : r <= Repeat[p]) => r = Quantum

-----------------------------------------------------------------------------
(* Types                                                                   *)

SyncMessage == [kind : {"cmdSyncReq", "cmdSyncAck"}, sendTick : Nat, syncRepeat : Nat,
                need : [Wish -> ReqType]]
DataMessage == [kind : {"dataDescriptor"}, sendTick : Nat, sendDelay : Nat, epoch : Nat]

\* The kind of a message tells its fields.
LEMMA MessageKind ==
    ASSUME NEW m \in Message
    PROVE  /\ m.kind \in {"cmdSyncReq", "cmdSyncAck"} => m \in SyncMessage
           /\ m.kind = "dataDescriptor" => m \in DataMessage
           /\ m.kind \in {"cmdSyncReq", "cmdSyncAck", "dataDescriptor", "closed"}
BY Zenon DEF Message, SyncMessage, DataMessage

LEMMA MessageTypes == SyncMessage \cup DataMessage \cup [kind : {"closed"}] = Message
BY Zenon DEF Message, SyncMessage, DataMessage

\* The ends of the links.
LEMMA Ends ==
    /\ \A i \in Iface : /\ i[1] \in Node /\ i = <<i[1], i[2]>> /\ i[2] \in {"node", "switch"}
                        /\ Peer(i) \in Iface /\ Owner(i) \in Proc /\ Peer(Peer(i)) = i
                        /\ (Owner(i) = Switch) = (i[2] = "switch")
                        /\ Owner(i) # Owner(Peer(i))
    /\ \A n \in Node : /\ <<n, "node">> \in Iface /\ <<n, "switch">> \in Iface
                       /\ Owner(<<n, "node">>) = n /\ Owner(<<n, "switch">>) = Switch
                       /\ Peer(<<n, "node">>) = <<n, "switch">> /\ Peer(<<n, "switch">>) = <<n, "node">>
                       /\ n # Switch /\ n \in Proc
    /\ Switch \in Proc /\ Switch \notin Node
BY ProcAssumption DEF Iface, Owner, Peer, Proc

\* deliver() and closed() add to channels.
LEMMA ChannelTypes ==
    ASSUME NEW ch \in [Iface -> Seq(Message)], NEW to, NEW m \in Message, NEW p
    PROVE  deliver(ch, to, m) \in [Iface -> Seq(Message)] /\ closed(ch, p) \in [Iface -> Seq(Message)]
<1> DEFINE T == Message
<1> HIDE DEF T
<1>1. ch \in [Iface -> Seq(T)] /\ m \in T /\ [kind |-> "closed"] \in T
  BY Zenon DEF T, Message
<1>2. \A i \in Iface : ch[i] \in Seq(T)
  BY Zenon, <1>1
<1>3. \A i \in Iface : Append(ch[i], m) \in Seq(T) /\ Append(ch[i], [kind |-> "closed"]) \in Seq(T)
  BY <1>1, <1>2
<1>4. deliver(ch, to, m) \in [Iface -> Seq(T)] /\ closed(ch, p) \in [Iface -> Seq(T)]
  BY Zenon, <1>2, <1>3 DEF deliver, closed
<1> QED BY Zenon, <1>4 DEF T

\* stops(), and run() of either kind, keep the types.
LEMMA StopsTypes ==
    ASSUME Types, NEW p \in Proc, NEW why \in Stopped, stops(p, why)
    PROVE  pc' \in [Proc -> PC] /\ in' \in [Iface -> Seq(Message)]
<1>1. pc' \in [Proc -> PC]
  BY Zenon DEF Types, SimTypes, stops, PC
<1>2. [kind |-> "closed"] \in Message /\ in \in [Iface -> Seq(Message)]
  BY Zenon DEF Message, Types, LinkTypes
<1> QED BY Zenon, <1>1, <1>2, ChannelTypes DEF stops

LEMMA RunTypes ==
    ASSUME Types, NEW p \in Proc, NEW who \in Caller, run(p, who)
    PROVE  /\ pc' \in [Proc -> PC] /\ in' \in [Iface -> Seq(Message)] /\ caller' \in [Proc -> Caller]
           /\ num' = num => SyncTypes'
           /\ asked' \in [Node -> {"no", "yes", "sent"}]
<1>1. caller' \in [Proc -> Caller]
  BY Zenon DEF Types, SimTypes, run
<1>2. CASE p = Switch
  <2>1. pc' \in [Proc -> PC]
    BY Zenon, <1>2 DEF Types, SimTypes, run, PC
  <2> QED BY Zenon, <1>1, <1>2, <2>1 DEF run, Types, SyncTypes, LinkTypes, HistoryTypes
<1>3. CASE p # Switch /\ nodeRun(p)
  <2>1. p \in Node
    BY Zenon, <1>3 DEF Proc
  <2>2. pc' \in [Proc -> PC]
    BY Zenon, <1>3 DEF Types, SimTypes, nodeRun, PC
  <2>3. sync' \in [Proc -> SyncType]
    BY SMTT(30), <1>3 DEF Types, SyncTypes, nodeRun, awaiting, SyncType
  <2>4. need' \in [Node -> [Wish -> ReqType]]
    BY Zenon, <1>3 DEF Types, SyncTypes, nodeRun, ReqType
  <2>5. asked' \in [Node -> {"no", "yes", "sent"}]
    BY Zenon, <1>3, <2>1 DEF Types, HistoryTypes, nodeRun
  <2>6. [kind |-> "cmdSyncReq", sendTick |-> tick[p], syncRepeat |-> sync[p].nextRepeat, need |-> need[p]] \in SyncMessage
    BY Zenon, <2>1 DEF SyncMessage, Types, SyncTypes, SimTypes, SyncType
  <2>7. [kind |-> "cmdSyncReq", sendTick |-> tick[p], syncRepeat |-> sync[p].nextRepeat, need |-> need[p]] \in Message
    BY Zenon, <2>6, MessageTypes
  <2>8. in' \in [Iface -> Seq(Message)]
    BY Zenon, <1>3, <2>7, ChannelTypes DEF nodeRun, Types, LinkTypes
  <2> QED BY Zenon, <1>1, <2>2, <2>3, <2>4, <2>5, <2>8 DEF Types, SyncTypes
<1>4. CASE p # Switch /\ stops(p, "panic") /\ UNCHANGED <<sync, need, asked>>
  BY Zenon, <1>1, <1>4, StopsTypes DEF Types, SyncTypes, HistoryTypes, Stopped
<1> QED BY Zenon, <1>2, <1>3, <1>4 DEF run, sendFails

LEMMA RequestTypes ==
    ASSUME Types, NEW n \in Node, NEW w \in Wish, NEW type \in ReqType, request(n, w, type)
    PROVE  need' \in [Node -> [Wish -> ReqType]]
BY Zenon DEF request, Types, SyncTypes

\* The receive scheduler.
LEMMA SchedulerTypes ==
    ASSUME Types
    PROVE  /\ \A p \in Proc : resumeRecvTicks(p) \in [Iface -> Scheduler]
           /\ \A S : (\A i \in S : rx[i].descQueue # <<>>) => popAll(S) \in [Iface -> Scheduler]
           /\ \A i \in Iface, d \in Desc : recvTick(i, d) \in Nat
<1>1. rx \in [Iface -> Scheduler] /\ tick \in [Proc -> Nat]
  BY Zenon DEF Types, LinkTypes, SimTypes
<1>2. \A i \in Iface, d \in Desc : recvTick(i, d) \in Nat
  BY TimeAssumption DEF recvTick, calcReceiveTick, Desc
<1>3. ASSUME NEW p \in Proc PROVE resumeRecvTicks(p) \in [Iface -> Scheduler]
  <2>1. ASSUME NEW i \in Iface, rx[i].ckptRestore
        PROVE  [rx[i] EXCEPT !.ckptRestore = FALSE,
                          !.recvDone = IF rx[i].descQueue = <<>> THEN @ ELSE tick[p],
                          !.descQueue = [k \in DOMAIN @ |-> [@[k] EXCEPT !.sendTick = tick[p],
                                                                        !.sendDelay = SimLength]]] \in Scheduler
    <3> DEFINE q == rx[i].descQueue
               T == Desc
               f(d) == [d EXCEPT !.sendTick = tick[p], !.sendDelay = SimLength]
    <3>1. rx[i] \in Scheduler /\ q \in Seq(T)
      BY Zenon, <1>1 DEF Scheduler
    <3>2. \A d \in T : f(d) \in T
      BY Zenon, <1>1, TimeAssumption DEF Desc
    <3> HIDE DEF T, f, q
    <3>3. [k \in DOMAIN q |-> f(q[k])] \in Seq(T)
      BY <3>1, <3>2
    <3> QED BY Zenon, <3>1, <3>3, <1>1 DEF Scheduler, T, f, q
  <2> QED BY Zenon, <2>1, <1>1 DEF resumeRecvTicks
<1>4. ASSUME NEW S, \A i \in S : rx[i].descQueue # <<>>
      PROVE  popAll(S) \in [Iface -> Scheduler]
  <2>1. ASSUME NEW i \in Iface, i \in S PROVE popPacket(i) \in Scheduler
    <3> DEFINE q == rx[i].descQueue
               T == Desc
    <3>1. rx[i] \in Scheduler /\ q \in Seq(T) /\ q # <<>>
      BY Zenon, <1>1, <1>4, <2>1 DEF Scheduler
    <3> HIDE DEF T, q
    <3>2. Tail(q) \in Seq(T) /\ (Tail(q) # <<>> => Head(Tail(q)) \in T)
      BY <3>1
    <3>3. Tail(q) # <<>> => recvTick(i, Head(Tail(q))) \in Nat
      BY Zenon, <3>2, <1>2 DEF T
    <3> QED BY Zenon, <3>1, <3>2, <3>3 DEF popPacket, Scheduler, T, q
  <2> QED BY Zenon, <2>1, <1>1 DEF popAll
<1> QED BY Zenon, <1>2, <1>3, <1>4

\* Assignments to the members of a Sync object.
LEMMA FieldTypes ==
    ASSUME NEW s \in SyncType
    PROVE  /\ [s EXCEPT !.isAbort = TRUE] \in SyncType
           /\ \A d \in Decision : [s EXCEPT !.do = d] \in SyncType
BY Zenon DEF SyncType

\* What abort() and the rearming of the switch change of the Sync objects.
LEMMA AbortEffect ==
    ASSUME sync \in [Proc -> SyncType], NEW p \in Proc
    PROVE  /\ abort(p) \in [Proc -> SyncType] /\ \A q \in Proc \ {p} : abort(p)[q] = sync[q]
           /\ abort(p)[p] = [sync[p] EXCEPT !.waitNum = 0, !.isAbort = TRUE]
<1>1. /\ \A q \in Proc \ {p} : abort(p)[q] = sync[q]
      /\ abort(p)[p] = [sync[p] EXCEPT !.waitNum = 0, !.isAbort = TRUE]
      /\ abort(p) = [q \in Proc |-> abort(p)[q]]
  BY Zenon DEF abort
<1>2. abort(p)[p] \in SyncType /\ \A q \in Proc : sync[q] \in SyncType
  <2>1. \A s \in SyncType : [s EXCEPT !.waitNum = 0, !.isAbort = TRUE] \in SyncType
    <3> TAKE s \in SyncType
    <3> DEFINE t == [s EXCEPT !.waitNum = 0]
    <3>1. t \in SyncType
      BY DEF SyncType
    <3> HIDE DEF t
    <3>2. [t EXCEPT !.isAbort = TRUE] \in SyncType
      BY Zenon, <3>1, FieldTypes
    <3> QED BY Zenon, <3>2 DEF t
  <2> QED BY Zenon, <1>1, <2>1
<1> QED BY Zenon, <1>1, <1>2

LEMMA RearmedEffect ==
    ASSUME Counting, sync \in [Proc -> SyncType], NEW do \in Decision
    PROVE  /\ rearmed(do) \in [Proc -> SyncType] /\ \A q \in Node : rearmed(do)[q] = sync[q]
           /\ rearmed(do)[Switch] = [sync[Switch] EXCEPT !.waitNum = Cardinality(Node), !.do = do]
<1>1. Cardinality(Node) \in Nat /\ Switch \in Proc /\ Switch \notin Node
  BY Zenon, Ends DEF Counting
<1>2. /\ \A q \in Proc \ {Switch} : rearmed(do)[q] = sync[q]
      /\ rearmed(do)[Switch] = [sync[Switch] EXCEPT !.waitNum = Cardinality(Node), !.do = do]
      /\ rearmed(do) = [q \in Proc |-> rearmed(do)[q]]
  BY Zenon, <1>1 DEF rearmed
<1>3. rearmed(do)[Switch] \in SyncType /\ \A q \in Proc : sync[q] \in SyncType
  <2>1. \A s \in SyncType : [s EXCEPT !.waitNum = Cardinality(Node), !.do = do] \in SyncType
    <3> SUFFICES ASSUME NEW s \in SyncType PROVE [s EXCEPT !.waitNum = Cardinality(Node), !.do = do] \in SyncType
      BY Zenon
    <3> DEFINE t == [s EXCEPT !.waitNum = Cardinality(Node)]
    <3>1. t \in SyncType
      BY <1>1 DEF SyncType
    <3> HIDE DEF t
    <3>2. [t EXCEPT !.do = do] \in SyncType
      BY Zenon, <3>1, FieldTypes
    <3> QED BY Zenon, <3>2 DEF t
  <2> QED BY Zenon, <1>1, <1>2, <2>1
<1> QED BY Zenon, <1>1, <1>2, <1>3 DEF Proc

LEMMA InitTypes == Counting /\ Init => Types
<1> SUFFICES ASSUME Counting, Init PROVE Types
  BY Zenon
<1>1. Cardinality(Node) \in Nat
  BY Zenon DEF Counting
<1>2. SimTypes
  BY Zenon, EnvAssumption DEF Init, SimTypes, newEvent, Event, PC, Caller, Starting
<1>3. \A p \in Proc : newSync(p) \in SyncType
  BY <1>1, TimeAssumption DEF newSync, SyncType, Decision
<1>4. SyncTypes
  BY Zenon, <1>3 DEF Init, SyncTypes, ReqType
<1>5. newRx \in Scheduler
  BY DEF newRx, Scheduler
<1>6. LinkTypes
  BY <1>5 DEF Init, LinkTypes, SavedType, ReqType
<1>7. HistoryTypes
  BY Zenon DEF Init, HistoryTypes
<1> QED BY Zenon, <1>2, <1>4, <1>6, <1>7 DEF Types

\* saving() keeps the type of what is saved.
LEMMA SavingTypes ==
    ASSUME Types, NEW p \in Proc
    PROVE  saving(p) \in SavedType
<1> DEFINE own(new, old) == [i \in Iface |-> IF Owner(i) = p THEN new[i] ELSE old[i]]
<1>1. saved \in SavedType /\ rx \in [Iface -> Scheduler] /\ txFree \in [Iface -> Nat]
      /\ tick \in [Proc -> Nat] /\ wake \in [Node -> Nat] /\ need \in [Node -> [Wish -> ReqType]]
      /\ num \in [Wish -> Nat]
  BY Zenon DEF Types, LinkTypes, SimTypes, SyncTypes
<1>2. own(rx, saved.rx) \in [Iface -> Scheduler] /\ own(txFree, saved.txFree) \in [Iface -> Nat]
  BY Zenon, <1>1 DEF SavedType
<1>3. [saved.tick EXCEPT ![p] = tick[p]] \in [Proc -> Nat]
  BY Zenon, <1>1 DEF SavedType
<1>4. p # Switch => /\ [saved.wake EXCEPT ![p] = wake[p]] \in [Node -> Nat]
                    /\ [saved.needExit EXCEPT ![p] = need[p]["exit"]] \in [Node -> ReqType]
  BY <1>1 DEF SavedType, Proc, Wish
<1>5. num["exit"] \in Nat
  BY Zenon, <1>1 DEF Wish
<1> QED BY Zenon, <1>1, <1>2, <1>3, <1>4, <1>5 DEF saving, SavedType

\* The steps of a simulation thread.
LEMMA SimThreadTypes ==
    ASSUME Types, NEW p \in Proc, SimThread(p) \/ kill(p), UNCHANGED setup
    PROVE  Types'
<1> USE DEF Types
<1>1. CASE startup(p)
  <2>1. CASE setup.pseudoOp /\ p # Switch
    BY Zenon, <1>1, <2>1, SchedulerTypes DEF startup, SimTypes, SyncTypes, LinkTypes, HistoryTypes, PC
  <2>2. CASE start(p, "startup") /\ UNCHANGED rx
    <3>1. /\ pc' \in [Proc -> PC] /\ in' \in [Iface -> Seq(Message)] /\ caller' \in [Proc -> Caller]
          /\ num' = num => SyncTypes'
          /\ asked' \in [Node -> {"no", "yes", "sent"}]
      BY Zenon, <2>2, RunTypes DEF start, Caller, Starting
    <3>2. ev' \in [Proc -> Event]
      BY SMTT(30), <2>2 DEF start, SimTypes, SyncTypes, Event, SyncType
    <3> QED BY Zenon, <1>1, <2>2, <3>1, <3>2 DEF startup, SimTypes, SyncTypes, LinkTypes, HistoryTypes
  <2> QED BY Zenon, <1>1, <2>1, <2>2 DEF startup
<1>2. CASE simulate(p)
  <2>1. rx' \in [Iface -> Scheduler]
    <3>1. \A i \in due(p, tick[p] + 1) : rx[i].descQueue # <<>>
      BY Zenon DEF due
    <3> QED BY Zenon, <1>2, <3>1, SchedulerTypes DEF simulate
  <2>2. tick' \in [Proc -> Nat] /\ exiting' \in [Proc -> BOOLEAN]
    BY SMTT(30), <1>2 DEF simulate, SimTypes
  <2>3. CASE UNCHANGED <<in, txFree, sent, pc>>
    BY Zenon, <1>2, <2>1, <2>2, <2>3 DEF simulate, syncVars, SimTypes, SyncTypes, LinkTypes, HistoryTypes
  <2>4. ASSUME NEW i \in ends(p), NEW d \in SendDelay, sent' = sent + 1,
               txFree' = [txFree EXCEPT ![i] = tick[p] + 1 + d],
               in' = deliver(in, {Peer(i)}, [kind |-> "dataDescriptor", sendTick |-> tick[p] + 1,
                                           sendDelay |-> d, epoch |-> wrote[p]]),
               UNCHANGED pc
        PROVE  Types'
    <3>1. [kind |-> "dataDescriptor", sendTick |-> tick[p] + 1, sendDelay |-> d, epoch |-> wrote[p]] \in DataMessage
      BY TimeAssumption DEF DataMessage, SimTypes, HistoryTypes
    <3>2. in' \in [Iface -> Seq(Message)]
      BY Zenon, <3>1, <2>4, MessageTypes, ChannelTypes DEF LinkTypes
    <3>3. txFree' \in [Iface -> Nat] /\ sent' \in Nat
      BY <2>4, TimeAssumption DEF ends, LinkTypes, HistoryTypes, SimTypes
    <3> QED BY Zenon, <1>2, <2>1, <2>2, <2>4, <3>2, <3>3 DEF simulate, syncVars, SimTypes, SyncTypes, LinkTypes, HistoryTypes
  <2>5. ASSUME NEW i \in ends(p), NEW d \in SendDelay, sent' = sent + 1,
               txFree' = [txFree EXCEPT ![i] = tick[p] + 1 + d],
               stops(p, "panic")
        PROVE  Types'
    <3>2. in' \in [Iface -> Seq(Message)] /\ pc' \in [Proc -> PC]
      BY Zenon, <2>5, StopsTypes DEF Stopped
    <3>3. txFree' \in [Iface -> Nat] /\ sent' \in Nat
      BY <2>5, TimeAssumption DEF ends, LinkTypes, HistoryTypes, SimTypes
    <3> QED BY Zenon, <1>2, <2>1, <2>2, <2>5, <3>2, <3>3 DEF simulate, syncVars, SimTypes, SyncTypes, LinkTypes, HistoryTypes
  <2> QED BY Zenon, <1>2, <2>3, <2>4, <2>5 DEF simulate, sendFails
<1>3. CASE receiveResumed(p)
  <2>1. \A i \in due(p, tick[p]) : rx[i].descQueue # <<>>
    BY Zenon DEF due
  <2> QED BY Zenon, <1>3, <2>1, SchedulerTypes DEF receiveResumed, simVars, syncVars, history, SimTypes, SyncTypes, LinkTypes, HistoryTypes
<1>4. CASE process(p)
  <2>1. CASE stops(p, "panic") /\ UNCHANGED ev
    BY Zenon, <1>4, <2>1, StopsTypes DEF process, Stopped, syncVars, history, SimTypes, SyncTypes, LinkTypes, HistoryTypes
  <2>2. CASE /\ pc' = [pc EXCEPT ![p] = "event"]
             /\ ev' = [ev EXCEPT ![p].scheduled = FALSE]
             /\ UNCHANGED in
    BY Zenon, <1>4, <2>2 DEF process, PC, Event, syncVars, history, SimTypes, SyncTypes, LinkTypes, HistoryTypes
  <2> QED BY Zenon, <1>4, <2>1, <2>2 DEF process
<1>5. CASE enterPeriodic(p)
  <2>1. run(p, "periodic") /\ "periodic" \in Caller
    BY Zenon, <1>5 DEF enterPeriodic, Caller
  <2> QED BY Zenon, <1>5, <2>1, RunTypes DEF enterPeriodic, SimTypes, LinkTypes, HistoryTypes
<1>6. CASE drainComplete(p)
  <2>1. run(p, "ckpt") /\ "ckpt" \in Caller
    BY Zenon, <1>6 DEF drainComplete, Caller
  <2>2. exiting' \in [Proc -> BOOLEAN]
    BY Zenon, <1>6 DEF drainComplete, SimTypes
  <2> QED BY Zenon, <1>6, <2>1, <2>2, RunTypes DEF drainComplete, SimTypes, LinkTypes, HistoryTypes
<1>7. CASE startDone(p)
  <2>1. ev' \in [Proc -> Event] /\ pc' \in [Proc -> PC]
    BY Zenon, <1>7 DEF startDone, SimTypes, SyncTypes, Event, SyncType, PC
  <2>2. rx' \in [Iface -> Scheduler]
    BY Zenon, <1>7, SchedulerTypes DEF startDone
  <2>3. need' \in [Node -> [Wish -> ReqType]]
    BY <1>7 DEF startDone, request, exitType, SyncTypes, ReqType
  <2>4. wake' \in [Node -> Nat]
    <3>1. sync[p].nextAt + 1 \in Nat /\ wake \in [Node -> Nat]
      BY DEF SimTypes, SyncTypes, SyncType
    <3> QED BY Zenon, <1>7, <3>1 DEF startDone
  <2> QED BY Zenon, <1>7, <2>1, <2>2, <2>3, <2>4 DEF startDone, history, SimTypes, SyncTypes, LinkTypes, HistoryTypes
<1>8. CASE processDone(p)
  <2>1. CASE stops(p, "left") /\ UNCHANGED <<caller, ev, sync, need, asked, wake>>
    BY Zenon, <1>8, <2>1, StopsTypes DEF processDone, Stopped, SimTypes, SyncTypes, LinkTypes, HistoryTypes
  <2>2. CASE /\ ev' = [ev EXCEPT ![p].repeat = sync[p].nextRepeat]
             /\ sync' = stopSyncDone(p)
             /\ pc' = [pc EXCEPT ![p] = "wait"]
             /\ caller' = [caller EXCEPT ![p] = "stop"]
             /\ UNCHANGED <<need, asked, in, wake>>
    <3>1. ev' \in [Proc -> Event] /\ pc' \in [Proc -> PC] /\ caller' \in [Proc -> Caller]
      BY Zenon, <2>2 DEF SimTypes, SyncTypes, Event, SyncType, PC, Caller, Starting
    <3>2. sync' \in [Proc -> SyncType]
      BY Zenon, <2>2 DEF SyncTypes, SyncType, stopSyncDone, Decision
    <3> QED BY Zenon, <1>8, <2>2, <3>1, <3>2 DEF processDone, SimTypes, SyncTypes, LinkTypes, HistoryTypes
  <2>3. CASE /\ p # Switch
             /\ sync' = stopSyncDone(p)
             /\ wake' = [wake EXCEPT ![p] = tick[p]]
             /\ pc' = [pc EXCEPT ![p] = IF sync[p].do["ckpt"] THEN "drain" ELSE "run"]
             /\ UNCHANGED <<caller, ev, need, asked, in>>
    <3>1. wake' \in [Node -> Nat] /\ pc' \in [Proc -> PC]
      BY Zenon, <2>3 DEF SimTypes, PC
    <3>2. sync' \in [Proc -> SyncType]
      BY Zenon, <2>3 DEF SyncTypes, SyncType, stopSyncDone, Decision
    <3> QED BY Zenon, <1>8, <2>3, <3>1, <3>2 DEF processDone, SimTypes, SyncTypes, LinkTypes, HistoryTypes
  <2>4. CASE /\ ev' = [ev EXCEPT ![p] = [when |-> tick[p] + sync[p].nextRepeat,
                                          repeat |-> sync[p].nextRepeat, scheduled |-> TRUE]]
             /\ pc' = [pc EXCEPT ![p] = IF sync[p].do["ckpt"] THEN "drain" ELSE "run"]
             /\ UNCHANGED <<caller, sync, need, asked, in, wake>>
    <3>1. ev' \in [Proc -> Event] /\ pc' \in [Proc -> PC]
      BY <2>4 DEF SimTypes, SyncTypes, Event, SyncType, PC
    <3> QED BY Zenon, <1>8, <2>4, <3>1 DEF processDone, SimTypes, SyncTypes, LinkTypes, HistoryTypes
  <2> QED BY Zenon, <1>8, <2>1, <2>2, <2>3, <2>4 DEF processDone
<1>9. ASSUME sync' = [sync EXCEPT ![p].do["ckpt"] = FALSE], pc' = [pc EXCEPT ![p] = "run"],
             wrote' = [wrote EXCEPT ![p] = @ + 1], saved' = saving(p)
      PROVE  /\ sync' \in [Proc -> SyncType] /\ pc' \in [Proc -> PC]
             /\ wrote' \in [Proc -> Nat] /\ saved' \in SavedType
  <2>1. sync' \in [Proc -> SyncType]
    BY Zenon, <1>9 DEF SyncTypes, SyncType, Decision
  <2>2. pc' \in [Proc -> PC] /\ wrote' \in [Proc -> Nat]
    BY <1>9 DEF SimTypes, HistoryTypes, PC
  <2> QED BY Zenon, <1>9, <2>1, <2>2, SavingTypes
<1>10. CASE ckptDone(p)
  <2>1. asked' \in [Node -> {"no", "yes", "sent"}]
    BY Zenon, <1>10 DEF ckptDone, HistoryTypes
  <2> QED BY Zenon, <1>9, <1>10, <2>1 DEF ckptDone, SimTypes, SyncTypes, LinkTypes, HistoryTypes
<1>11. CASE aborted(p)
  <2>1. CASE stops(p, "panic") /\ UNCHANGED <<sync, wrote, saved>>
    BY Zenon, <1>11, <2>1, StopsTypes DEF aborted, Stopped, SimTypes, SyncTypes, LinkTypes, HistoryTypes
  <2>2. CASE pc' = [pc EXCEPT ![p] = "run"] /\ UNCHANGED <<sync, wrote, saved, in>>
    BY Zenon, <1>11, <2>2 DEF aborted, PC, SimTypes, SyncTypes, LinkTypes, HistoryTypes
  <2>3. CASE /\ sync' = [sync EXCEPT ![p].do["ckpt"] = FALSE] /\ pc' = [pc EXCEPT ![p] = "run"]
             /\ wrote' = [wrote EXCEPT ![p] = @ + 1] /\ saved' = saving(p) /\ UNCHANGED in
    BY Zenon, <1>9, <1>11, <2>3 DEF aborted, SimTypes, SyncTypes, LinkTypes, HistoryTypes
  <2> QED BY Zenon, <1>11, <2>1, <2>2, <2>3 DEF aborted
<1>12. CASE leave(p)
  BY Zenon, <1>12, StopsTypes DEF leave, Stopped, syncVars, history, SimTypes, SyncTypes, LinkTypes, HistoryTypes
<1>13. CASE kill(p)
  BY Zenon, <1>13, StopsTypes DEF kill, Stopped, syncVars, history, SimTypes, SyncTypes, LinkTypes, HistoryTypes
<1> QED BY Zenon, <1>1, <1>2, <1>3, <1>4, <1>5, <1>6, <1>7, <1>8, <1>10, <1>11, <1>12, <1>13 DEF SimThread

LEMMA TailTypes ==
    ASSUME Types, NEW i \in Iface, in[i] # <<>>
    PROVE  [in EXCEPT ![i] = Tail(@)] \in [Iface -> Seq(Message)] /\ Head(in[i]) \in Message
<1> DEFINE T == Message
<1> HIDE DEF T
<1>1. in \in [Iface -> Seq(T)] /\ in[i] \in Seq(T)
  BY Zenon DEF Types, LinkTypes, T
<1>2. Tail(in[i]) \in Seq(T) /\ Head(in[i]) \in T
  BY <1>1
<1>3. [in EXCEPT ![i] = Tail(@)] \in [Iface -> Seq(T)]
  BY Zenon, <1>1, <1>2
<1> QED BY Zenon, <1>2, <1>3 DEF T

\* The steps of the receive threads, and the acknowledgement.
LEMMA RecvThreadTypes ==
    ASSUME Types, NEW i \in Iface, RecvThread(i), UNCHANGED setup
    PROVE  Types'
<1> USE DEF Types
<1>1. CASE pushPacket(i)
  <2> DEFINE m == Head(in[i])
             d == [sendTick |-> m.sendTick, sendDelay |-> m.sendDelay, epoch |-> m.epoch]
             T == Desc
             q == rx[i].descQueue
  <2>1. in[i] # <<>> /\ m.kind = "dataDescriptor"
    BY Zenon, <1>1 DEF pushPacket, receives
  <2>2. in' \in [Iface -> Seq(Message)] /\ m \in DataMessage
    BY Zenon, <1>1, <2>1, TailTypes, MessageKind DEF pushPacket
  <2>3. d \in T /\ rx[i] \in Scheduler /\ q \in Seq(T) /\ rx \in [Iface -> Scheduler]
    BY Zenon, <2>2 DEF DataMessage, Desc, LinkTypes, Scheduler
  <2>4. recvTick(i, d) \in Nat
    BY Zenon, <2>3, SchedulerTypes
  <2>5. rx' = [rx EXCEPT ![i].descQueue = Append(@, d),
                         ![i].recvDone = IF q = <<>> THEN recvTick(i, d) ELSE @]
    BY Zenon, <1>1 DEF pushPacket
  <2> HIDE DEF m, d, T
  <2>6. Append(q, d) \in Seq(T)
    BY <2>3
  <2>7. /\ rx' = [j \in Iface |-> rx'[j]] /\ \A j \in Iface \ {i} : rx'[j] = rx[j]
        /\ rx'[i] = [rx[i] EXCEPT !.descQueue = Append(q, d),
                                  !.recvDone = IF q = <<>> THEN recvTick(i, d) ELSE rx[i].recvDone]
    BY Zenon, <2>3, <2>5 DEF Scheduler
  <2>8. rx'[i] \in Scheduler
    BY Zenon, <2>3, <2>4, <2>6, <2>7 DEF Scheduler, T
  <2>9. rx' \in [Iface -> Scheduler]
    BY Zenon, <2>3, <2>7, <2>8
  <2> QED BY Zenon, <1>1, <2>2, <2>9 DEF pushPacket, simVars, syncVars, history, SimTypes, SyncTypes, LinkTypes, HistoryTypes
<1>2. CASE connectionLost(i)
  <2>1. Owner(i) \in Proc
    BY Zenon, Ends
  <2>2. in' \in [Iface -> Seq(Message)]
    BY Zenon, <1>2, TailTypes DEF connectionLost, receives
  <2>3. sync' \in [Proc -> SyncType]
    <3>1. sync' = abort(Owner(i)) /\ sync \in [Proc -> SyncType]
      BY Zenon, <1>2 DEF connectionLost, SyncTypes
    <3> QED BY Zenon, <2>1, <3>1, AbortEffect
  <2>4. exiting' \in [Proc -> BOOLEAN] /\ thread' \in [Iface -> BOOLEAN]
    BY Zenon, <1>2 DEF connectionLost, SimTypes, LinkTypes
  <2> QED BY Zenon, <1>2, <2>2, <2>3, <2>4 DEF connectionLost, history, SimTypes, SyncTypes, LinkTypes, HistoryTypes
<1> QED BY Zenon, <1>1, <1>2 DEF RecvThread

LEMMA ProgressTypes ==
    ASSUME Types, NEW n \in Node, nodeProgress(n) \/ switchProgress(n), UNCHANGED setup
    PROVE  Types'
<1> USE DEF Types
<1>1. CASE nodeProgress(n)
  <2> DEFINE i == <<n, "node">>
             m == Head(in[i])
             do == [w \in Wish |-> m.need[w] # "none"]
  <2>1. i \in Iface /\ n \in Proc
    BY Zenon, Ends
  <2>2. in[i] # <<>> /\ m.kind = "cmdSyncAck"
    BY Zenon, <1>1 DEF nodeProgress, receives
  <2>3. in' \in [Iface -> Seq(Message)] /\ m \in SyncMessage
    BY Zenon, <1>1, <2>1, <2>2, TailTypes, MessageKind DEF nodeProgress
  <2>4. m.sendTick \in Nat /\ m.syncRepeat \in Nat /\ do \in Decision
    BY Zenon, <2>3 DEF SyncMessage, Decision
  <2>5. /\ sync' = [sync EXCEPT ![n] = [waitNum |-> @.waitNum - 1, nextAt |-> m.sendTick,
                                        nextRepeat |-> m.syncRepeat, isAbort |-> FALSE, do |-> do]]
        /\ thread' = [thread EXCEPT ![i] = ~ do["exit"]]
    BY Zenon, <1>1 DEF nodeProgress
  <2> HIDE DEF m, do
  <2>6. sync' \in [Proc -> SyncType]
    BY SMTT(30), <2>1, <2>4, <2>5 DEF SyncTypes, SyncType
  <2>7. thread' \in [Iface -> BOOLEAN]
    BY Zenon, <2>1, <2>4, <2>5 DEF LinkTypes
  <2> QED BY Zenon, <1>1, <2>3, <2>6, <2>7 DEF nodeProgress, simVars, history, SimTypes, SyncTypes, LinkTypes, HistoryTypes
<1>2. CASE switchProgress(n)
  <2> DEFINE i == <<n, "switch">>
             m == Head(in[i])
             s == sync[Switch]
             do == immediate(m)
  <2>1. i \in Iface /\ Switch \in Proc
    BY Zenon, Ends
  <2>2. in[i] # <<>> /\ m.kind = "cmdSyncReq"
    BY Zenon, <1>2 DEF switchProgress, receives
  <2>3. in' \in [Iface -> Seq(Message)] /\ m \in SyncMessage
    BY Zenon, <1>2, <2>1, <2>2, TailTypes, MessageKind DEF switchProgress
  <2>4. m.sendTick \in Nat /\ m.syncRepeat \in Nat /\ do \in Decision
    BY Zenon, <2>3 DEF SyncMessage, Decision, immediate
  <2>5. CASE s.isAbort
    <3>1. thread' \in [Iface -> BOOLEAN]
      BY Zenon, <1>2, <2>5 DEF switchProgress, LinkTypes
    <3> QED BY Zenon, <1>2, <2>3, <2>5, <3>1 DEF switchProgress, simVars, history, SimTypes, SyncTypes, LinkTypes, HistoryTypes
  <2>6. CASE ~ s.isAbort
    <3>1. /\ sync' = [sync EXCEPT ![Switch] =
                     [waitNum |-> s.waitNum - 1,
                      nextAt |-> IF m.sendTick > s.nextAt THEN m.sendTick ELSE s.nextAt,
                      nextRepeat |-> IF s.nextRepeat > m.syncRepeat THEN m.syncRepeat ELSE s.nextRepeat,
                      isAbort |-> FALSE, do |-> do]]
          /\ num' = [w \in Wish |-> IF m.need[w] = "collective" THEN num[w] + 1 ELSE num[w]]
          /\ UNCHANGED thread
      BY Zenon, <1>2, <2>6 DEF switchProgress
    <3> HIDE DEF m, do
    <3>2. sync' \in [Proc -> SyncType]
      BY SMTT(30), <2>1, <2>4, <3>1 DEF SyncTypes, SyncType
    <3>c. \A w \in Wish : num[w] \in Nat /\ num[w] + 1 \in Nat
      BY DEF SyncTypes
    <3>n. num' = [w \in Wish |-> IF m.need[w] = "collective" THEN num[w] + 1 ELSE num[w]]
      BY Zenon, <3>1
    <3>3. num' \in [Wish -> Nat]
      BY ONLY Zenon, <3>c, <3>n
    <3> QED BY Zenon, <1>2, <2>3, <3>1, <3>2, <3>3 DEF switchProgress, simVars, history, SimTypes, SyncTypes, LinkTypes, HistoryTypes
  <2> QED BY Zenon, <2>5, <2>6
<1> QED BY Zenon, <1>1, <1>2

LEMMA AcknowledgeTypes ==
    ASSUME Counting, Types, acknowledge, UNCHANGED setup
    PROVE  Types'
<1> USE DEF Types
<1> DEFINE do == [w \in Wish |-> sync[Switch].do[w] \/ num[w] = Cardinality(Node)]
           ack == [kind |-> "cmdSyncAck", sendTick |-> sync[Switch].nextAt,
                   syncRepeat |-> sync[Switch].nextRepeat,
                   need |-> [w \in Wish |-> IF do[w] THEN "immediate" ELSE "none"]]
<1>1. Cardinality(Node) \in Nat /\ Switch \in Proc
  BY Zenon, Ends DEF Counting
<1>2. do \in Decision
  BY Zenon DEF Decision
<1>3. sync[Switch].nextAt \in Nat /\ sync[Switch].nextRepeat \in Nat
  BY Zenon, <1>1 DEF SyncTypes, SyncType
<1>4. ack \in SyncMessage
  BY Zenon, <1>3 DEF SyncMessage, ReqType
<1>5. ack \in Message
  BY Zenon, <1>4, MessageTypes
<1>6. /\ sync' = rearmed(do) /\ num' = counters(do)
      /\ pc' = [pc EXCEPT ![Switch] = "acked"] \/ pc' = [pc EXCEPT ![Switch] = "panic"]
      /\ \/ in' = deliver(in, peers(Switch), ack)
         \/ \E reached \in SUBSET peers(Switch) : in' = closed(deliver(in, reached, ack), Switch)
      /\ UNCHANGED <<tick, caller, ev, exiting, wake, need, thread, rx, txFree, saved, history>>
  BY Zenon DEF acknowledge
<1> HIDE DEF do, ack
<1>7. sync' \in [Proc -> SyncType] /\ num' \in [Wish -> Nat]
  <2>1. sync' \in [Proc -> SyncType]
    BY Zenon, <1>1, <1>2, <1>6, RearmedEffect DEF SyncTypes
  <2>2. num' \in [Wish -> Nat]
    BY Zenon, <1>6 DEF counters, SyncTypes
  <2> QED BY Zenon, <2>1, <2>2
<1>8. pc' \in [Proc -> PC]
  BY Zenon, <1>6 DEF SimTypes, PC, Stopped
<1>9. in' \in [Iface -> Seq(Message)]
  <2>1. in \in [Iface -> Seq(Message)]
    BY Zenon DEF LinkTypes
  <2>2. \A to : deliver(in, to, ack) \in [Iface -> Seq(Message)]
    BY Zenon, <1>5, <2>1, ChannelTypes
  <2>3. \A to : closed(deliver(in, to, ack), Switch) \in [Iface -> Seq(Message)]
    BY Zenon, <1>5, <2>2, ChannelTypes
  <2> QED BY Zenon, <1>6, <2>2, <2>3
<1> QED BY Zenon, <1>6, <1>7, <1>8, <1>9 DEF history, SimTypes, SyncTypes, LinkTypes, HistoryTypes

LEMMA WorkloadTypes ==
    ASSUME Types, NEW n \in Node, Workload(n), UNCHANGED setup
    PROVE  Types'
<1> USE DEF Types
<1> n \in Proc
  BY Zenon, Ends
<1>1. CASE readyToCkpt(n)
  <2>1. need' \in [Node -> [Wish -> ReqType]]
    <3>1. PICK type \in ReqType : request(n, "ckpt", type)
      BY Zenon, <1>1 DEF readyToCkpt, ReqType
    <3> QED BY Zenon, <3>1, RequestTypes DEF Wish
  <2>2. asked' \in [Node -> {"no", "yes", "sent"}]
    BY Zenon, <1>1 DEF readyToCkpt, HistoryTypes
  <2> QED BY Zenon, <1>1, <2>1, <2>2 DEF readyToCkpt, simVars, linkVars, SimTypes, SyncTypes, LinkTypes, HistoryTypes
<1>2. ASSUME NEW who \in Caller, start(n, who)
      PROVE  /\ pc' \in [Proc -> PC] /\ in' \in [Iface -> Seq(Message)] /\ caller' \in [Proc -> Caller]
             /\ num' = num => SyncTypes'
             /\ asked' \in [Node -> {"no", "yes", "sent"}]
             /\ ev' \in [Proc -> Event]
  <2>1. ev' \in [Proc -> Event]
    BY Zenon, <1>2 DEF start, SimTypes, SyncTypes, Event, SyncType
  <2> QED BY Zenon, <1>2, <2>1, RunTypes DEF start
<1>3. CASE readyToExit(n)
  <2>1. PICK who \in {"exit", "exitNow"} :
           IF ev[n].scheduled
           THEN /\ request(n, "exit", exitType(who))
                /\ UNCHANGED <<pc, caller, ev, sync, asked, in>>
           ELSE start(n, who)
    BY Zenon, <1>3 DEF readyToExit
  <2>2. CASE request(n, "exit", exitType(who)) /\ UNCHANGED <<pc, caller, ev, sync, asked, in>>
    <3>1. need' \in [Node -> [Wish -> ReqType]]
      BY Zenon, <2>2 DEF request, exitType, SyncTypes, ReqType
    <3> QED BY Zenon, <1>3, <2>2, <3>1 DEF readyToExit, SimTypes, SyncTypes, LinkTypes, HistoryTypes
  <2>3. CASE start(n, who)
    <3>1. who \in Caller
      BY Zenon DEF Caller, Starting
    <3> QED BY Zenon, <1>2, <1>3, <2>3, <3>1 DEF readyToExit, SimTypes, LinkTypes, HistoryTypes
  <2> QED BY Zenon, <2>1, <2>2, <2>3
<1>4. CASE toggleSync(n)
  <2>1. CASE ev[n].scheduled
    <3>1. need' \in [Node -> [Wish -> ReqType]]
      BY SMTT(30), <1>4, <2>1 DEF toggleSync, SyncTypes, ReqType
    <3>2. wake' \in [Node -> Nat]
      BY <1>4, <2>1 DEF toggleSync, SimTypes, Never, Setup
    <3> QED BY Zenon, <1>4, <2>1, <3>1, <3>2 DEF toggleSync, SimTypes, SyncTypes, LinkTypes, HistoryTypes
  <2>2. CASE ~ ev[n].scheduled
    <3>1. start(n, "toggle") /\ UNCHANGED wake /\ "toggle" \in Caller
      BY Zenon, <1>4, <2>2 DEF toggleSync, Caller, Starting
    <3> QED BY Zenon, <1>2, <1>4, <3>1 DEF toggleSync, SimTypes, LinkTypes, HistoryTypes
  <2> QED BY Zenon, <2>1, <2>2
<1> QED BY Zenon, <1>1, <1>3, <1>4 DEF Workload

LEMMA RestoreTypes ==
    ASSUME Counting, Types, restore, UNCHANGED setup
    PROVE  Types'
<1> USE DEF Types
<1>1. Cardinality(Node) \in Nat
  BY Zenon DEF Counting
<1>2. \A p \in Proc : newSync(p) \in SyncType
  BY <1>1, TimeAssumption DEF newSync, SyncType, Decision
<1>3. sync' \in [Proc -> SyncType]
  BY Zenon, <1>2 DEF restore
<1>4. need' \in [Node -> [Wish -> ReqType]] /\ num' \in [Wish -> Nat]
  BY Zenon DEF restore, LinkTypes, SavedType, ReqType
<1>5. /\ tick' \in [Proc -> Nat] /\ wake' \in [Node -> Nat] /\ ev' \in [Proc -> Event]
      /\ pc' \in [Proc -> PC] /\ caller' \in [Proc -> Caller] /\ exiting' \in [Proc -> BOOLEAN]
  BY Zenon DEF restore, LinkTypes, SavedType, newEvent, Event, PC, Caller, Starting
<1>6. \A i \in Iface : [saved.rx[i] EXCEPT !.ckptRestore = TRUE] \in Scheduler
  BY Zenon DEF LinkTypes, SavedType, Scheduler
<1>7. rx' \in [Iface -> Scheduler] /\ txFree' \in [Iface -> Nat] /\ thread' \in [Iface -> BOOLEAN]
  BY Zenon, <1>6 DEF restore, LinkTypes, SavedType
<1>8. in' \in [Iface -> Seq(Message)] /\ asked' \in [Node -> {"no", "yes", "sent"}]
  BY DEF restore
<1> QED BY Zenon, <1>3, <1>4, <1>5, <1>7, <1>8 DEF restore, SimTypes, SyncTypes, LinkTypes, HistoryTypes

LEMMA TypesStep == Counting /\ Types /\ [Next]_vars => Types'
<1> SUFFICES ASSUME Counting, Types, [Next]_vars PROVE Types'
  BY Zenon
<1>1. CASE UNCHANGED vars
  BY Zenon, <1>1 DEF vars, simVars, syncVars, linkVars, history, Types, SimTypes, SyncTypes, LinkTypes, HistoryTypes
<1>2. CASE Next
  BY Zenon, <1>2, SimThreadTypes, RecvThreadTypes, ProgressTypes, AcknowledgeTypes, WorkloadTypes, RestoreTypes DEF Next
<1> QED BY Zenon, <1>1, <1>2

-----------------------------------------------------------------------------
(***************************************************************************)
(* The set-ups the theorems below are about: every process takes part in   *)
(* the barriers from the start, checkpoints and exits are asked for        *)
(* collectively, and processes may be killed.  (Barriers that are switched *)
(* on later or off, immediate requests and restores stay with the model    *)
(* checker: the decisions of a barrier are then not those of one round.)   *)
(***************************************************************************)
Regular == ~ setup.pseudoOp /\ setup.requests \subseteq {"ckpt", "exit", "kill", "slowDrain"}

\* The messages of a kind in a channel, and that there is at most one.
Msgs(q, kind) == {q[k] : k \in {j \in DOMAIN q : q[j].kind = kind}}
Single(q, kind) == \A j, k \in DOMAIN q : q[j].kind = kind /\ q[k].kind = kind => j = k

Req(n) == Msgs(in[<<n, "switch">>], "cmdSyncReq")
Ack(n) == Msgs(in[<<n, "node">>], "cmdSyncAck")

W(p) == sync[p].waitNum
At(p) == sync[p].nextAt
Rep(p) == sync[p].nextRepeat
Ab(p) == sync[p].isAbort
Do(p, w) == sync[p].do[w]
When(p) == ev[p].when
Sched(p) == ev[p].scheduled

\* The ticks of the periodic barriers.
Barrier == {t \in Nat : t >= SyncStart /\ (t - SyncStart) % Quantum = 0}

\* The process has been told that the barrier it is in is over.
Answered(p) ==
    IF p = Switch THEN pc[p] = "acked"
    ELSE pc[p] = "wait" /\ (Ack(p) # {} \/ (W(p) = 0 /\ ~ Ab(p)))

InRun(p) == pc[p] \in {"wait", "acked"}
Fresh(p) == pc[p] = "startup" \/ (InRun(p) /\ caller[p] = "startup")

\* What it has been told about a checkpoint.
DecidesCkpt(p) ==
    \/ p # Switch /\ \E m \in Ack(p) : m.need["ckpt"] # "none"
    \/ (p = Switch \/ Ack(p) = {}) /\ Do(p, "ckpt")

\* The barrier that a process is in or comes to next, and its tick.
Kind(p) ==
    IF Answered(p) THEN IF caller[p] = "periodic" /\ DecidesCkpt(p) THEN "ckpt" ELSE "periodic"
    ELSE IF InRun(p) THEN caller[p]
    ELSE IF pc[p] = "startup" THEN "startup"
    ELSE IF pc[p] = "drain" THEN "ckpt" ELSE "periodic"
Meet(p) ==
    IF Answered(p) /\ caller[p] = "startup" THEN SyncStart
    ELSE IF Answered(p) /\ caller[p] = "periodic" THEN When(p) + Quantum
    ELSE When(p)

\* What a process knows by itself.
LocalInv(p) ==
    /\ caller[p] \in {"startup", "periodic", "ckpt"}
    /\ (When(p) = 0 /\ tick[p] = 0) \/ (When(p) \in Barrier /\ tick[p] <= When(p))
    /\ Fresh(p) => When(p) = 0 /\ tick[p] = 0 /\ ~ Sched(p)
    /\ ~ Fresh(p) /\ ~ gone(p) => When(p) \in Barrier
    /\ pc[p] \in {"run", "drain"} => Sched(p) \/ (pc[p] = "run" /\ Ab(p))
    /\ pc[p] = "event" \/ (InRun(p) /\ caller[p] = "periodic") => tick[p] = When(p) /\ ~ Sched(p)
    /\ InRun(p) /\ caller[p] = "ckpt" => Sched(p)
    /\ ~ gone(p) /\ Ab(p) /\ (pc[p] # "drain" \/ p = Switch) => exiting[p]
    /\ ~ Do(p, "stop")
    /\ InRun(p) /\ caller[p] = "startup" => Rep(p) <= ev[p].repeat

\* What a node waits for, and the answer that is on its way to it.
NodeInv(n) ==
    /\ pc[n] # "acked"
    /\ pc[n] \in {"startup", "run", "event", "drain"} => W(n) = 0
    /\ pc[n] = "wait" => W(n) \in {0, 1}
    /\ Fresh(n) /\ ~ (pc[n] = "wait" /\ W(n) = 0) => Rep(n) = Repeat[n]
    /\ ~ gone(n) /\ ~ Ab(n) /\ (~ Fresh(n) \/ (pc[n] = "wait" /\ W(n) = 0)) => Rep(n) = Quantum
    /\ pc[n] = "wait" /\ W(n) = 0 /\ ~ Ab(n) =>
         /\ caller[n] = "startup" => At(n) = SyncStart /\ \A w \in Wish : ~ Do(n, w)
         /\ caller[n] = "periodic" => At(n) = tick[n]
    /\ ~ gone(n) /\ ~ Ab(n) => \A m \in Ack(n) :
         /\ pc[n] = "wait" /\ W(n) = 1 /\ m.syncRepeat = Quantum /\ m.need["stop"] = "none"
         /\ caller[n] = "startup" => m.sendTick = SyncStart /\ \A w \in Wish : m.need[w] = "none"
         /\ caller[n] = "periodic" => m.sendTick = tick[n]
    /\ Ab(n) => gone(Switch)
    /\ ~ gone(Switch) /\ Req(n) # {} => pc[n] \in {"wait"} \cup Stopped /\ W(n) = 1 /\ Ack(n) = {}

\* What a node asks for.
NeedInv(n) ==
    /\ \A w \in Wish : need[n][w] \in {"none", "collective", "pending"}
    /\ need[n]["stop"] = "none"
    /\ Fresh(n) => \A w \in Wish : need[n][w] = "none"

\* The connections carry one message of a barrier at a time.
ChanInv(n) ==
    /\ Single(in[<<n, "switch">>], "cmdSyncReq") /\ Single(in[<<n, "node">>], "cmdSyncAck")
    /\ Msgs(in[<<n, "node">>], "closed") # {} => gone(Switch)
    /\ Msgs(in[<<n, "switch">>], "closed") # {} => gone(n)

SwitchInv ==
    /\ Fresh(Switch) => (\A w \in Wish : ~ Do(Switch, w)) /\ At(Switch) = SyncStart
    /\ pc[Switch] = "acked" \/ ~ Fresh(Switch) => gone(Switch) \/ Rep(Switch) = Quantum
    /\ Ab(Switch) => \E n \in Node : gone(n)

\* A barrier is behind a process only when every process has reached it.
StepInv ==
    /\ \A p, q \in Proc : When(p) >= SyncStart + Quantum => tick[q] + Quantum >= When(p)
    /\ \A p, q \in Proc : Answered(p) /\ caller[p] = "periodic" => tick[q] >= tick[p]

(***************************************************************************)
(* While the switch is there, it has received the requests of a set C of   *)
(* nodes, and every process is in or comes to the same barrier.            *)
(***************************************************************************)
Joined(n, kind, at) ==
    /\ pc[n] \in {"wait"} \cup Stopped /\ W(n) = 1 /\ Ack(n) = {}
    /\ caller[n] = kind /\ When(n) = at
    /\ kind = "periodic" => tick[n] = at

NodePart(n, C, kind, at) ==
    /\ n \in C => Req(n) = {} /\ Joined(n, kind, at)
    /\ \A m \in Req(n) :
         /\ Joined(n, kind, at) /\ m.sendTick = tick[n] /\ (\A w \in Wish : m.need[w] # "immediate")
         /\ m.need["stop"] = "none"
         /\ kind = "startup" => m.syncRepeat = Repeat[n] /\ \A w \in Wish : m.need[w] = "none"
         /\ kind # "startup" => m.syncRepeat = Quantum
    /\ ~ gone(n) => Kind(n) = kind /\ Meet(n) = at

SwitchPart(C, kind, at) ==
    /\ W(Switch) = Cardinality(Node \ C)
    /\ kind = "startup" => /\ At(Switch) = SyncStart /\ (\A q \in C \cup {Switch} : Rep(Switch) <= Repeat[q])
                           /\ Rep(Switch) \in {Repeat[q] : q \in Proc} /\ \A w \in Wish : num[w] = 0
    /\ kind # "startup" => At(Switch) <= at
    /\ kind = "periodic" /\ C # {} => At(Switch) = at
    /\ num["stop"] = 0

Collect(C) ==
    SwitchPart(C, Kind(Switch), Meet(Switch)) /\ \A n \in Node : NodePart(n, C, Kind(Switch), Meet(Switch))

MainInv == ~ gone(Switch) /\ ~ Ab(Switch) => \E C \in SUBSET Node : Collect(C)

\* The switch counts no request twice.
Counted(w) == {n \in Node : need[n][w] = "pending" /\ \A m \in Req(n) : m.need[w] # "collective"}
NumInv ==
    \A w \in Wish : /\ num[w] <= Cardinality(Counted(w))
                    /\ \A n \in Node : \A m \in Req(n) : m.need[w] = "collective" => need[n][w] = "pending"

-----------------------------------------------------------------------------
(* Channels                                                                *)

\* What a message that arrives, and one that is taken, changes.
LEMMA MsgsAppend ==
    ASSUME NEW q \in Seq(Message), NEW m \in Message, NEW kind
    PROVE  /\ m.kind = kind => Msgs(Append(q, m), kind) = Msgs(q, kind) \cup {m}
           /\ m.kind # kind => Msgs(Append(q, m), kind) = Msgs(q, kind)
           /\ Single(q, kind) /\ (m.kind = kind => Msgs(q, kind) = {}) => Single(Append(q, m), kind)
<1> DEFINE T == Message
           r == Append(q, m)
<1>1. q \in Seq(T) /\ m \in T
  BY Zenon
<1> HIDE DEF T
<1>2. /\ DOMAIN q = 1 .. Len(q) /\ Len(q) \in Nat /\ DOMAIN r = 1 .. Len(q) + 1
      /\ r[Len(q) + 1] = m /\ \A k \in 1 .. Len(q) : r[k] = q[k]
  BY <1>1
<1> HIDE DEF r
<1>3. \A x : x \in Msgs(r, kind) <=> \E k \in DOMAIN r : r[k].kind = kind /\ x = r[k]
  BY Zenon DEF Msgs
<1>4. \A x : x \in Msgs(q, kind) <=> \E k \in DOMAIN q : q[k].kind = kind /\ x = q[k]
  BY Zenon DEF Msgs
<1>5. m.kind = kind => Msgs(r, kind) = Msgs(q, kind) \cup {m}
  BY <1>2, <1>3, <1>4
<1>6. m.kind # kind => Msgs(r, kind) = Msgs(q, kind)
  <2>1. Msgs(q, kind) \subseteq Msgs(r, kind)
    BY <1>2, <1>3, <1>4
  <2>2. m.kind # kind => Msgs(r, kind) \subseteq Msgs(q, kind)
    BY <1>2, <1>3, <1>4
  <2> QED BY Zenon, <2>1, <2>2
<1>7. ASSUME Single(q, kind), m.kind = kind => Msgs(q, kind) = {} PROVE Single(r, kind)
  <2> SUFFICES ASSUME NEW j \in DOMAIN r, NEW k \in DOMAIN r, r[j].kind = kind, r[k].kind = kind PROVE j = k
    BY Zenon DEF Single
  <2>1. m.kind = kind => \A l \in DOMAIN q : q[l].kind # kind
    BY Zenon, <1>4, <1>7
  <2>2. \A l \in DOMAIN r : l \in DOMAIN q \/ l = Len(q) + 1
    BY <1>2
  <2>3. CASE j \in DOMAIN q /\ k \in DOMAIN q
    BY Zenon, <1>2, <1>7, <2>3 DEF Single
  <2>4. CASE j = Len(q) + 1 /\ k = Len(q) + 1
    BY Zenon, <2>4
  <2>5. CASE (j = Len(q) + 1 /\ k \in DOMAIN q) \/ (k = Len(q) + 1 /\ j \in DOMAIN q)
    BY Zenon, <1>2, <2>1, <2>5
  <2> QED BY Zenon, <2>2, <2>3, <2>4, <2>5
<1> QED BY Zenon, <1>5, <1>6, <1>7 DEF r

LEMMA MsgsTail ==
    ASSUME NEW q \in Seq(Message), q # <<>>, NEW kind
    PROVE  /\ Head(q).kind # kind => Msgs(Tail(q), kind) = Msgs(q, kind)
           /\ Head(q).kind = kind => Head(q) \in Msgs(q, kind)
           /\ Head(q).kind = kind /\ Single(q, kind) => Msgs(q, kind) = {Head(q)} /\ Msgs(Tail(q), kind) = {}
           /\ Single(q, kind) => Single(Tail(q), kind)
           /\ Msgs(Tail(q), kind) \subseteq Msgs(q, kind)
<1> DEFINE T == Message
           r == Tail(q)
<1>1. q \in Seq(T)
  BY Zenon
<1> HIDE DEF T
<1>2. /\ DOMAIN q = 1 .. Len(q) /\ Len(q) \in Nat /\ Len(q) > 0 /\ DOMAIN r = 1 .. Len(q) - 1
      /\ Head(q) = q[1] /\ \A k \in 1 .. Len(q) - 1 : r[k] = q[k + 1]
  BY <1>1
<1> HIDE DEF r
<1>3. \A x : x \in Msgs(r, kind) <=> \E k \in DOMAIN r : r[k].kind = kind /\ x = r[k]
  BY Zenon DEF Msgs
<1>4. \A x : x \in Msgs(q, kind) <=> \E k \in DOMAIN q : q[k].kind = kind /\ x = q[k]
  BY Zenon DEF Msgs
<1>5. \A k \in DOMAIN r : k + 1 \in DOMAIN q /\ r[k] = q[k + 1] /\ k + 1 # 1
  BY <1>2
<1>6. \A k \in DOMAIN q : k # 1 => k - 1 \in DOMAIN r /\ q[k] = r[k - 1]
  BY <1>2
<1>7. Msgs(r, kind) \subseteq Msgs(q, kind)
  BY <1>3, <1>4, <1>5
<1>8. Head(q).kind # kind => Msgs(q, kind) \subseteq Msgs(r, kind)
  BY <1>2, <1>3, <1>4, <1>6
<1>9. Head(q).kind = kind => Head(q) \in Msgs(q, kind)
  BY <1>2, <1>4
<1>10. ASSUME Single(q, kind), Head(q).kind = kind PROVE Msgs(q, kind) = {Head(q)} /\ Msgs(r, kind) = {}
  <2>1. 1 \in DOMAIN q /\ \A k \in DOMAIN q : q[k].kind = kind => k = 1
    BY <1>2, <1>10 DEF Single
  <2>2. \A x \in Msgs(q, kind) : x = Head(q)
    BY Zenon, <1>2, <1>4, <2>1
  <2>3. \A x : x \notin Msgs(r, kind)
    BY Zenon, <1>3, <1>5, <2>1
  <2> QED BY Zenon, <1>9, <1>10, <2>2, <2>3
<1>11. ASSUME Single(q, kind) PROVE Single(r, kind)
  <2> SUFFICES ASSUME NEW j \in DOMAIN r, NEW k \in DOMAIN r, r[j].kind = kind, r[k].kind = kind PROVE j = k
    BY Zenon DEF Single
  <2>1. j + 1 = k + 1
    BY Zenon, <1>5, <1>11 DEF Single
  <2> QED BY <1>2, <2>1
<1> QED BY Zenon, <1>7, <1>8, <1>9, <1>10, <1>11 DEF r

\* The same of deliver() and closed(), for every channel.
LEMMA DeliverOther ==
    ASSUME NEW ch \in [Iface -> Seq(Message)], NEW to, NEW m \in Message, NEW i \in Iface, NEW kind,
           i \notin to \/ gone(Owner(i)) \/ m.kind # kind
    PROVE  /\ Msgs(deliver(ch, to, m)[i], kind) = Msgs(ch[i], kind)
           /\ Single(ch[i], kind) => Single(deliver(ch, to, m)[i], kind)
<1>1. ch[i] \in Seq(Message)
  BY Zenon
<1>2. CASE i \in to /\ ~ gone(Owner(i))
  <2>1. deliver(ch, to, m)[i] = Append(ch[i], m) /\ m.kind # kind
    BY Zenon, <1>2 DEF deliver
  <2>2. /\ Msgs(Append(ch[i], m), kind) = Msgs(ch[i], kind)
        /\ Single(ch[i], kind) => Single(Append(ch[i], m), kind)
    BY <1>1, <2>1, MsgsAppend
  <2> QED BY Zenon, <2>1, <2>2
<1>3. CASE ~ (i \in to /\ ~ gone(Owner(i)))
  <2>1. deliver(ch, to, m)[i] = ch[i]
    BY Zenon, <1>3 DEF deliver
  <2> QED BY Zenon, <2>1
<1> QED BY Zenon, <1>2, <1>3

LEMMA DeliverThis ==
    ASSUME NEW ch \in [Iface -> Seq(Message)], NEW to, NEW m \in Message, NEW i \in to, i \in Iface,
           ~ gone(Owner(i))
    PROVE  /\ Msgs(deliver(ch, to, m)[i], m.kind) = Msgs(ch[i], m.kind) \cup {m}
           /\ Single(ch[i], m.kind) /\ Msgs(ch[i], m.kind) = {} => Single(deliver(ch, to, m)[i], m.kind)
<1>1. ch[i] \in Seq(Message)
  BY Zenon
<1>2. deliver(ch, to, m)[i] = Append(ch[i], m)
  BY Zenon DEF deliver
<1>3. /\ Msgs(Append(ch[i], m), m.kind) = Msgs(ch[i], m.kind) \cup {m}
      /\ Single(ch[i], m.kind) /\ Msgs(ch[i], m.kind) = {} => Single(Append(ch[i], m), m.kind)
  BY Zenon, <1>1, MsgsAppend
<1> QED BY Zenon, <1>2, <1>3

LEMMA ClosedMsgs ==
    ASSUME NEW ch \in [Iface -> Seq(Message)], NEW p, NEW i \in Iface
    PROVE  /\ \A kind \in {"cmdSyncReq", "cmdSyncAck"} :
                /\ Msgs(closed(ch, p)[i], kind) = Msgs(ch[i], kind)
                /\ Single(ch[i], kind) => Single(closed(ch, p)[i], kind)
           /\ Owner(Peer(i)) # p => closed(ch, p)[i] = ch[i]
<1>1. ch[i] \in Seq(Message) /\ [kind |-> "closed"] \in Message
  BY Zenon DEF Message
<1>2. Owner(Peer(i)) # p => closed(ch, p)[i] = ch[i]
  BY Zenon DEF closed
<1>3. Owner(Peer(i)) = p => closed(ch, p)[i] = Append(ch[i], [kind |-> "closed"])
  BY Zenon DEF closed
<1>4. \A kind \in {"cmdSyncReq", "cmdSyncAck"} :
                /\ Msgs(Append(ch[i], [kind |-> "closed"]), kind) = Msgs(ch[i], kind)
                /\ Single(ch[i], kind) => Single(Append(ch[i], [kind |-> "closed"]), kind)
  BY SMTT(30), <1>1, MsgsAppend
<1> QED BY Zenon, <1>2, <1>3, <1>4

\* The messages of the barriers are where they were.
KeepsMsgs == \A n \in Node : Req(n)' = Req(n) /\ Ack(n)' = Ack(n)
Channels == in \in [Iface -> Seq(Message)] /\ \A n \in Node : ChanInv(n)
StayGone == \A p \in Proc : gone(p) => gone(p)'

LEMMA InSame ==
    ASSUME Channels, StayGone, in' = in
    PROVE  KeepsMsgs /\ \A n \in Node : ChanInv(n)'
BY Zenon, Ends DEF Channels, StayGone, KeepsMsgs, ChanInv, Req, Ack

\* A process that stops closes its connections.
LEMMA InStops ==
    ASSUME Channels, StayGone, NEW p \in Proc, in' = closed(in, p), gone(p)'
    PROVE  KeepsMsgs /\ \A n \in Node : ChanInv(n)'
<1> SUFFICES ASSUME NEW n \in Node PROVE Req(n)' = Req(n) /\ Ack(n)' = Ack(n) /\ ChanInv(n)'
  BY Zenon DEF KeepsMsgs
<1> DEFINE a == <<n, "switch">>
           b == <<n, "node">>
<1>1. a \in Iface /\ b \in Iface /\ Owner(Peer(a)) = n /\ Owner(Peer(b)) = Switch /\ n \in Proc /\ Switch \in Proc
  BY Zenon, Ends
<1> HIDE DEF a, b
<1>2. \A i \in {a, b} : \A kind \in {"cmdSyncReq", "cmdSyncAck"} :
                /\ Msgs(in'[i], kind) = Msgs(in[i], kind)
                /\ Single(in[i], kind) => Single(in'[i], kind)
  BY SMTT(30), <1>1, ClosedMsgs DEF Channels
<1>3. (n # p => in'[a] = in[a]) /\ (Switch # p => in'[b] = in[b])
  BY Zenon, <1>1, ClosedMsgs DEF Channels
<1>4. /\ Single(in[a], "cmdSyncReq") /\ Single(in[b], "cmdSyncAck")
      /\ Msgs(in[b], "closed") # {} => gone(Switch)
      /\ Msgs(in[a], "closed") # {} => gone(n)
  BY Zenon DEF Channels, ChanInv, a, b
<1>5. Msgs(in'[b], "closed") # {} => gone(Switch)'
  BY Zenon, <1>1, <1>3, <1>4 DEF StayGone
<1>6. Msgs(in'[a], "closed") # {} => gone(n)'
  BY Zenon, <1>1, <1>3, <1>4 DEF StayGone
<1>7. Single(in'[a], "cmdSyncReq") /\ Single(in'[b], "cmdSyncAck")
  BY Zenon, <1>2, <1>4
<1>8. Msgs(in'[a], "cmdSyncReq") = Msgs(in[a], "cmdSyncReq") /\ Msgs(in'[b], "cmdSyncAck") = Msgs(in[b], "cmdSyncAck")
  BY Zenon, <1>2
<1> QED BY Zenon, <1>5, <1>6, <1>7, <1>8 DEF ChanInv, Req, Ack, a, b

\* A packet is sent.
LEMMA InData ==
    ASSUME Channels, StayGone, NEW i \in Iface, NEW m \in Message, m.kind = "dataDescriptor",
           in' = deliver(in, {i}, m)
    PROVE  KeepsMsgs /\ \A n \in Node : ChanInv(n)'
<1>1. \A j \in Iface, kind \in {"cmdSyncReq", "cmdSyncAck", "closed"} :
         Msgs(in'[j], kind) = Msgs(in[j], kind) /\ (Single(in[j], kind) => Single(in'[j], kind))
  <2> TAKE j \in Iface, kind \in {"cmdSyncReq", "cmdSyncAck", "closed"}
  <2>1. m.kind # kind
    BY Zenon
  <2>2. in \in [Iface -> Seq(Message)]
    BY Zenon DEF Channels
  <2>3. /\ Msgs(deliver(in, {i}, m)[j], kind) = Msgs(in[j], kind)
        /\ Single(in[j], kind) => Single(deliver(in, {i}, m)[j], kind)
    BY Zenon, <2>1, <2>2, DeliverOther
  <2> QED BY Zenon, <2>3
<1> QED BY Zenon, <1>1, Ends DEF Channels, StayGone, KeepsMsgs, ChanInv, Req, Ack

\* A node sends its request; there is none before it.
LEMMA InRequest ==
    ASSUME Channels, StayGone, NEW n \in Node, NEW m \in Message, m.kind = "cmdSyncReq",
           in' = deliver(in, {<<n, "switch">>}, m), ~ gone(Switch) => Req(n) = {}
    PROVE  /\ \A k \in Node : Ack(k)' = Ack(k) /\ (k # n => Req(k)' = Req(k)) /\ ChanInv(k)'
           /\ gone(Switch) => Req(n)' = Req(n)
           /\ ~ gone(Switch) => Req(n)' = {m}
<1>1. \A j \in Iface, kind \in {"cmdSyncReq", "cmdSyncAck", "closed"} :
         kind # "cmdSyncReq" \/ j # <<n, "switch">> \/ gone(Switch) =>
           Msgs(in'[j], kind) = Msgs(in[j], kind) /\ (Single(in[j], kind) => Single(in'[j], kind))
  <2> SUFFICES ASSUME NEW j \in Iface, NEW kind \in {"cmdSyncReq", "cmdSyncAck", "closed"},
                      kind # "cmdSyncReq" \/ j # <<n, "switch">> \/ gone(Switch)
               PROVE  Msgs(in'[j], kind) = Msgs(in[j], kind) /\ (Single(in[j], kind) => Single(in'[j], kind))
    BY Zenon
  <2>1. j \notin {<<n, "switch">>} \/ gone(Owner(j)) \/ m.kind # kind
    BY Zenon, Ends
  <2>2. in \in [Iface -> Seq(Message)]
    BY Zenon DEF Channels
  <2>3. /\ Msgs(deliver(in, {<<n, "switch">>}, m)[j], kind) = Msgs(in[j], kind)
        /\ Single(in[j], kind) => Single(deliver(in, {<<n, "switch">>}, m)[j], kind)
    BY <2>1, <2>2, DeliverOther, Zenon
  <2> QED BY Zenon, <2>3
<1>2. ASSUME ~ gone(Switch)
      PROVE  /\ Msgs(in'[<<n, "switch">>], "cmdSyncReq") = Msgs(in[<<n, "switch">>], "cmdSyncReq") \cup {m}
             /\ Single(in[<<n, "switch">>], "cmdSyncReq") => Single(in'[<<n, "switch">>], "cmdSyncReq")
  <2>1. <<n, "switch">> \in Iface /\ Owner(<<n, "switch">>) = Switch
    BY Zenon, Ends
  <2>2. in \in [Iface -> Seq(Message)] /\ <<n, "switch">> \in {<<n, "switch">>}
    BY Zenon DEF Channels
  <2>3. /\ Msgs(deliver(in, {<<n, "switch">>}, m)[<<n, "switch">>], m.kind) = Msgs(in[<<n, "switch">>], m.kind) \cup {m}
        /\ Single(in[<<n, "switch">>], m.kind) /\ Msgs(in[<<n, "switch">>], m.kind) = {}
             => Single(deliver(in, {<<n, "switch">>}, m)[<<n, "switch">>], m.kind)
    BY <1>2, <2>1, <2>2, DeliverThis, Zenon
  <2> QED BY Zenon, <1>2, <2>3 DEF Req
<1>3. \A k \in Node : Ack(k)' = Ack(k) /\ (k # n => Req(k)' = Req(k))
  BY Zenon, <1>1, Ends DEF Req, Ack
<1>4. gone(Switch) => Req(n)' = Req(n)
  BY Zenon, <1>1, Ends DEF Req
<1>5. ~ gone(Switch) => Req(n)' = {m}
  BY Zenon, <1>2 DEF Req
<1>6. ASSUME NEW k \in Node PROVE ChanInv(k)'
  <2>1. /\ Single(in[<<k, "switch">>], "cmdSyncReq") /\ Single(in[<<k, "node">>], "cmdSyncAck")
        /\ Msgs(in[<<k, "node">>], "closed") # {} => gone(Switch)
        /\ Msgs(in[<<k, "switch">>], "closed") # {} => gone(k)
    BY Zenon DEF Channels, ChanInv
  <2>2. Single(in'[<<k, "switch">>], "cmdSyncReq")
    BY Zenon, <1>1, <1>2, <2>1, Ends
  <2>3. Single(in'[<<k, "node">>], "cmdSyncAck")
    BY Zenon, <1>1, <2>1, Ends
  <2>4. /\ Msgs(in'[<<k, "node">>], "closed") # {} => gone(Switch)'
        /\ Msgs(in'[<<k, "switch">>], "closed") # {} => gone(k)'
    BY Zenon, <1>1, <2>1, Ends DEF StayGone
  <2> QED BY Zenon, <2>2, <2>3, <2>4 DEF ChanInv
<1> QED BY Zenon, <1>3, <1>4, <1>5, <1>6

\* A receive thread takes a message.
LEMMA InTail ==
    ASSUME Channels, StayGone, NEW i \in Iface, in[i] # <<>>, in' = [in EXCEPT ![i] = Tail(@)]
    PROVE  /\ \A n \in Node : ChanInv(n)'
           /\ \A n \in Node : /\ i # <<n, "switch">> \/ Head(in[i]).kind # "cmdSyncReq" => Req(n)' = Req(n)
                              /\ i # <<n, "node">> \/ Head(in[i]).kind # "cmdSyncAck" => Ack(n)' = Ack(n)
                              /\ i = <<n, "switch">> /\ Head(in[i]).kind = "cmdSyncReq"
                                   => Req(n) = {Head(in[i])} /\ Req(n)' = {}
                              /\ i = <<n, "node">> /\ Head(in[i]).kind = "cmdSyncAck"
                                   => Ack(n) = {Head(in[i])} /\ Ack(n)' = {}
                              /\ i = <<n, "node">> /\ Head(in[i]).kind = "closed" => gone(Switch)
                              /\ i = <<n, "switch">> /\ Head(in[i]).kind = "closed" => gone(n)
<1>1. in[i] \in Seq(Message) /\ in'[i] = Tail(in[i]) /\ \A j \in Iface \ {i} : in'[j] = in[j]
  BY Zenon DEF Channels
<1>2. \A kind \in {"cmdSyncReq", "cmdSyncAck", "closed"} :
           /\ Head(in[i]).kind # kind => Msgs(in'[i], kind) = Msgs(in[i], kind)
           /\ Head(in[i]).kind = kind => Head(in[i]) \in Msgs(in[i], kind)
           /\ Head(in[i]).kind = kind /\ Single(in[i], kind)
                 => Msgs(in[i], kind) = {Head(in[i])} /\ Msgs(in'[i], kind) = {}
           /\ Single(in[i], kind) => Single(in'[i], kind)
           /\ Msgs(in'[i], kind) \subseteq Msgs(in[i], kind)
  <2> TAKE kind \in {"cmdSyncReq", "cmdSyncAck", "closed"}
  <2> DEFINE q == in[i]
  <2>1. q \in Seq(Message) /\ q # <<>> /\ in'[i] = Tail(q)
    BY Zenon, <1>1
  <2> HIDE DEF q
  <2>2. /\ Head(q).kind # kind => Msgs(Tail(q), kind) = Msgs(q, kind)
        /\ Head(q).kind = kind => Head(q) \in Msgs(q, kind)
        /\ Head(q).kind = kind /\ Single(q, kind) => Msgs(q, kind) = {Head(q)} /\ Msgs(Tail(q), kind) = {}
        /\ Single(q, kind) => Single(Tail(q), kind)
        /\ Msgs(Tail(q), kind) \subseteq Msgs(q, kind)
    BY Zenon, <2>1, MsgsTail
  <2> QED BY Zenon, <2>1, <2>2 DEF q
<1> SUFFICES ASSUME NEW n \in Node
             PROVE  /\ ChanInv(n)'
                    /\ i # <<n, "switch">> \/ Head(in[i]).kind # "cmdSyncReq" => Req(n)' = Req(n)
                    /\ i # <<n, "node">> \/ Head(in[i]).kind # "cmdSyncAck" => Ack(n)' = Ack(n)
                    /\ i = <<n, "switch">> /\ Head(in[i]).kind = "cmdSyncReq"
                         => Req(n) = {Head(in[i])} /\ Req(n)' = {}
                    /\ i = <<n, "node">> /\ Head(in[i]).kind = "cmdSyncAck"
                         => Ack(n) = {Head(in[i])} /\ Ack(n)' = {}
                    /\ i = <<n, "node">> /\ Head(in[i]).kind = "closed" => gone(Switch)
                    /\ i = <<n, "switch">> /\ Head(in[i]).kind = "closed" => gone(n)
  BY Zenon
<1> DEFINE a == <<n, "switch">>
           b == <<n, "node">>
           k == Head(in[i]).kind
<1>3. a \in Iface /\ b \in Iface /\ n \in Proc /\ Switch \in Proc
  BY Zenon, Ends
<1>4. /\ Single(in[a], "cmdSyncReq") /\ Single(in[b], "cmdSyncAck")
      /\ Msgs(in[b], "closed") # {} => gone(Switch)
      /\ Msgs(in[a], "closed") # {} => gone(n)
  BY Zenon DEF Channels, ChanInv
<1> HIDE DEF a, b, k
<1>5. Single(in'[a], "cmdSyncReq") /\ Single(in'[b], "cmdSyncAck")
  BY Zenon, <1>1, <1>2, <1>3, <1>4
<1>6. Msgs(in'[a], "closed") \subseteq Msgs(in[a], "closed") /\ Msgs(in'[b], "closed") \subseteq Msgs(in[b], "closed")
  BY Zenon, <1>1, <1>2, <1>3
<1>7. (Msgs(in'[b], "closed") # {} => gone(Switch)') /\ (Msgs(in'[a], "closed") # {} => gone(n)')
  BY Zenon, <1>3, <1>4, <1>6 DEF StayGone
<1>8. i # a \/ k # "cmdSyncReq" => Msgs(in'[a], "cmdSyncReq") = Msgs(in[a], "cmdSyncReq")
  BY Zenon, <1>1, <1>2, <1>3 DEF k
<1>9. i # b \/ k # "cmdSyncAck" => Msgs(in'[b], "cmdSyncAck") = Msgs(in[b], "cmdSyncAck")
  BY Zenon, <1>1, <1>2, <1>3 DEF k
<1>10. i = a /\ k = "cmdSyncReq" => Msgs(in[a], "cmdSyncReq") = {Head(in[i])} /\ Msgs(in'[a], "cmdSyncReq") = {}
  BY Zenon, <1>2, <1>4 DEF k
<1>11. i = b /\ k = "cmdSyncAck" => Msgs(in[b], "cmdSyncAck") = {Head(in[i])} /\ Msgs(in'[b], "cmdSyncAck") = {}
  BY Zenon, <1>2, <1>4 DEF k
<1>12. (i = b /\ k = "closed" => gone(Switch)) /\ (i = a /\ k = "closed" => gone(n))
  BY Zenon, <1>2, <1>4 DEF k
<1> QED BY Zenon, <1>5, <1>7, <1>8, <1>9, <1>10, <1>11, <1>12 DEF ChanInv, Req, Ack, a, b, k

\* The switch acknowledges: to all nodes, or to some before it fails.
LEMMA InAck ==
    ASSUME Channels, StayGone, NEW m \in Message, m.kind = "cmdSyncAck", \A n \in Node : Ack(n) = {},
           \/ in' = deliver(in, peers(Switch), m)
           \/ gone(Switch)' /\ \E reached \in SUBSET peers(Switch) : in' = closed(deliver(in, reached, m), Switch)
    PROVE  /\ \A n \in Node : ChanInv(n)' /\ Req(n)' = Req(n) /\ Ack(n)' \in {{}, {m}}
           /\ ~ gone(Switch)' => \A n \in Node : ~ gone(n) => Ack(n)' = {m}
<1> SUFFICES ASSUME NEW n \in Node
             PROVE  /\ ChanInv(n)' /\ Req(n)' = Req(n) /\ Ack(n)' \in {{}, {m}}
                    /\ ~ gone(Switch)' => (~ gone(n) => Ack(n)' = {m})
  BY Zenon
<1> DEFINE a == <<n, "switch">>
           b == <<n, "node">>
<1>1. a \in Iface /\ b \in Iface /\ Owner(Peer(a)) = n /\ Owner(Peer(b)) = Switch /\ n \in Proc /\ Switch \in Proc
      /\ Owner(a) = Switch /\ Owner(b) = n /\ n # Switch
  BY Ends
<1>2. /\ Single(in[a], "cmdSyncReq") /\ Single(in[b], "cmdSyncAck")
      /\ Msgs(in[b], "closed") # {} => gone(Switch)
      /\ Msgs(in[a], "closed") # {} => gone(n)
      /\ Msgs(in[b], "cmdSyncAck") = {}
  BY Zenon DEF Channels, ChanInv, Ack
<1>3. \A to \in SUBSET peers(Switch) : a \notin to
  BY Zenon, <1>1 DEF peers
<1>4. b \in peers(Switch)
  BY Zenon, <1>1 DEF peers
<1> HIDE DEF a, b
<1> DEFINE ch(to) == deliver(in, to, m)
<1>5. ASSUME NEW to \in SUBSET peers(Switch)
      PROVE  /\ ch(to) \in [Iface -> Seq(Message)]
             /\ \A kind \in {"cmdSyncReq", "closed"} :
                   Msgs(ch(to)[a], kind) = Msgs(in[a], kind) /\ (Single(in[a], kind) => Single(ch(to)[a], kind))
             /\ Msgs(ch(to)[b], "closed") = Msgs(in[b], "closed")
             /\ Single(ch(to)[b], "cmdSyncAck")
             /\ Msgs(ch(to)[b], "cmdSyncAck") \in {{}, {m}}
             /\ b \in to /\ ~ gone(n) => Msgs(ch(to)[b], "cmdSyncAck") = {m}
  <2>0. in \in [Iface -> Seq(Message)]
    BY Zenon DEF Channels
  <2>1. ch(to) \in [Iface -> Seq(Message)]
    BY Zenon, ChannelTypes DEF Channels
  <2>2. ASSUME NEW kind \in {"cmdSyncReq", "closed"}
        PROVE  Msgs(ch(to)[a], kind) = Msgs(in[a], kind) /\ (Single(in[a], kind) => Single(ch(to)[a], kind))
    <3>1. a \notin to \/ gone(Owner(a)) \/ m.kind # kind
      BY Zenon, <1>3
    <3> QED BY <1>1, <2>0, <3>1, DeliverOther, Zenon
  <2>3. Msgs(ch(to)[b], "closed") = Msgs(in[b], "closed") /\ (Single(in[b], "closed") => Single(ch(to)[b], "closed"))
    <3>1. b \notin to \/ gone(Owner(b)) \/ m.kind # "closed"
      BY Zenon
    <3> QED BY <1>1, <2>0, <3>1, DeliverOther, Zenon
  <2>4. CASE b \in to /\ ~ gone(n)
    <3>1. /\ Msgs(ch(to)[b], m.kind) = Msgs(in[b], m.kind) \cup {m}
          /\ Single(in[b], m.kind) /\ Msgs(in[b], m.kind) = {} => Single(ch(to)[b], m.kind)
      BY <1>1, <2>0, <2>4, DeliverThis, Zenon
    <3> HIDE DEF ch
    <3>2. Msgs(ch(to)[b], "cmdSyncAck") = {m} /\ Single(ch(to)[b], "cmdSyncAck")
      BY Zenon, <1>2, <3>1
    <3> QED BY Zenon, <2>1, <2>2, <2>3, <3>2
  <2>5. CASE ~ (b \in to /\ ~ gone(n))
    <3>1. b \notin to \/ gone(Owner(b)) \/ m.kind # "cmdSyncAck"
      BY Zenon, <1>1, <2>5
    <3>2. /\ Msgs(ch(to)[b], "cmdSyncAck") = Msgs(in[b], "cmdSyncAck")
          /\ Single(in[b], "cmdSyncAck") => Single(ch(to)[b], "cmdSyncAck")
      BY <1>1, <2>0, <3>1, DeliverOther, Zenon
    <3> HIDE DEF ch
    <3> QED BY Zenon, <1>2, <2>1, <2>2, <2>3, <2>5, <3>2
  <2> QED BY Zenon, <2>4, <2>5
<1> HIDE DEF ch
<1>6. CASE in' = deliver(in, peers(Switch), m)
  <2>1. /\ Msgs(in'[a], "cmdSyncReq") = Msgs(in[a], "cmdSyncReq") /\ Single(in'[a], "cmdSyncReq")
        /\ Msgs(in'[a], "closed") = Msgs(in[a], "closed")
        /\ Msgs(in'[b], "closed") = Msgs(in[b], "closed")
        /\ Single(in'[b], "cmdSyncAck")
        /\ Msgs(in'[b], "cmdSyncAck") \in {{}, {m}}
        /\ ~ gone(n) => Msgs(in'[b], "cmdSyncAck") = {m}
    <3>1. in' = ch(peers(Switch)) /\ peers(Switch) \in SUBSET peers(Switch)
      BY Zenon, <1>6 DEF ch
    <3> QED BY Zenon, <1>2, <1>4, <1>5, <3>1
  <2> QED BY Zenon, <1>1, <1>2, <2>1 DEF StayGone, ChanInv, Req, Ack, a, b
<1>7. ASSUME gone(Switch)', NEW reached \in SUBSET peers(Switch), in' = closed(deliver(in, reached, m), Switch)
      PROVE  ChanInv(n)' /\ Req(n)' = Req(n) /\ Ack(n)' \in {{}, {m}}
  <2> DEFINE c == ch(reached)
  <2>1. /\ c \in [Iface -> Seq(Message)]
        /\ Msgs(c[a], "cmdSyncReq") = Msgs(in[a], "cmdSyncReq") /\ Single(c[a], "cmdSyncReq")
        /\ Msgs(c[a], "closed") = Msgs(in[a], "closed")
        /\ Msgs(c[b], "closed") = Msgs(in[b], "closed")
        /\ Single(c[b], "cmdSyncAck")
        /\ Msgs(c[b], "cmdSyncAck") \in {{}, {m}}
    BY Zenon, <1>2, <1>5
  <2> HIDE DEF c
  <2>2. in' = closed(c, Switch)
    BY Zenon, <1>7 DEF c, ch
  <2>c. /\ c \in [Iface -> Seq(Message)]
        /\ a \in Iface /\ b \in Iface /\ Owner(Peer(a)) = n /\ Owner(Peer(b)) = Switch /\ n # Switch
    BY Zenon, <1>1, <2>1
  <2> HIDE DEF a, b
  <2>3. \A i \in {a, b} : \A kind \in {"cmdSyncReq", "cmdSyncAck"} :
                /\ Msgs(in'[i], kind) = Msgs(c[i], kind)
                /\ Single(c[i], kind) => Single(in'[i], kind)
    BY SMTT(30), <2>c, <2>2, ClosedMsgs
  <2>4. in'[a] = c[a]
    BY Zenon, <2>c, <2>2, ClosedMsgs
  <2>5. Single(in'[a], "cmdSyncReq") /\ Single(in'[b], "cmdSyncAck")
    BY Zenon, <2>1, <2>3
  <2>6. Msgs(in'[a], "cmdSyncReq") = Msgs(in[a], "cmdSyncReq") /\ Msgs(in'[b], "cmdSyncAck") \in {{}, {m}}
    BY Zenon, <2>1, <2>3
  <2>7. Msgs(in'[a], "closed") # {} => gone(n)'
    BY Zenon, <1>1, <1>2, <2>1, <2>4 DEF StayGone
  <2> QED BY Zenon, <1>7, <2>5, <2>6, <2>7 DEF ChanInv, Req, Ack, a, b
<1> QED BY Zenon, <1>6, <1>7

-----------------------------------------------------------------------------
(* The steps, by what they change                                          *)

\* The simulation thread and the Sync object of q are as before.
Keeps(q) ==
    /\ tick'[q] = tick[q] /\ pc'[q] = pc[q] /\ caller'[q] = caller[q]
    /\ ev'[q] = ev[q] /\ sync'[q] = sync[q] /\ exiting'[q] = exiting[q]
Rest(p) == \A q \in Proc \ {p} : Keeps(q)
KeepsNeed == need' = need /\ num' = num
KeepsEvent(p) == When(p)' = When(p) /\ Sched(p)' = Sched(p)
KeepsSync(p) == At(p)' = At(p) /\ Rep(p)' = Rep(p) /\ Ab(p)' = Ab(p) /\ \A w \in Wish : Do(p, w)' = Do(p, w)

\* The request of a node, and what is left of its wishes when it is sent.
Request(n) == [kind |-> "cmdSyncReq", sendTick |-> tick[n], syncRepeat |-> Rep(n), need |-> need[n]]
Sends(n) ==
    /\ W(n)' = 1 /\ ~ Ab(n)
    /\ \A k \in Node : Ack(k)' = Ack(k) /\ (k # n => Req(k)' = Req(k) /\ need'[k] = need[k])
    /\ gone(Switch) => Req(n)' = Req(n)
    /\ ~ gone(Switch) => Req(n)' = {Request(n)}
    /\ \A w \in Wish : /\ need[n][w] = "none" => need'[n][w] = "none"
                       /\ need[n][w] # "none" => need'[n][w] = "pending"

RunEnters(p, who) ==
    /\ pc'[p] = "wait" /\ caller'[p] = who /\ KeepsSync(p)
    /\ p = Switch => W(p)' = W(p) /\ KeepsMsgs /\ need' = need
    /\ p # Switch => Sends(p)
RunFails(p, who) ==
    pc'[p] \in Stopped /\ caller'[p] = who /\ sync'[p] = sync[p] /\ KeepsMsgs /\ need' = need

Enters(p, who) ==
    /\ <<pc[p], who>> \in {<<"startup", "startup">>, <<"event", "periodic">>, <<"drain", "ckpt">>}
    /\ RunEnters(p, who) /\ tick'[p] = tick[p] /\ KeepsEvent(p) /\ num' = num
    /\ ev'[p].repeat = (IF who = "startup" THEN Rep(p) ELSE ev[p].repeat)
    /\ p = Switch \/ who # "ckpt" => exiting'[p] = exiting[p]

Halts(p) ==
    /\ ~ gone(p) /\ pc'[p] \in Stopped /\ When(p)' = When(p) /\ sync'[p] = sync[p] /\ KeepsNeed /\ KeepsMsgs
    /\ \/ tick'[p] = tick[p]
       \/ /\ pc[p] \in {"run", "drain"} /\ tick'[p] = tick[p] + 1
          /\ ~ (Sched(p) /\ When(p) = tick[p]) /\ (pc[p] = "run" => ~ exiting[p])
    /\ \/ caller'[p] = caller[p]
       \/ pc[p] \in {"startup", "event", "drain"} /\ caller'[p] \in {"startup", "periodic", "ckpt"}

Ticks(p) ==
    /\ pc[p] \in {"run", "drain"} /\ (pc[p] = "run" => ~ exiting[p]) /\ (pc[p] = "drain" => p # Switch)
    /\ ~ (Sched(p) /\ When(p) = tick[p])
    /\ tick'[p] = tick[p] + 1 /\ ~ exiting'[p] /\ pc'[p] = pc[p] /\ caller'[p] = caller[p]
    /\ ev'[p] = ev[p] /\ sync'[p] = sync[p] /\ KeepsNeed /\ KeepsMsgs

Fires(p) ==
    /\ pc[p] = "run" /\ ~ exiting[p] /\ Sched(p) /\ When(p) = tick[p]
    /\ pc'[p] = "event" /\ ~ Sched(p)' /\ When(p)' = When(p) /\ ev'[p].repeat = ev[p].repeat
    /\ tick'[p] = tick[p] /\ caller'[p] = caller[p] /\ sync'[p] = sync[p] /\ exiting'[p] = exiting[p]
    /\ KeepsNeed /\ KeepsMsgs

Starts(p) ==
    /\ completed(p) /\ caller[p] = "startup"
    /\ pc'[p] = "run" /\ Sched(p)' /\ When(p)' = At(p) /\ ev'[p].repeat = ev[p].repeat
    /\ tick'[p] = tick[p] /\ caller'[p] = caller[p] /\ sync'[p] = sync[p] /\ exiting'[p] = exiting[p]
    /\ KeepsNeed /\ KeepsMsgs

Passes(p) ==
    /\ completed(p) /\ caller[p] = "periodic"
    /\ pc'[p] = (IF Do(p, "ckpt") THEN "drain" ELSE "run")
    /\ Sched(p)' /\ When(p)' = tick[p] + Rep(p) /\ ev'[p].repeat = Rep(p)
    /\ tick'[p] = tick[p] /\ caller'[p] = caller[p] /\ sync'[p] = sync[p] /\ exiting'[p] = exiting[p]
    /\ KeepsNeed /\ KeepsMsgs

\* A checkpoint has been written, or a barrier was aborted.
Resumes(p) ==
    /\ \/ completed(p) /\ caller[p] = "ckpt"
       \/ pc[p] = "wait" /\ W(p) = 0 /\ Ab(p) /\ caller[p] \in {"periodic", "ckpt"}
    /\ pc'[p] = "run" /\ tick'[p] = tick[p] /\ caller'[p] = caller[p] /\ ev'[p] = ev[p] /\ exiting'[p] = exiting[p]
    /\ W(p)' = W(p) /\ At(p)' = At(p) /\ Rep(p)' = Rep(p) /\ Ab(p)' = Ab(p)
    /\ \A w \in Wish : Do(p, w)' => Do(p, w)
    /\ KeepsNeed /\ KeepsMsgs

Asks(n) ==
    /\ pc[n] = "run" /\ Keeps(n) /\ num' = num /\ KeepsMsgs
    /\ \A k \in Node \ {n} : need'[k] = need[k]
    /\ need'[n]["stop"] = need[n]["stop"] /\ \A w \in Wish : need'[n][w] \in {need[n][w], "collective"}
    /\ \A w \in Wish : need[n][w] = "pending" => need'[n][w] = "pending"

\* The receive threads.
Hears(n) ==
    \E m \in SyncMessage :
      /\ ~ gone(n) /\ ~ Ab(n) /\ Ack(n) = {m} /\ Ack(n)' = {}
      /\ \A k \in Node : Req(k)' = Req(k) /\ (k # n => Ack(k)' = Ack(k))
      /\ At(n)' = m.sendTick /\ Rep(n)' = m.syncRepeat /\ W(n)' = W(n) - 1 /\ ~ Ab(n)'
      /\ \A w \in Wish : Do(n, w)' <=> m.need[w] # "none"
      /\ tick'[n] = tick[n] /\ pc'[n] = pc[n] /\ caller'[n] = caller[n] /\ ev'[n] = ev[n] /\ exiting'[n] = exiting[n]
      /\ KeepsNeed

Loses(p) ==
    /\ ~ gone(p) /\ (p # Switch => gone(Switch)) /\ (p = Switch => \E n \in Node : gone(n))
    /\ W(p)' = 0 /\ Ab(p)' /\ At(p)' = At(p) /\ Rep(p)' = Rep(p) /\ (\A w \in Wish : Do(p, w)' = Do(p, w))
    /\ exiting'[p] /\ tick'[p] = tick[p] /\ pc'[p] = pc[p] /\ caller'[p] = caller[p] /\ ev'[p] = ev[p]
    /\ KeepsNeed /\ KeepsMsgs

Takes(n, m) ==
    /\ Req(n) = {m} /\ Req(n)' = {} /\ need' = need
    /\ \A k \in Node : Ack(k)' = Ack(k) /\ (k # n => Req(k)' = Req(k))

Ignores(n) == Ab(Switch) /\ Keeps(Switch) /\ num' = num /\ \E m \in SyncMessage : Takes(n, m)

Collects(n) ==
    \E m \in SyncMessage :
      /\ ~ gone(Switch) /\ ~ Ab(Switch) /\ Takes(n, m)
      /\ W(Switch)' = W(Switch) - 1 /\ ~ Ab(Switch)'
      /\ At(Switch)' = (IF m.sendTick > At(Switch) THEN m.sendTick ELSE At(Switch))
      /\ Rep(Switch)' = (IF Rep(Switch) > m.syncRepeat THEN m.syncRepeat ELSE Rep(Switch))
      /\ \A w \in Wish : Do(Switch, w)' <=> Do(Switch, w) \/ m.need[w] = "immediate"
      /\ \A w \in Wish : num'[w] = (IF m.need[w] = "collective" THEN num[w] + 1 ELSE num[w])
      /\ tick'[Switch] = tick[Switch] /\ pc'[Switch] = pc[Switch] /\ caller'[Switch] = caller[Switch]
      /\ ev'[Switch] = ev[Switch] /\ exiting'[Switch] = exiting[Switch]

\* The switch decides.
Decided(w) == Do(Switch, w) \/ num[w] = Cardinality(Node)
Decides ==
    \E m \in SyncMessage :
      /\ pc[Switch] = "wait" /\ W(Switch) = 0 /\ ~ Ab(Switch)
      /\ m.sendTick = At(Switch) /\ m.syncRepeat = Rep(Switch)
      /\ \A w \in Wish : m.need[w] = (IF Decided(w) THEN "immediate" ELSE "none")
      /\ pc'[Switch] \in {"acked", "panic"}
      /\ W(Switch)' = Cardinality(Node) /\ At(Switch)' = At(Switch) /\ Rep(Switch)' = Rep(Switch) /\ ~ Ab(Switch)'
      /\ \A w \in Wish : Do(Switch, w)' <=> Decided(w)
      /\ \A w \in Wish : num'[w] = (IF Decided(w) /\ w # "exit" THEN 0 ELSE num[w])
      /\ tick'[Switch] = tick[Switch] /\ caller'[Switch] = caller[Switch]
      /\ ev'[Switch] = ev[Switch] /\ exiting'[Switch] = exiting[Switch] /\ need' = need
      /\ \A n \in Node : Req(n)' = Req(n) /\ Ack(n)' \in {{}, {m}}
      /\ pc'[Switch] = "acked" => \A n \in Node : ~ gone(n) => Ack(n)' = {m}

\* Every step is one of these; setup never changes.
SimStep(p) ==
    /\ Rest(p)
    /\ \/ \E who \in {"startup", "periodic", "ckpt"} : Enters(p, who)
       \/ Halts(p) \/ Ticks(p) \/ Fires(p) \/ Starts(p) \/ Passes(p) \/ Resumes(p) \/ Loses(p)
NodeStep(n) == (Rest(n) /\ (Asks(n) \/ Hears(n))) \/ (Rest(Switch) /\ (Ignores(n) \/ Collects(n)))
Still == (\A p \in Proc : Keeps(p)) /\ KeepsNeed /\ KeepsMsgs
Step ==
    /\ \/ \E p \in Proc : SimStep(p)
       \/ \E n \in Node : NodeStep(n)
       \/ Rest(Switch) /\ Decides
       \/ Still
    /\ setup' = setup /\ StayGone /\ \A n \in Node : ChanInv(n)'

\* run() up to the wait.
LEMMA RunEffect ==
    ASSUME Types, Channels, NEW p \in Proc, NEW who, ~ gone(p), run(p, who),
           p # Switch /\ ~ gone(Switch) => Req(p) = {}
    PROVE  /\ RunEnters(p, who) \/ RunFails(p, who)
           /\ StayGone /\ \A n \in Node : ChanInv(n)'
           /\ \A q \in Proc \ {p} : pc'[q] = pc[q] /\ caller'[q] = caller[q] /\ sync'[q] = sync[q]
<1>t. /\ pc \in [Proc -> PC] /\ caller \in [Proc -> Caller] /\ sync \in [Proc -> SyncType]
      /\ need \in [Node -> [Wish -> ReqType]]
  BY Zenon DEF Types, SimTypes, SyncTypes
<1>c. caller'[p] = who /\ \A q \in Proc \ {p} : caller'[q] = caller[q]
  BY Zenon, <1>t DEF run
<1>s. "wait" \notin Stopped /\ "panic" \in Stopped
  BY Zenon DEF Stopped
<1>1. CASE p = Switch
  <2>1. pc' = [pc EXCEPT ![p] = "wait"] /\ UNCHANGED <<sync, need, in>>
    BY Zenon, <1>1 DEF run
  <2>2. StayGone
    BY Zenon, <2>1, <1>t DEF StayGone, gone
  <2>3. KeepsMsgs /\ \A n \in Node : ChanInv(n)'
    BY Zenon, <2>1, <2>2, InSame
  <2>4. W(p)' = W(p) /\ KeepsSync(p) /\ pc'[p] = "wait" /\ \A q \in Proc \ {p} : pc'[q] = pc[q] /\ sync'[q] = sync[q]
    BY Zenon, <2>1, <1>t DEF W, KeepsSync, At, Rep, Ab, Do
  <2> QED BY Zenon, <1>c, <1>1, <2>1, <2>2, <2>3, <2>4 DEF RunEnters
<1>2. CASE p # Switch /\ ~ sync[p].isAbort /\ nodeRun(p)
  <2> DEFINE m == [kind |-> "cmdSyncReq", sendTick |-> tick[p], syncRepeat |-> sync[p].nextRepeat, need |-> need[p]]
  <2>1. /\ p \in Node /\ sync' = [sync EXCEPT ![p].waitNum = 1] /\ pc' = [pc EXCEPT ![p] = "wait"]
        /\ in' = deliver(in, {<<p, "switch">>}, m)
        /\ need' = [need EXCEPT ![p] = [w \in Wish |-> IF @[w] = "none" THEN "none" ELSE "pending"]]
    BY Zenon, <1>2 DEF nodeRun, awaiting, Proc
  <2>2. StayGone
    BY Zenon, <2>1, <1>t DEF StayGone, gone
  <2>3. m \in Message /\ m.kind = "cmdSyncReq" /\ m = Request(p)
    BY Zenon, <2>1, <1>t DEF Types, SimTypes, SyncType, Message, Request, Rep
  <2> HIDE DEF m
  <2>4. /\ \A k \in Node : Ack(k)' = Ack(k) /\ (k # p => Req(k)' = Req(k)) /\ ChanInv(k)'
        /\ gone(Switch) => Req(p)' = Req(p)
        /\ ~ gone(Switch) => Req(p)' = {m}
    BY Zenon, <2>1, <2>2, <2>3, <1>2, InRequest
  <2>5. /\ W(p)' = 1 /\ KeepsSync(p) /\ pc'[p] = "wait" /\ ~ Ab(p)
        /\ \A q \in Proc \ {p} : pc'[q] = pc[q] /\ sync'[q] = sync[q]
    BY Zenon, <2>1, <1>t, <1>2 DEF W, KeepsSync, At, Rep, Ab, Do, SyncType
  <2>6. /\ \A k \in Node : k # p => need'[k] = need[k]
        /\ \A w \in Wish : /\ need[p][w] = "none" => need'[p][w] = "none"
                           /\ need[p][w] # "none" => need'[p][w] = "pending"
    BY Zenon, <2>1, <1>t
  <2>7. Sends(p)
    BY Zenon, <2>3, <2>4, <2>5, <2>6 DEF Sends
  <2> QED BY Zenon, <1>c, <1>2, <2>2, <2>4, <2>5, <2>7 DEF RunEnters
<1>3. CASE p # Switch /\ stops(p, "panic") /\ UNCHANGED <<sync, need, asked>>
  <2>1. pc' = [pc EXCEPT ![p] = "panic"] /\ in' = closed(in, p)
    BY Zenon, <1>3 DEF stops
  <2>2. StayGone /\ gone(p)' /\ pc'[p] \in Stopped /\ \A q \in Proc \ {p} : pc'[q] = pc[q]
    BY Zenon, <2>1, <1>t, <1>s DEF StayGone, gone
  <2>3. KeepsMsgs /\ \A n \in Node : ChanInv(n)'
    BY Zenon, <2>1, <2>2, InStops
  <2> QED BY Zenon, <1>c, <1>3, <2>2, <2>3 DEF RunFails
<1> QED BY Zenon, <1>1, <1>2, <1>3 DEF run, sendFails

\* A thread that stops, and one that does not send.
LEMMA StopEffect ==
    ASSUME Types, Channels, NEW p \in Proc, ~ gone(p), NEW why \in Stopped, stops(p, why)
    PROVE  /\ StayGone /\ KeepsMsgs /\ (\A n \in Node : ChanInv(n)')
           /\ pc'[p] = why /\ \A q \in Proc \ {p} : pc'[q] = pc[q]
<1>1. pc' = [pc EXCEPT ![p] = why] /\ in' = closed(in, p) /\ pc \in [Proc -> PC]
  BY Zenon DEF stops, Types, SimTypes
<1>2. StayGone /\ gone(p)' /\ pc'[p] = why /\ \A q \in Proc \ {p} : pc'[q] = pc[q]
  BY Zenon, <1>1 DEF StayGone, gone
<1> QED BY Zenon, <1>1, <1>2, InStops

LEMMA MoveEffect ==
    ASSUME Types, Channels, NEW p \in Proc, ~ gone(p), NEW to, pc' = [pc EXCEPT ![p] = to], in' = in
    PROVE  /\ StayGone /\ KeepsMsgs /\ (\A n \in Node : ChanInv(n)')
           /\ pc'[p] = to /\ \A q \in Proc \ {p} : pc'[q] = pc[q]
<1>1. pc \in [Proc -> PC]
  BY Zenon DEF Types, SimTypes
<1>2. StayGone /\ pc'[p] = to /\ \A q \in Proc \ {p} : pc'[q] = pc[q]
  BY Zenon, <1>1 DEF StayGone, gone
<1> QED BY Zenon, <1>2, InSame

Ready ==
    /\ Counting /\ LeastRepeat /\ Types /\ Regular /\ Channels
    /\ \A p \in Proc : LocalInv(p)
    /\ \A n \in Node : NodeInv(n)
    /\ MainInv

\* The variables of the threads, as functions of the processes.
LEMMA FunctionTypes ==
    ASSUME Types
    PROVE  /\ tick \in [Proc -> Nat] /\ pc \in [Proc -> PC] /\ caller \in [Proc -> Caller]
           /\ ev \in [Proc -> Event] /\ sync \in [Proc -> SyncType] /\ exiting \in [Proc -> BOOLEAN]
           /\ need \in [Node -> [Wish -> ReqType]] /\ num \in [Wish -> Nat]
BY Zenon DEF Types, SimTypes, SyncTypes

\* A process comes to a barrier.
LEMMA EnterEffect ==
    ASSUME Ready, NEW p \in Proc, startup(p) \/ enterPeriodic(p) \/ drainComplete(p), setup' = setup
    PROVE  Step
<1>t. Types /\ Channels /\ Regular /\ (p # Switch => p \in Node)
  BY Zenon DEF Ready, Proc
<1>f. tick \in [Proc -> Nat] /\ ev \in [Proc -> Event] /\ sync \in [Proc -> SyncType] /\ exiting \in [Proc -> BOOLEAN]
  BY Zenon, <1>t, FunctionTypes
<1>1. PICK who \in {"startup", "periodic", "ckpt"} :
        /\ <<pc[p], who>> \in {<<"startup", "startup">>, <<"event", "periodic">>, <<"drain", "ckpt">>}
        /\ run(p, who) /\ tick' = tick /\ num' = num
        /\ IF who = "startup" THEN ev' = [ev EXCEPT ![p].repeat = sync[p].nextRepeat] ELSE ev' = ev
        /\ \/ exiting' = exiting
           \/ who = "ckpt" /\ p # Switch /\ \E e \in {exiting[p], FALSE} : exiting' = [exiting EXCEPT ![p] = e]
  <2>1. CASE startup(p)
    <3>1. start(p, "startup") /\ pc[p] = "startup" /\ UNCHANGED <<tick, num, exiting>>
      BY Zenon, <2>1, <1>t DEF startup, Regular, Ready
    <3> QED BY Zenon, <3>1 DEF start
  <2>2. CASE enterPeriodic(p)
    BY Zenon, <2>2 DEF enterPeriodic
  <2>3. CASE drainComplete(p)
    <3>1. CASE p = Switch
      <4>1. exiting' = [exiting EXCEPT ![p] = exiting[p]]
        BY Zenon, <2>3, <3>1 DEF drainComplete
      <4>2. exiting' = exiting
        BY Zenon, <4>1, <1>f
      <4> QED BY Zenon, <4>2, <2>3 DEF drainComplete
    <3>2. CASE p # Switch
      BY Zenon, <2>3, <3>2 DEF drainComplete
    <3> QED BY Zenon, <3>1, <3>2
  <2> QED BY Zenon, <2>1, <2>2, <2>3
<1>2. pc[p] \in {"startup", "event", "drain"} /\ ~ gone(p)
  BY Zenon, <1>1 DEF gone, Stopped
<1>3. p # Switch /\ ~ gone(Switch) => Req(p) = {}
  BY Zenon, <1>2, <1>t DEF Ready, NodeInv, Stopped
<1>4. /\ RunEnters(p, who) \/ RunFails(p, who)
      /\ StayGone /\ \A n \in Node : ChanInv(n)'
      /\ \A q \in Proc \ {p} : pc'[q] = pc[q] /\ caller'[q] = caller[q] /\ sync'[q] = sync[q]
  BY Zenon, <1>1, <1>2, <1>3, RunEffect DEF Ready
<1>5. /\ KeepsEvent(p) /\ ev'[p].repeat = (IF who = "startup" THEN Rep(p) ELSE ev[p].repeat)
      /\ \A q \in Proc \ {p} : ev'[q] = ev[q]
  BY Zenon, <1>1, <1>f DEF KeepsEvent, When, Sched, Event, Rep
<1>6. (p = Switch \/ who # "ckpt" => exiting'[p] = exiting[p]) /\ \A q \in Proc \ {p} : exiting'[q] = exiting[q]
  BY Zenon, <1>1, <1>f
<1>7. Rest(p)
  BY Zenon, <1>1, <1>4, <1>5, <1>6 DEF Rest, Keeps
<1>8. CASE RunEnters(p, who)
  <2>1. Enters(p, who)
    BY Zenon, <1>1, <1>5, <1>6, <1>8 DEF Enters
  <2> QED BY Zenon, <2>1, <1>4, <1>7 DEF Step, SimStep
<1>9. CASE RunFails(p, who)
  <2>1. Halts(p)
    BY Zenon, <1>1, <1>2, <1>5, <1>9 DEF Halts, RunFails, KeepsNeed, KeepsEvent
  <2> QED BY Zenon, <2>1, <1>4, <1>7 DEF Step, SimStep
<1> QED BY Zenon, <1>4, <1>8, <1>9

\* Time passes, or the sync event fires.
LEMMA TimeEffect ==
    ASSUME Ready, NEW p \in Proc, simulate(p) \/ receiveResumed(p) \/ process(p), setup' = setup
    PROVE  Step
<1>t. Types /\ Channels
  BY Zenon DEF Ready
<1>f. /\ tick \in [Proc -> Nat] /\ ev \in [Proc -> Event] /\ exiting \in [Proc -> BOOLEAN] /\ pc \in [Proc -> PC]
  BY Zenon, <1>t, FunctionTypes
<1>s. {"run", "drain"} \cap Stopped = {} /\ "panic" \in Stopped
  BY Zenon DEF Stopped
<1>1. CASE simulate(p)
  <2>1. /\ pc[p] \in {"run", "drain"} /\ (pc[p] = "run" => ~ exiting[p]) /\ (pc[p] = "drain" => p # Switch)
        /\ ~ (Sched(p) /\ When(p) = tick[p])
        /\ tick' = [tick EXCEPT ![p] = tick[p] + 1] /\ exiting' = [exiting EXCEPT ![p] = FALSE]
        /\ caller' = caller /\ ev' = ev /\ sync' = sync /\ need' = need /\ num' = num
    BY Zenon, <1>1 DEF simulate, Sched, When, syncVars
  <2>2. ~ gone(p)
    BY Zenon, <2>1, <1>s DEF gone
  <2>3. tick'[p] = tick[p] + 1 /\ ~ exiting'[p] /\ \A q \in Proc \ {p} : tick'[q] = tick[q] /\ exiting'[q] = exiting[q]
    BY Zenon, <2>1, <1>f
  <2>4. \/ in' = in /\ pc' = pc
        \/ pc' = pc /\ \E i \in Iface, m \in Message : m.kind = "dataDescriptor" /\ in' = deliver(in, {Peer(i)}, m)
        \/ stops(p, "panic")
    <3>1. CASE UNCHANGED <<in, txFree, sent, pc>>
      BY Zenon, <3>1
    <3>2. CASE \E i \in ends(p), d \in SendDelay :
                 \/ /\ in' = deliver(in, {Peer(i)},
                                     [kind |-> "dataDescriptor", sendTick |-> tick[p] + 1,
                                      sendDelay |-> d, epoch |-> wrote[p]])
                    /\ UNCHANGED pc
                 \/ sendFails(p, {Peer(i)})
      <4>1. PICK i \in ends(p), d \in SendDelay :
                 \/ /\ in' = deliver(in, {Peer(i)},
                                     [kind |-> "dataDescriptor", sendTick |-> tick[p] + 1,
                                      sendDelay |-> d, epoch |-> wrote[p]])
                    /\ UNCHANGED pc
                 \/ sendFails(p, {Peer(i)})
        BY Zenon, <3>2
      <4> DEFINE m == [kind |-> "dataDescriptor", sendTick |-> tick[p] + 1, sendDelay |-> d, epoch |-> wrote[p]]
      <4>2. m \in Message /\ m.kind = "dataDescriptor" /\ i \in Iface
        BY SMTT(30), <1>t, <1>f, TimeAssumption DEF Types, HistoryTypes, Message, ends
      <4> HIDE DEF m
      <4>3. (in' = deliver(in, {Peer(i)}, m) /\ pc' = pc) \/ sendFails(p, {Peer(i)})
        BY Zenon, <4>1 DEF m
      <4> QED BY Zenon, <4>2, <4>3 DEF sendFails
    <3> QED BY Zenon, <1>1, <3>1, <3>2 DEF simulate
  <2>5. CASE in' = in /\ pc' = pc
    <3>1. StayGone
      BY Zenon, <2>5 DEF StayGone, gone
    <3>2. KeepsMsgs /\ \A n \in Node : ChanInv(n)'
      BY Zenon, <2>5, <3>1, <1>t, InSame
    <3>3. Ticks(p) /\ Rest(p)
      BY Zenon, <2>1, <2>3, <2>5, <3>2 DEF Ticks, Rest, Keeps, KeepsNeed
    <3> QED BY Zenon, <3>1, <3>2, <3>3 DEF Step, SimStep
  <2>6. CASE pc' = pc /\ \E i \in Iface, m \in Message : m.kind = "dataDescriptor" /\ in' = deliver(in, {Peer(i)}, m)
    <3>1. StayGone
      BY Zenon, <2>6 DEF StayGone, gone
    <3>2. KeepsMsgs /\ \A n \in Node : ChanInv(n)'
      BY Zenon, <2>6, <3>1, <1>t, InData, Ends
    <3>3. Ticks(p) /\ Rest(p)
      BY Zenon, <2>1, <2>3, <2>6, <3>2 DEF Ticks, Rest, Keeps, KeepsNeed
    <3> QED BY Zenon, <3>1, <3>2, <3>3 DEF Step, SimStep
  <2>7. CASE stops(p, "panic")
    <3>1. /\ StayGone /\ KeepsMsgs /\ (\A n \in Node : ChanInv(n)')
          /\ pc'[p] = "panic" /\ \A q \in Proc \ {p} : pc'[q] = pc[q]
      BY Zenon, <2>2, <2>7, <1>t, <1>s, StopEffect
    <3>2. Halts(p) /\ Rest(p)
      BY Zenon, <2>1, <2>2, <2>3, <3>1, <1>s DEF Halts, Rest, Keeps, KeepsNeed, When
    <3> QED BY Zenon, <3>1, <3>2 DEF Step, SimStep
  <2> QED BY Zenon, <2>4, <2>5, <2>6, <2>7
<1>2. CASE receiveResumed(p)
  <2>1. /\ tick' = tick /\ pc' = pc /\ caller' = caller /\ ev' = ev /\ exiting' = exiting /\ sync' = sync
        /\ need' = need /\ num' = num /\ in' = in
    BY Zenon, <1>2 DEF receiveResumed, simVars, syncVars
  <2>2. StayGone
    BY Zenon, <2>1 DEF StayGone, gone
  <2>3. KeepsMsgs /\ \A n \in Node : ChanInv(n)'
    BY Zenon, <2>1, <2>2, <1>t, InSame
  <2> QED BY Zenon, <2>1, <2>2, <2>3 DEF Step, Still, Keeps, KeepsNeed
<1>3. CASE process(p)
  <2>1. /\ Sched(p) /\ When(p) = tick[p]
        /\ tick' = tick /\ caller' = caller /\ exiting' = exiting /\ sync' = sync /\ need' = need /\ num' = num
    BY Zenon, <1>3 DEF process, Sched, When, syncVars
  <2>2. CASE pc[p] = "run" /\ ~ exiting[p] /\ pc' = [pc EXCEPT ![p] = "event"]
             /\ ev' = [ev EXCEPT ![p].scheduled = FALSE] /\ in' = in
    <3>0. ~ gone(p)
      BY Zenon, <2>2, <1>s DEF gone
    <3>1. /\ StayGone /\ KeepsMsgs /\ (\A n \in Node : ChanInv(n)')
          /\ pc'[p] = "event" /\ \A q \in Proc \ {p} : pc'[q] = pc[q]
      BY Zenon, <2>2, <3>0, <1>t, MoveEffect
    <3>2. /\ ~ Sched(p)' /\ When(p)' = When(p) /\ ev'[p].repeat = ev[p].repeat
          /\ \A q \in Proc \ {p} : ev'[q] = ev[q]
      BY Zenon, <2>2, <1>f DEF Sched, When, Event
    <3>3. Fires(p) /\ Rest(p)
      BY Zenon, <2>1, <2>2, <3>1, <3>2 DEF Fires, Rest, Keeps, KeepsNeed
    <3> QED BY Zenon, <3>1, <3>3 DEF Step, SimStep
  <2>3. CASE pc[p] = "drain" /\ stops(p, "panic") /\ ev' = ev
    <3>0. ~ gone(p)
      BY Zenon, <2>3, <1>s DEF gone
    <3>1. /\ StayGone /\ KeepsMsgs /\ (\A n \in Node : ChanInv(n)')
          /\ pc'[p] = "panic" /\ \A q \in Proc \ {p} : pc'[q] = pc[q]
      BY Zenon, <2>3, <3>0, <1>t, <1>s, StopEffect
    <3>2. Halts(p) /\ Rest(p)
      BY Zenon, <2>1, <2>3, <3>0, <3>1, <1>s DEF Halts, Rest, Keeps, KeepsNeed, When
    <3> QED BY Zenon, <3>1, <3>2 DEF Step, SimStep
  <2> QED BY Zenon, <1>3, <2>2, <2>3 DEF process
<1> QED BY Zenon, <1>1, <1>2, <1>3

\* Back from run(): the barrier of startup(), and a periodic one.
LEMMA BackEffect ==
    ASSUME Ready, NEW p \in Proc, startDone(p) \/ processDone(p), setup' = setup
    PROVE  Step
<1>t. Types /\ Channels /\ caller[p] \in {"startup", "periodic", "ckpt"} /\ ~ Do(p, "stop")
  BY Zenon DEF Ready, LocalInv
<1>f. ev \in [Proc -> Event] /\ sync \in [Proc -> SyncType]
  BY Zenon, <1>t, FunctionTypes
<1>s. {"wait", "acked"} \cap Stopped = {} /\ "left" \in Stopped
  BY Zenon DEF Stopped
<1>0. ~ gone(p) /\ completed(p)
  BY Zenon, <1>s DEF startDone, processDone, completed, gone
<1>1. CASE startDone(p)
  <2>1. /\ caller[p] = "startup" /\ ev' = [ev EXCEPT ![p].when = sync[p].nextAt, ![p].scheduled = TRUE]
        /\ pc' = [pc EXCEPT ![p] = "run"] /\ in' = in
        /\ tick' = tick /\ caller' = caller /\ exiting' = exiting /\ sync' = sync /\ need' = need /\ num' = num
    BY Zenon, <1>1, <1>t DEF startDone, Starting
  <2>2. /\ StayGone /\ KeepsMsgs /\ (\A n \in Node : ChanInv(n)')
        /\ pc'[p] = "run" /\ \A q \in Proc \ {p} : pc'[q] = pc[q]
    BY Zenon, <2>1, <1>0, <1>t, MoveEffect
  <2>3. /\ Sched(p)' /\ When(p)' = At(p) /\ ev'[p].repeat = ev[p].repeat
        /\ \A q \in Proc \ {p} : ev'[q] = ev[q]
    BY Zenon, <2>1, <1>f DEF Sched, When, Event, At
  <2>4. Starts(p) /\ Rest(p)
    BY Zenon, <2>1, <2>2, <2>3, <1>0 DEF Starts, Rest, Keeps, KeepsNeed
  <2> QED BY Zenon, <2>2, <2>4 DEF Step, SimStep
<1>2. CASE processDone(p)
  <2>1. /\ caller[p] = "periodic" /\ tick' = tick /\ exiting' = exiting /\ num' = num /\ caller' = caller
        /\ sync' = sync /\ need' = need
        /\ \/ stops(p, "left") /\ ev' = ev
           \/ /\ ev' = [ev EXCEPT ![p] = [when |-> tick[p] + sync[p].nextRepeat,
                                          repeat |-> sync[p].nextRepeat, scheduled |-> TRUE]]
              /\ pc' = [pc EXCEPT ![p] = IF Do(p, "ckpt") THEN "drain" ELSE "run"] /\ in' = in
    <3>1. ~ sync[p].do["stop"]
      BY Zenon, <1>t DEF Do
    <3> QED BY Zenon, <1>2, <3>1 DEF processDone, Do
  <2>2. CASE stops(p, "left") /\ ev' = ev
    <3>1. /\ StayGone /\ KeepsMsgs /\ (\A n \in Node : ChanInv(n)')
          /\ pc'[p] = "left" /\ \A q \in Proc \ {p} : pc'[q] = pc[q]
      BY Zenon, <2>2, <1>0, <1>t, <1>s, StopEffect
    <3>2. Halts(p) /\ Rest(p)
      BY Zenon, <2>1, <2>2, <3>1, <1>0, <1>s DEF Halts, Rest, Keeps, KeepsNeed, When
    <3> QED BY Zenon, <3>1, <3>2 DEF Step, SimStep
  <2>3. CASE /\ ev' = [ev EXCEPT ![p] = [when |-> tick[p] + sync[p].nextRepeat,
                                         repeat |-> sync[p].nextRepeat, scheduled |-> TRUE]]
             /\ pc' = [pc EXCEPT ![p] = IF Do(p, "ckpt") THEN "drain" ELSE "run"] /\ in' = in
    <3> DEFINE to == IF Do(p, "ckpt") THEN "drain" ELSE "run"
    <3>1. pc' = [pc EXCEPT ![p] = to] /\ in' = in
      BY Zenon, <2>3
    <3> HIDE DEF to
    <3>2. /\ StayGone /\ KeepsMsgs /\ (\A n \in Node : ChanInv(n)')
          /\ pc'[p] = to /\ \A q \in Proc \ {p} : pc'[q] = pc[q]
      BY Zenon, <3>1, <1>0, <1>t, MoveEffect
    <3>3. /\ Sched(p)' /\ When(p)' = tick[p] + Rep(p) /\ ev'[p].repeat = Rep(p)
          /\ \A q \in Proc \ {p} : ev'[q] = ev[q]
      BY Zenon, <2>3, <1>f DEF Sched, When, Event, Rep
    <3>4. Passes(p) /\ Rest(p)
      BY Zenon, <2>1, <3>2, <3>3, <1>0 DEF Passes, Rest, Keeps, KeepsNeed, to
    <3> QED BY Zenon, <3>2, <3>4 DEF Step, SimStep
  <2> QED BY Zenon, <2>1, <2>2, <2>3
<1> QED BY Zenon, <1>1, <1>2

\* A checkpoint has been written; a barrier was aborted; a process leaves.
LEMMA LeaveEffect ==
    ASSUME Ready, NEW p \in Proc, ckptDone(p) \/ aborted(p) \/ leave(p) \/ kill(p), setup' = setup
    PROVE  Step
<1>t. Types /\ Channels
  BY Zenon DEF Ready
<1>f. sync \in [Proc -> SyncType]
  BY Zenon, <1>t, FunctionTypes
<1>s. {"wait", "acked", "run"} \cap Stopped = {} /\ {"left", "panic", "killed"} = Stopped
  BY Zenon DEF Stopped
<1>0. ~ gone(p)
  BY Zenon, <1>s DEF ckptDone, aborted, leave, kill, completed, gone
<1>1. /\ tick' = tick /\ caller' = caller /\ ev' = ev /\ exiting' = exiting /\ need' = need /\ num' = num
      /\ \/ sync' = sync /\ \E why \in Stopped : stops(p, why)
         \/ /\ pc' = [pc EXCEPT ![p] = "run"] /\ in' = in
            /\ sync' = sync \/ sync' = [sync EXCEPT ![p].do["ckpt"] = FALSE]
            /\ \/ completed(p) /\ caller[p] = "ckpt"
               \/ pc[p] = "wait" /\ W(p) = 0 /\ Ab(p) /\ caller[p] \in {"periodic", "ckpt"}
  <2>1. CASE ckptDone(p)
    BY Zenon, <2>1 DEF ckptDone
  <2>2. CASE aborted(p)
    BY Zenon, <2>2, <1>s DEF aborted, W, Ab
  <2>3. CASE leave(p)
    BY Zenon, <2>3, <1>s DEF leave, syncVars
  <2>4. CASE kill(p)
    BY Zenon, <2>4, <1>s DEF kill, syncVars
  <2> QED BY Zenon, <2>1, <2>2, <2>3, <2>4
<1>2. CASE sync' = sync /\ \E why \in Stopped : stops(p, why)
  <2>1. /\ StayGone /\ KeepsMsgs /\ (\A n \in Node : ChanInv(n)')
        /\ pc'[p] \in Stopped /\ \A q \in Proc \ {p} : pc'[q] = pc[q]
    BY Zenon, <1>2, <1>0, <1>t, StopEffect
  <2>2. Halts(p) /\ Rest(p)
    BY Zenon, <1>1, <1>2, <2>1, <1>0 DEF Halts, Rest, Keeps, KeepsNeed, When
  <2> QED BY Zenon, <2>1, <2>2 DEF Step, SimStep
<1>3. CASE /\ pc' = [pc EXCEPT ![p] = "run"] /\ in' = in
           /\ sync' = sync \/ sync' = [sync EXCEPT ![p].do["ckpt"] = FALSE]
           /\ \/ completed(p) /\ caller[p] = "ckpt"
              \/ pc[p] = "wait" /\ W(p) = 0 /\ Ab(p) /\ caller[p] \in {"periodic", "ckpt"}
  <2>1. /\ StayGone /\ KeepsMsgs /\ (\A n \in Node : ChanInv(n)')
        /\ pc'[p] = "run" /\ \A q \in Proc \ {p} : pc'[q] = pc[q]
    BY Zenon, <1>3, <1>0, <1>t, MoveEffect
  <2>2. /\ W(p)' = W(p) /\ At(p)' = At(p) /\ Rep(p)' = Rep(p) /\ Ab(p)' = Ab(p)
        /\ \A w \in Wish : Do(p, w)' => Do(p, w)
        /\ \A q \in Proc \ {p} : sync'[q] = sync[q]
    <3>1. CASE sync' = sync
      BY Zenon, <3>1 DEF W, At, Rep, Ab, Do
    <3>2. CASE sync' = [sync EXCEPT ![p].do["ckpt"] = FALSE]
      <4>1. sync[p] \in SyncType /\ sync[p].do \in [Wish -> BOOLEAN]
        BY Zenon, <1>f DEF SyncType, Decision
      <4>2. sync'[p] = [sync[p] EXCEPT !.do["ckpt"] = FALSE] /\ \A q \in Proc \ {p} : sync'[q] = sync[q]
        BY Zenon, <3>2, <1>f
      <4>3. /\ sync'[p].waitNum = sync[p].waitNum /\ sync'[p].nextAt = sync[p].nextAt
            /\ sync'[p].nextRepeat = sync[p].nextRepeat /\ sync'[p].isAbort = sync[p].isAbort
            /\ sync'[p].do = [sync[p].do EXCEPT !["ckpt"] = FALSE]
        BY Zenon, <4>1, <4>2 DEF SyncType
      <4>4. \A w \in Wish : sync'[p].do[w] => sync[p].do[w]
        BY Zenon, <4>1, <4>3 DEF Wish
      <4> QED BY Zenon, <4>2, <4>3, <4>4 DEF W, At, Rep, Ab, Do
    <3> QED BY Zenon, <1>3, <3>1, <3>2
  <2>3. Resumes(p) /\ Rest(p)
    BY Zenon, <1>1, <1>3, <2>1, <2>2 DEF Resumes, Rest, Keeps, KeepsNeed
  <2> QED BY Zenon, <2>1, <2>3 DEF Step, SimStep
<1> QED BY Zenon, <1>1, <1>2, <1>3

\* The receive thread of a node.
LEMMA HearEffect ==
    ASSUME Ready, NEW n \in Node, nodeProgress(n), setup' = setup
    PROVE  Step
<1> DEFINE i == <<n, "node">>
           m == Head(in[i])
           do == [w \in Wish |-> m.need[w] # "none"]
<1>t. Types /\ Channels /\ i \in Iface /\ n \in Proc /\ Owner(i) = n
  BY Zenon, Ends DEF Ready
<1>f. sync \in [Proc -> SyncType]
  BY Zenon, <1>t, FunctionTypes
<1>1. /\ in[i] # <<>> /\ m.kind = "cmdSyncAck" /\ ~ gone(n) /\ ~ Ab(n)
      /\ sync' = [sync EXCEPT ![n] = [waitNum |-> @.waitNum - 1, nextAt |-> m.sendTick,
                                      nextRepeat |-> m.syncRepeat, isAbort |-> FALSE, do |-> do]]
      /\ in' = [in EXCEPT ![i] = Tail(@)]
      /\ tick' = tick /\ pc' = pc /\ caller' = caller /\ ev' = ev /\ exiting' = exiting /\ need' = need /\ num' = num
  BY Zenon, <1>t DEF nodeProgress, receives, simVars, Ab
<1>2. m \in SyncMessage
  BY Zenon, <1>t, <1>1, TailTypes, MessageKind DEF Channels
<1>3. StayGone
  BY Zenon, <1>1 DEF StayGone, gone
<1>4. /\ \A k \in Node : ChanInv(k)'
      /\ \A k \in Node : /\ Req(k)' = Req(k)
                         /\ k # n => Ack(k)' = Ack(k)
                         /\ k = n => Ack(k) = {m} /\ Ack(k)' = {}
  <2>1. \A k \in Node : i # <<k, "switch">> /\ (k # n => i # <<k, "node">>)
    BY Zenon
  <2> HIDE DEF i
  <2> QED BY Zenon, <1>t, <1>1, <1>3, <2>1, InTail DEF i
<1> HIDE DEF m
<1>5. /\ At(n)' = m.sendTick /\ Rep(n)' = m.syncRepeat /\ W(n)' = W(n) - 1 /\ ~ Ab(n)'
      /\ \A w \in Wish : Do(n, w)' <=> m.need[w] # "none"
      /\ \A q \in Proc \ {n} : sync'[q] = sync[q]
  BY Zenon, <1>t, <1>f, <1>1 DEF At, Rep, W, Ab, Do
<1>6. Hears(n)
  BY Zenon, <1>1, <1>2, <1>4, <1>5 DEF Hears, KeepsNeed
<1>7. Rest(n)
  BY Zenon, <1>1, <1>5 DEF Rest, Keeps
<1> QED BY Zenon, <1>3, <1>4, <1>6, <1>7 DEF Step, NodeStep

\* A receive thread of the switch.
LEMMA CollectEffect ==
    ASSUME Ready, NEW n \in Node, switchProgress(n), setup' = setup
    PROVE  Step
<1> DEFINE i == <<n, "switch">>
           m == Head(in[i])
           s == sync[Switch]
           do == immediate(m)
<1>t. Types /\ Channels /\ i \in Iface /\ Switch \in Proc /\ Owner(i) = Switch
  BY Zenon, Ends DEF Ready
<1>f. sync \in [Proc -> SyncType] /\ num \in [Wish -> Nat]
  BY Zenon, <1>t, FunctionTypes
<1>1. /\ in[i] # <<>> /\ m.kind = "cmdSyncReq" /\ ~ gone(Switch)
      /\ IF s.isAbort THEN sync' = sync /\ num' = num
         ELSE /\ sync' = [sync EXCEPT ![Switch] =
                     [waitNum |-> s.waitNum - 1,
                      nextAt |-> IF m.sendTick > s.nextAt THEN m.sendTick ELSE s.nextAt,
                      nextRepeat |-> IF s.nextRepeat > m.syncRepeat THEN m.syncRepeat ELSE s.nextRepeat,
                      isAbort |-> FALSE, do |-> do]]
              /\ num' = [w \in Wish |-> IF m.need[w] = "collective" THEN num[w] + 1 ELSE num[w]]
      /\ in' = [in EXCEPT ![i] = Tail(@)]
      /\ tick' = tick /\ pc' = pc /\ caller' = caller /\ ev' = ev /\ exiting' = exiting /\ need' = need
  BY Zenon, <1>t DEF switchProgress, receives, simVars
<1>2. m \in SyncMessage
  BY Zenon, <1>t, <1>1, TailTypes, MessageKind DEF Channels
<1>3. StayGone
  BY Zenon, <1>1 DEF StayGone, gone
<1>4. /\ \A k \in Node : ChanInv(k)'
      /\ \A k \in Node : /\ Ack(k)' = Ack(k)
                         /\ k # n => Req(k)' = Req(k)
                         /\ k = n => Req(k) = {m} /\ Req(k)' = {}
  <2>1. \A k \in Node : i # <<k, "node">> /\ (k # n => i # <<k, "switch">>)
    BY Zenon
  <2> HIDE DEF i
  <2> QED BY Zenon, <1>t, <1>1, <1>3, <2>1, InTail DEF i
<1>5. Takes(n, m)
  BY Zenon, <1>1, <1>4 DEF Takes
<1>d. \A w \in Wish : do[w] <=> Do(Switch, w) \/ m.need[w] = "immediate"
  BY Zenon DEF immediate, Do
<1> HIDE DEF m, do
<1>6. CASE s.isAbort
  <2>1. (\A q \in Proc : Keeps(q)) /\ num' = num
    BY Zenon, <1>1, <1>6 DEF Keeps
  <2>2. Ignores(n) /\ Rest(Switch)
    BY Zenon, <1>2, <1>5, <1>6, <1>t, <2>1 DEF Ignores, Rest, Ab
  <2> QED BY Zenon, <1>3, <1>4, <2>2 DEF Step, NodeStep
<1>7. CASE ~ s.isAbort
  <2>1. /\ sync' = [sync EXCEPT ![Switch] =
                     [waitNum |-> s.waitNum - 1,
                      nextAt |-> IF m.sendTick > s.nextAt THEN m.sendTick ELSE s.nextAt,
                      nextRepeat |-> IF s.nextRepeat > m.syncRepeat THEN m.syncRepeat ELSE s.nextRepeat,
                      isAbort |-> FALSE, do |-> do]]
        /\ num' = [w \in Wish |-> IF m.need[w] = "collective" THEN num[w] + 1 ELSE num[w]]
    BY Zenon, <1>1, <1>7
  <2>2. /\ W(Switch)' = W(Switch) - 1 /\ ~ Ab(Switch)'
        /\ At(Switch)' = (IF m.sendTick > At(Switch) THEN m.sendTick ELSE At(Switch))
        /\ Rep(Switch)' = (IF Rep(Switch) > m.syncRepeat THEN m.syncRepeat ELSE Rep(Switch))
        /\ \A w \in Wish : Do(Switch, w)' <=> do[w]
        /\ \A q \in Proc \ {Switch} : sync'[q] = sync[q]
    BY Zenon, <2>1, <1>t, <1>f DEF W, At, Rep, Ab, Do
  <2>3. \A w \in Wish : num'[w] = (IF m.need[w] = "collective" THEN num[w] + 1 ELSE num[w])
    BY Zenon, <2>1
  <2>4. Collects(n)
    <3>1. ~ Ab(Switch) /\ \A w \in Wish : Do(Switch, w)' <=> Do(Switch, w) \/ m.need[w] = "immediate"
      BY Zenon, <1>7, <1>d, <2>2 DEF Ab
    <3> QED BY Zenon, <1>1, <1>2, <1>5, <2>2, <2>3, <3>1 DEF Collects
  <2>5. Rest(Switch)
    BY Zenon, <1>1, <2>2 DEF Rest, Keeps
  <2> QED BY Zenon, <1>3, <1>4, <2>4, <2>5 DEF Step, NodeStep
<1> QED BY Zenon, <1>6, <1>7

\* A packet arrives, or a connection is lost.
LEMMA RecvEffect ==
    ASSUME Ready, NEW i \in Iface, RecvThread(i), setup' = setup
    PROVE  Step
<1> DEFINE p == Owner(i)
<1>t. Types /\ Channels /\ p \in Proc /\ i[1] \in Node /\ i = <<i[1], i[2]>> /\ i[2] \in {"node", "switch"}
      /\ (p = Switch) = (i[2] = "switch")
  BY Zenon, Ends DEF Ready
<1>f. exiting \in [Proc -> BOOLEAN] /\ sync \in [Proc -> SyncType]
  BY Zenon, <1>t, FunctionTypes
<1>1. /\ in[i] # <<>> /\ ~ gone(p) /\ in' = [in EXCEPT ![i] = Tail(@)] /\ Head(in[i]).kind \in {"dataDescriptor", "closed"}
      /\ tick' = tick /\ pc' = pc /\ caller' = caller /\ ev' = ev /\ need' = need /\ num' = num
  BY Zenon DEF RecvThread, pushPacket, connectionLost, receives, simVars, syncVars
<1>2. StayGone
  BY Zenon, <1>1 DEF StayGone, gone
<1>3. KeepsMsgs /\ \A n \in Node : ChanInv(n)'
  BY Zenon, <1>t, <1>1, <1>2, InTail DEF KeepsMsgs
<1>4. CASE pushPacket(i)
  <2>1. exiting' = exiting /\ sync' = sync
    BY Zenon, <1>4 DEF pushPacket, simVars, syncVars
  <2> QED BY Zenon, <1>1, <1>2, <1>3, <2>1 DEF Step, Still, Keeps, KeepsNeed
<1>5. CASE connectionLost(i)
  <2>1. Head(in[i]).kind = "closed" /\ exiting' = [exiting EXCEPT ![p] = TRUE] /\ sync' = abort(p)
    BY Zenon, <1>5 DEF connectionLost, receives
  <2>2. (p # Switch => gone(Switch)) /\ (p = Switch => \E n \in Node : gone(n))
    BY Zenon, <1>t, <1>1, <1>2, <2>1, InTail
  <2> HIDE DEF p
  <2>3. exiting'[p] /\ \A q \in Proc \ {p} : exiting'[q] = exiting[q] /\ sync'[q] = sync[q]
    BY Zenon, <1>t, <1>f, <2>1, AbortEffect
  <2>4. sync'[p] = [sync[p] EXCEPT !.waitNum = 0, !.isAbort = TRUE] /\ sync[p] \in SyncType
    BY Zenon, <1>t, <1>f, <2>1, AbortEffect
  <2>5. W(p)' = 0 /\ Ab(p)' /\ At(p)' = At(p) /\ Rep(p)' = Rep(p) /\ \A w \in Wish : Do(p, w)' = Do(p, w)
    BY Zenon, <2>4 DEF W, Ab, At, Rep, Do, SyncType
  <2>6. Loses(p) /\ Rest(p)
    BY Zenon, <1>1, <1>3, <2>2, <2>3, <2>5 DEF Loses, Rest, Keeps, KeepsNeed
  <2> QED BY Zenon, <1>t, <1>2, <1>3, <2>6 DEF Step, SimStep
<1> QED BY Zenon, <1>4, <1>5 DEF RecvThread

\* A workload asks for a checkpoint or an exit.
LEMMA AskEffect ==
    ASSUME Ready, NEW n \in Node, Workload(n), setup' = setup
    PROVE  Step
<1>t. Types /\ Channels /\ Regular /\ n \in Proc
  BY Zenon, Ends DEF Ready
<1>f. need \in [Node -> [Wish -> ReqType]]
  BY Zenon, <1>t, FunctionTypes
<1>1. pc[n] = "run" /\ ~ exiting[n]
  BY Zenon DEF Workload, readyToCkpt, readyToExit, toggleSync, executing
<1>2. Sched(n)
  BY Zenon, <1>1, <1>t DEF Ready, LocalInv, gone, Stopped
<1>3. PICK w \in {"ckpt", "exit"} : request(n, w, "collective")
  <2>1. {"ckpt", "ckptNow"} \cap setup.requests \subseteq {"ckpt"} /\ {"exit", "exitNow"} \cap setup.requests \subseteq {"exit"}
        /\ "toggle" \notin setup.requests
    BY Zenon, <1>t DEF Regular
  <2>2. CASE readyToCkpt(n)
    BY Zenon, <2>1, <2>2 DEF readyToCkpt
  <2>3. CASE readyToExit(n)
    <3>1. \E who \in {"exit", "exitNow"} \cap setup.requests : request(n, "exit", exitType(who))
      BY Zenon, <2>3, <1>2 DEF readyToExit, Sched
    <3>2. exitType("exit") = "collective"
      BY Zenon DEF exitType
    <3> QED BY Zenon, <2>1, <3>1, <3>2
  <2> QED BY Zenon, <2>1, <2>2, <2>3 DEF Workload, toggleSync
<1>4. /\ tick' = tick /\ pc' = pc /\ caller' = caller /\ ev' = ev /\ exiting' = exiting /\ sync' = sync /\ num' = num
      /\ in' = in
  <2>1. CASE readyToCkpt(n)
    BY Zenon, <2>1 DEF readyToCkpt, simVars, linkVars
  <2>2. CASE readyToExit(n)
    BY Zenon, <2>2, <1>2 DEF readyToExit, Sched
  <2> QED BY Zenon, <2>1, <2>2, <1>t DEF Workload, toggleSync, Regular
<1>5. StayGone
  BY Zenon, <1>4 DEF StayGone, gone
<1>6. KeepsMsgs /\ \A k \in Node : ChanInv(k)'
  BY Zenon, <1>4, <1>5, <1>t, InSame
<1>7. need' = need \/ (need[n][w] = "none" /\ need' = [need EXCEPT ![n][w] = "collective"])
  BY Zenon, <1>3 DEF request
<1>8. /\ \A k \in Node \ {n} : need'[k] = need[k]
      /\ \A v \in Wish \ {w} : need'[n][v] = need[n][v]
      /\ need'[n][w] = need[n][w] \/ (need[n][w] = "none" /\ need'[n][w] = "collective")
  <2>1. CASE need' = need
    BY Zenon, <2>1
  <2>2. CASE need[n][w] = "none" /\ need' = [need EXCEPT ![n][w] = "collective"]
    BY Zenon, <2>2, <1>f DEF Wish
  <2> QED BY Zenon, <1>7, <2>1, <2>2
<1>9. Keeps(n) /\ Rest(n)
  BY Zenon, <1>4 DEF Keeps, Rest
<1>10. Asks(n)
  BY Zenon, <1>1, <1>4, <1>6, <1>8, <1>9 DEF Asks, Wish
<1> QED BY Zenon, <1>5, <1>6, <1>9, <1>10 DEF Step, NodeStep

\* When nobody is waited for, every node has joined the barrier.
LEMMA AllJoined ==
    ASSUME Counting, NEW C \in SUBSET Node, W(Switch) = Cardinality(Node \ C), W(Switch) = 0
    PROVE  C = Node
BY Zenon DEF Counting

LEMMA DecideEffect ==
    ASSUME Ready, acknowledge, setup' = setup
    PROVE  Step
<1> DEFINE do == [w \in Wish |-> sync[Switch].do[w] \/ num[w] = Cardinality(Node)]
           ack == [kind |-> "cmdSyncAck", sendTick |-> sync[Switch].nextAt,
                   syncRepeat |-> sync[Switch].nextRepeat,
                   need |-> [w \in Wish |-> IF do[w] THEN "immediate" ELSE "none"]]
<1>t. Counting /\ Types /\ Channels /\ Switch \in Proc
  BY Zenon, Ends DEF Ready
<1>f. sync \in [Proc -> SyncType] /\ num \in [Wish -> Nat] /\ pc \in [Proc -> PC]
  BY Zenon, <1>t, FunctionTypes
<1>1. /\ pc[Switch] = "wait" /\ W(Switch) = 0 /\ ~ Ab(Switch)
      /\ sync' = rearmed(do) /\ num' = counters(do)
      /\ \/ pc' = [pc EXCEPT ![Switch] = "acked"] /\ in' = deliver(in, peers(Switch), ack)
         \/ /\ pc' = [pc EXCEPT ![Switch] = "panic"]
            /\ \E reached \in SUBSET peers(Switch) : in' = closed(deliver(in, reached, ack), Switch)
      /\ tick' = tick /\ caller' = caller /\ ev' = ev /\ exiting' = exiting /\ need' = need
  BY Zenon DEF acknowledge, allArrived, W, Ab
<1>2. do \in Decision /\ \A w \in Wish : do[w] <=> Decided(w)
  BY Zenon DEF Decision, Decided, Do
<1>3. ack \in SyncMessage /\ ack \in Message /\ ack.kind = "cmdSyncAck" /\ ack.sendTick = At(Switch) /\ ack.syncRepeat = Rep(Switch)
  <2>1. sync[Switch].nextAt \in Nat /\ sync[Switch].nextRepeat \in Nat
    BY Zenon, <1>t, <1>f DEF SyncType
  <2>2. ack \in SyncMessage
    BY Zenon, <2>1 DEF SyncMessage, ReqType
  <2> QED BY Zenon, <2>2, MessageTypes DEF At, Rep
<1>4. \A w \in Wish : ack.need[w] = (IF Decided(w) THEN "immediate" ELSE "none")
  BY Zenon, <1>2
<1> HIDE DEF do, ack
<1>5. StayGone /\ pc'[Switch] \in {"acked", "panic"} /\ \A q \in Proc \ {Switch} : pc'[q] = pc[q]
  BY Zenon, <1>1, <1>f, <1>t DEF StayGone, gone, Stopped
<1>6. \A n \in Node : Ack(n) = {}
  <2>1. PICK C \in SUBSET Node : Collect(C)
    BY Zenon, <1>1 DEF Ready, MainInv, gone, Stopped
  <2>2. C = Node
    BY Zenon, <1>1, <1>t, <2>1, AllJoined DEF Collect, SwitchPart
  <2> QED BY Zenon, <2>1, <2>2 DEF Collect, NodePart, Joined
<1>7. /\ \A n \in Node : ChanInv(n)' /\ Req(n)' = Req(n) /\ Ack(n)' \in {{}, {ack}}
      /\ ~ gone(Switch)' => \A n \in Node : ~ gone(n) => Ack(n)' = {ack}
  <2>1. \/ in' = deliver(in, peers(Switch), ack)
        \/ gone(Switch)' /\ \E reached \in SUBSET peers(Switch) : in' = closed(deliver(in, reached, ack), Switch)
    BY Zenon, <1>1, <1>f, <1>t DEF gone, Stopped
  <2> QED BY Zenon, <1>t, <1>3, <1>5, <1>6, <2>1, InAck
<1>8. sync'[Switch] = [sync[Switch] EXCEPT !.waitNum = Cardinality(Node), !.do = do] /\ sync[Switch] \in SyncType
      /\ \A q \in Node : sync'[q] = sync[q]
  BY Zenon, <1>1, <1>2, <1>f, <1>t, RearmedEffect
<1>9. /\ W(Switch)' = Cardinality(Node) /\ At(Switch)' = At(Switch) /\ Rep(Switch)' = Rep(Switch) /\ ~ Ab(Switch)'
      /\ \A w \in Wish : Do(Switch, w)' = do[w]
  BY Zenon, <1>1, <1>8 DEF W, At, Rep, Ab, Do, SyncType
<1>10. \A w \in Wish : num'[w] = (IF Decided(w) /\ w # "exit" THEN 0 ELSE num[w])
  BY Zenon, <1>1, <1>2 DEF counters
<1>11. pc'[Switch] = "acked" => \A n \in Node : ~ gone(n) => Ack(n)' = {ack}
  BY Zenon, <1>7 DEF gone, Stopped
<1>12. Decides
  BY Zenon, <1>1, <1>2, <1>3, <1>4, <1>5, <1>7, <1>9, <1>10, <1>11 DEF Decides
<1>13. Rest(Switch)
  BY Zenon, <1>1, <1>5, <1>8 DEF Rest, Keeps, Proc
<1> QED BY Zenon, <1>5, <1>7, <1>12, <1>13 DEF Step

\* Every step of the simulation is one of these.
LEMMA Steps == Ready /\ [Next]_vars => Step
<1> SUFFICES ASSUME Ready, [Next]_vars PROVE Step
  BY Zenon
<1>1. CASE UNCHANGED vars
  <2>1. /\ tick' = tick /\ pc' = pc /\ caller' = caller /\ ev' = ev /\ exiting' = exiting /\ sync' = sync
        /\ need' = need /\ num' = num /\ in' = in /\ setup' = setup
    BY Zenon, <1>1 DEF vars, simVars, syncVars, linkVars
  <2>2. StayGone
    BY Zenon, <2>1 DEF StayGone, gone
  <2>3. KeepsMsgs /\ \A n \in Node : ChanInv(n)'
    BY Zenon, <2>1, <2>2, InSame DEF Ready
  <2> QED BY Zenon, <2>1, <2>2, <2>3 DEF Step, Still, Keeps, KeepsNeed
<1>2. CASE Next
  <2>1. setup' = setup
    BY Zenon, <1>2 DEF Next
  <2>2. ASSUME NEW p \in Proc, SimThread(p) \/ kill(p) PROVE Step
    BY Zenon, <2>1, <2>2, EnterEffect, TimeEffect, BackEffect, LeaveEffect DEF SimThread
  <2>3. ~ restore
    BY Zenon DEF Ready, Regular, restore
  <2>4. ASSUME acknowledge PROVE Step
    BY Zenon, <2>1, <2>4, DecideEffect
  <2>5. ASSUME NEW i \in Iface, RecvThread(i) PROVE Step
    BY Zenon, <2>1, <2>5, RecvEffect
  <2>6. ASSUME NEW n \in Node, nodeProgress(n) \/ switchProgress(n) \/ Workload(n) PROVE Step
    BY Zenon, <2>1, <2>6, HearEffect, CollectEffect, AskEffect
  <2> QED BY Zenon, <1>2, <2>2, <2>3, <2>4, <2>5, <2>6 DEF Next
<1> QED BY Zenon, <1>1, <1>2

LEMMA Procs == Switch \in Proc /\ Switch \notin Node /\ \A n \in Node : n \in Proc /\ n # Switch
BY Zenon, Ends

-----------------------------------------------------------------------------
(* The quantum and the ticks of the barriers                               *)

LEMMA BarrierTicks ==
    ASSUME LeastRepeat
    PROVE  /\ SyncStart \in Barrier
           /\ \A t \in Barrier : /\ t \in Nat /\ t >= SyncStart /\ t + Quantum \in Barrier
                                 /\ t < SyncStart + Quantum => t = SyncStart
<1>1. SyncStart \in Nat /\ Quantum \in Nat \ {0}
  BY Zenon, TimeAssumption DEF LeastRepeat
<1> HIDE DEF Quantum
<1>2. SyncStart \in Barrier
  BY <1>1 DEF Barrier
<1>3. ASSUME NEW t \in Barrier
      PROVE  t \in Nat /\ t >= SyncStart /\ t + Quantum \in Barrier /\ (t < SyncStart + Quantum => t = SyncStart)
  <2>1. t \in Nat /\ t >= SyncStart /\ (t - SyncStart) % Quantum = 0
    BY Zenon, <1>3 DEF Barrier
  <2> DEFINE d == t - SyncStart
  <2>2. d \in Nat /\ d % Quantum = 0
    BY <2>1, <1>1
  <2>3. (d + Quantum) % Quantum = 0 /\ (d < Quantum => d = 0)
    <3> HIDE DEF d
    <3>1. ASSUME NEW e \in Nat, NEW r \in Nat \ {0}, e % r = 0 PROVE (e + r) % r = 0 /\ (e < r => e = 0)
      BY ONLY <3>1, SMTT(60)
    <3> QED BY Zenon, <1>1, <2>2, <3>1
  <2>4. t + Quantum \in Nat /\ t + Quantum >= SyncStart /\ (t + Quantum) - SyncStart = d + Quantum
    BY <1>1, <2>1
  <2>5. t + Quantum \in Barrier
    BY Zenon, <2>3, <2>4 DEF Barrier
  <2>6. t < SyncStart + Quantum => t = SyncStart
    BY <1>1, <2>1, <2>3
  <2> QED BY Zenon, <2>1, <2>5, <2>6
<1> QED BY Zenon, <1>2, <1>3

-----------------------------------------------------------------------------
(* What a process knows by itself                                          *)

Sound == Ready /\ SwitchInv /\ StepInv /\ \A n \in Node : NeedInv(n)

\* The fields of a process.
LEMMA Fields ==
    ASSUME Types, NEW p \in Proc
    PROVE  /\ tick[p] \in Nat /\ pc[p] \in PC /\ When(p) \in Nat /\ ev[p].repeat \in Nat
           /\ W(p) \in Int /\ At(p) \in Nat /\ Rep(p) \in Nat
           /\ Sched(p) \in BOOLEAN /\ Ab(p) \in BOOLEAN /\ exiting[p] \in BOOLEAN
           /\ \A w \in Wish : Do(p, w) \in BOOLEAN
<1>1. tick[p] \in Nat /\ pc[p] \in PC /\ ev[p] \in Event /\ sync[p] \in SyncType /\ exiting[p] \in BOOLEAN
  BY Zenon, FunctionTypes
<1> QED BY Zenon, <1>1 DEF Event, SyncType, Decision, When, W, At, Rep, Sched, Ab, Do

LEMMA LocalKept ==
    ASSUME NEW p \in Proc, Keeps(p), LocalInv(p)
    PROVE  LocalInv(p)'
BY Zenon DEF Keeps, LocalInv, Fresh, InRun, gone, When, Sched, Ab, Do, Rep

\* The simulation thread of p moves.
LEMMA LocalSim ==
    ASSUME Sound, NEW p \in Proc, SimStep(p)
    PROVE  LocalInv(p)'
<1>l. LocalInv(p)
  BY Zenon DEF Sound, Ready
<1>n. p # Switch => p \in Node /\ NodeInv(p)
  BY Zenon DEF Sound, Ready, Proc
<1>f. /\ tick[p] \in Nat /\ When(p) \in Nat /\ Rep(p) \in Nat /\ At(p) \in Nat /\ ev[p].repeat \in Nat
      /\ exiting[p] \in BOOLEAN /\ SyncStart \in Nat /\ Quantum \in Nat
  BY Zenon, Fields, TimeAssumption DEF Sound, Ready, LeastRepeat
<1>w. "stop" \in Wish /\ "ckpt" \in Wish
  BY Zenon DEF Wish
<1>b. LeastRepeat
  BY Zenon DEF Sound, Ready
<1> HIDE DEF Quantum
<1> USE DEF LocalInv, Fresh, InRun, gone, Stopped
<1>1. CASE \E who \in {"startup", "periodic", "ckpt"} : Enters(p, who)
  BY SMTT(30), <1>l, <1>n, <1>f, <1>w, <1>1 DEF Enters, RunEnters, Sends, KeepsEvent, KeepsSync
<1>2. CASE Halts(p)
  BY SMTT(30), <1>l, <1>f, <1>w, <1>2 DEF Halts, Do
<1>3. CASE Ticks(p)
  BY SMTT(30), <1>l, <1>f, <1>w, <1>3 DEF Ticks, Do, Ab, Sched, When, Rep
<1>4. CASE Fires(p)
  BY Zenon, <1>l, <1>f, <1>w, <1>4 DEF Fires, Do, Ab
<1>5. CASE Starts(p)
  <2>1. At(p) = SyncStart
    BY Zenon, <1>n, <1>5 DEF Starts, completed, NodeInv, Sound, SwitchInv, W, Ab
  <2> QED BY SMTT(30), <1>l, <1>f, <1>w, <1>5, <2>1, <1>b, BarrierTicks DEF Starts, completed, Do, Ab
<1>6. CASE Passes(p)
  <2>1. Rep(p) = Quantum
    BY Zenon, <1>n, <1>6 DEF Passes, completed, NodeInv, Sound, SwitchInv, W, Ab
  <2>2. When(p) \in Barrier /\ tick[p] = When(p)
    BY Zenon, <1>l, <1>6 DEF Passes, completed
  <2> QED BY SMTT(30), <1>l, <1>f, <1>w, <1>6, <2>1, <2>2, <1>b, BarrierTicks DEF Passes, completed, Do, Ab
<1>7. CASE Resumes(p)
  BY Zenon, <1>l, <1>f, <1>w, <1>7 DEF Resumes, completed, When, Sched
<1>8. CASE Loses(p)
  BY Zenon, <1>l, <1>f, <1>w, <1>8 DEF Loses, When, Sched
<1> QED BY Zenon, <1>1, <1>2, <1>3, <1>4, <1>5, <1>6, <1>7, <1>8 DEF SimStep

-----------------------------------------------------------------------------
(* What the switch knows of the requests                                   *)

LEMMA SwitchKind ==
    ASSUME Sound, ~ gone(Switch)
    PROVE  /\ Kind(Switch) = "startup" <=> pc[Switch] = "startup" \/ (pc[Switch] = "wait" /\ caller[Switch] = "startup")
           /\ Kind(Switch) = "startup" => Fresh(Switch) /\ Meet(Switch) = 0
           /\ pc[Switch] = "wait" => Kind(Switch) = caller[Switch] /\ Meet(Switch) = When(Switch)
<1>1. LocalInv(Switch) /\ pc[Switch] \in PC
  BY Zenon, Procs, Fields DEF Sound, Ready
<1> QED BY Zenon, <1>1 DEF Kind, Meet, Answered, InRun, LocalInv, Fresh, gone, PC, Stopped

\* A request that arrives.
LEMMA TakeFacts ==
    ASSUME Sound, ~ gone(Switch), ~ Ab(Switch), NEW n \in Node, NEW m \in Req(n), NEW C \in SUBSET Node, Collect(C)
    PROVE  /\ n \notin C /\ Joined(n, Kind(Switch), Meet(Switch))
           /\ m.need["stop"] = "none" /\ \A w \in Wish : m.need[w] # "immediate"
           /\ Kind(Switch) = "startup" => m.sendTick = 0 /\ m.syncRepeat = Repeat[n] /\ \A w \in Wish : m.need[w] = "none"
           /\ Kind(Switch) # "startup" => m.syncRepeat = Quantum /\ m.sendTick <= Meet(Switch)
           /\ Kind(Switch) = "periodic" => m.sendTick = Meet(Switch)
<1> DEFINE kind == Kind(Switch)
           at == Meet(Switch)
<1>1. NodePart(n, C, kind, at) /\ LocalInv(n) /\ n \in Proc
  BY Zenon, Procs DEF Collect, Sound, Ready
<1>2. kind = "startup" => at = 0
  BY Zenon, SwitchKind
<1>3. tick[n] \in Nat /\ When(n) \in Nat
  BY Zenon, <1>1, Fields DEF Sound, Ready
<1> HIDE DEF kind, at, Quantum
<1>4. n \notin C /\ Joined(n, kind, at) /\ m.sendTick = tick[n]
  BY Zenon, <1>1 DEF NodePart
<1>5. When(n) = at /\ tick[n] <= at /\ (kind = "periodic" => tick[n] = at)
  BY SMTT(30), <1>1, <1>3, <1>4 DEF Joined, LocalInv
<1> QED BY <1>1, <1>2, <1>3, <1>4, <1>5 DEF NodePart, kind, at

\* The decision.
LEMMA DecideFacts ==
    ASSUME Sound, pc[Switch] = "wait", W(Switch) = 0, ~ Ab(Switch)
    PROVE  /\ Kind(Switch) = caller[Switch] /\ Meet(Switch) = When(Switch)
           /\ \A n \in Node : Req(n) = {} /\ Joined(n, caller[Switch], When(Switch))
           /\ Rep(Switch) = Quantum /\ ~ Decided("stop") /\ num["stop"] = 0
           /\ caller[Switch] = "startup" => At(Switch) = SyncStart /\ \A w \in Wish : ~ Decided(w)
           /\ caller[Switch] # "startup" => At(Switch) <= When(Switch)
           /\ caller[Switch] = "periodic" => At(Switch) = When(Switch) /\ tick[Switch] = When(Switch)
<1>s. ~ gone(Switch) /\ Switch \in Proc
  BY Zenon, Procs DEF gone, Stopped
<1>1. Kind(Switch) = caller[Switch] /\ Meet(Switch) = When(Switch)
  BY Zenon, <1>s, SwitchKind
<1>2. PICK C \in SUBSET Node : Collect(C)
  BY Zenon, <1>s DEF Sound, Ready, MainInv
<1>3. C = Node
  BY Zenon, <1>2, AllJoined DEF Collect, SwitchPart, Sound, Ready
<1>4. \A n \in Node : Req(n) = {} /\ Joined(n, caller[Switch], When(Switch))
  BY Zenon, <1>1, <1>2, <1>3 DEF Collect, NodePart
<1>5. SwitchPart(Node, caller[Switch], When(Switch))
  BY Zenon, <1>1, <1>2, <1>3 DEF Collect
<1>6. LocalInv(Switch) /\ SwitchInv
  BY Zenon, <1>s DEF Sound, Ready
<1>7. Rep(Switch) = Quantum
  <2>1. CASE caller[Switch] = "startup"
    <3>1. Rep(Switch) \in {Repeat[q] : q \in Proc} /\ \A q \in Proc : Rep(Switch) <= Repeat[q]
      BY Zenon, <1>5, <2>1 DEF SwitchPart, Proc
    <3>2. LeastRepeat
      BY Zenon DEF Sound, Ready
    <3> QED BY Zenon, <3>1, <3>2 DEF LeastRepeat
  <2>2. CASE caller[Switch] # "startup"
    BY Zenon, <1>6, <1>s, <2>2 DEF SwitchInv, Fresh
  <2> QED BY Zenon, <2>1, <2>2
<1>c. Cardinality(Node) \in Nat \ {0}
  BY Zenon DEF Sound, Ready, Counting
<1>8. ~ Decided("stop") /\ num["stop"] = 0
  BY Zenon, <1>5, <1>6, <1>c DEF SwitchPart, LocalInv, Decided
<1>9. caller[Switch] = "startup" => At(Switch) = SyncStart /\ \A w \in Wish : ~ Decided(w)
  <2>1. caller[Switch] = "startup" => At(Switch) = SyncStart /\ \A w \in Wish : num[w] = 0 /\ ~ Do(Switch, w)
    BY Zenon, <1>5, <1>6 DEF SwitchPart, SwitchInv, Fresh, InRun
  <2> QED BY Zenon, <2>1, <1>c DEF Decided
<1>10. caller[Switch] # "startup" => At(Switch) <= When(Switch)
  BY Zenon, <1>5 DEF SwitchPart
<1>11. caller[Switch] = "periodic" => At(Switch) = When(Switch) /\ tick[Switch] = When(Switch)
  <2>1. Node # {}
    BY Zenon, ProcAssumption
  <2> QED BY Zenon, <1>5, <1>6, <2>1 DEF SwitchPart, LocalInv, InRun
<1> QED BY Zenon, <1>1, <1>4, <1>7, <1>8, <1>9, <1>10, <1>11

-----------------------------------------------------------------------------

\* The receive threads, and the decision.
LEMMA LocalHears ==
    ASSUME Sound, NEW n \in Node, Hears(n)
    PROVE  LocalInv(n)'
<1>p. n \in Proc /\ LocalInv(n) /\ NodeInv(n)
  BY Zenon, Procs DEF Sound, Ready
<1>f. /\ Rep(n) \in Nat /\ ev[n].repeat \in Nat /\ Quantum \in Nat /\ Quantum <= Repeat[n] /\ Repeat[n] \in Nat
  BY Zenon, <1>p, Fields, TimeAssumption DEF Sound, Ready, LeastRepeat
<1> HIDE DEF Quantum
<1>1. PICK m \in SyncMessage :
      /\ ~ gone(n) /\ ~ Ab(n) /\ Ack(n) = {m}
      /\ Rep(n)' = m.syncRepeat /\ W(n)' = W(n) - 1 /\ ~ Ab(n)'
      /\ \A w \in Wish : Do(n, w)' <=> m.need[w] # "none"
      /\ tick'[n] = tick[n] /\ pc'[n] = pc[n] /\ caller'[n] = caller[n] /\ ev'[n] = ev[n] /\ exiting'[n] = exiting[n]
  BY Zenon DEF Hears
<1>2. pc[n] = "wait" /\ W(n) = 1 /\ m.syncRepeat = Quantum /\ m.need["stop"] = "none"
  BY Zenon, <1>p, <1>1 DEF NodeInv
<1>3. ~ Do(n, "stop")'
  BY Zenon, <1>1, <1>2 DEF Wish
<1>4. caller[n] = "startup" => Rep(n) = Repeat[n] /\ Rep(n) <= ev[n].repeat
  BY SMTT(30), <1>p, <1>2 DEF NodeInv, LocalInv, Fresh, InRun
<1> QED BY SMTT(30), <1>p, <1>f, <1>1, <1>2, <1>3, <1>4 DEF LocalInv, Fresh, InRun, gone, When, Sched

LEMMA LocalCollects ==
    ASSUME Sound, NEW n \in Node, Collects(n)
    PROVE  LocalInv(Switch)'
<1>p. Switch \in Proc /\ LocalInv(Switch)
  BY Zenon, Procs DEF Sound, Ready
<1>1. PICK m \in SyncMessage :
      /\ ~ gone(Switch) /\ ~ Ab(Switch) /\ Takes(n, m)
      /\ ~ Ab(Switch)' /\ Rep(Switch)' = (IF Rep(Switch) > m.syncRepeat THEN m.syncRepeat ELSE Rep(Switch))
      /\ \A w \in Wish : Do(Switch, w)' <=> Do(Switch, w) \/ m.need[w] = "immediate"
      /\ tick'[Switch] = tick[Switch] /\ pc'[Switch] = pc[Switch] /\ caller'[Switch] = caller[Switch]
      /\ ev'[Switch] = ev[Switch] /\ exiting'[Switch] = exiting[Switch]
  BY Zenon DEF Collects
<1>2. PICK C \in SUBSET Node : Collect(C)
  BY Zenon, <1>1 DEF Sound, Ready, MainInv
<1>3. m \in Req(n)
  BY Zenon, <1>1 DEF Takes
<1>4. m.need["stop"] # "immediate"
  BY Zenon, <1>1, <1>2, <1>3, TakeFacts DEF Wish
<1>5. ~ Do(Switch, "stop")'
  BY Zenon, <1>p, <1>1, <1>4 DEF Wish, LocalInv
<1>6. Rep(Switch)' <= Rep(Switch) /\ Rep(Switch)' \in Nat /\ Rep(Switch) \in Nat /\ ev[Switch].repeat \in Nat
  BY SMTT(30), <1>p, <1>1, Fields DEF SyncMessage, Sound, Ready
<1> QED BY SMTT(30), <1>p, <1>1, <1>5, <1>6 DEF LocalInv, Fresh, InRun, gone, When, Sched

LEMMA LocalDecides ==
    ASSUME Sound, Decides
    PROVE  LocalInv(Switch)'
<1>p. Switch \in Proc /\ LocalInv(Switch)
  BY Zenon, Procs DEF Sound, Ready
<1>1. /\ pc[Switch] = "wait" /\ W(Switch) = 0 /\ ~ Ab(Switch) /\ pc'[Switch] \in {"acked", "panic"}
      /\ Rep(Switch)' = Rep(Switch) /\ ~ Ab(Switch)'
      /\ \A w \in Wish : Do(Switch, w)' <=> Decided(w)
      /\ tick'[Switch] = tick[Switch] /\ caller'[Switch] = caller[Switch]
      /\ ev'[Switch] = ev[Switch] /\ exiting'[Switch] = exiting[Switch]
  BY Zenon DEF Decides
<1>2. ~ Do(Switch, "stop")'
  BY Zenon, <1>1, DecideFacts DEF Wish
<1> QED BY Zenon, <1>p, <1>1, <1>2 DEF LocalInv, Fresh, InRun, gone, Stopped, When, Sched

LEMMA LocalStep ==
    ASSUME Sound, Step, NEW p \in Proc
    PROVE  LocalInv(p)'
<1>0. LocalInv(p)
  BY Zenon DEF Sound, Ready
<1>1. CASE Keeps(p)
  BY Zenon, <1>0, <1>1, LocalKept
<1>2. CASE SimStep(p)
  BY Zenon, <1>2, LocalSim
<1>3. CASE p \in Node /\ (Asks(p) \/ Hears(p))
  BY Zenon, <1>1, <1>3, LocalHears DEF Asks
<1>4. CASE p = Switch /\ \E n \in Node : Ignores(n) \/ Collects(n)
  BY Zenon, <1>1, <1>4, LocalCollects DEF Ignores
<1>5. CASE p = Switch /\ Decides
  BY Zenon, <1>5, LocalDecides
<1> QED BY Zenon, <1>1, <1>2, <1>3, <1>4, <1>5 DEF Step, SimStep, NodeStep, Rest, Still

-----------------------------------------------------------------------------
(* What a node waits for                                                   *)

LEMMA NodeKept ==
    ASSUME NEW n \in Node, NodeInv(n), StayGone, Keeps(n), Ack(n)' = Ack(n), Req(n)' \in {{}, Req(n)}
    PROVE  NodeInv(n)'
<1>1. gone(Switch) => gone(Switch)'
  BY Zenon, Procs DEF StayGone
<1> QED BY Zenon, <1>1 DEF Keeps, NodeInv, Fresh, InRun, gone, W, Rep, Ab, At, Do

\* The simulation thread of a node moves.
LEMMA NodeSim ==
    ASSUME Sound, NEW n \in Node, SimStep(n), StayGone
    PROVE  NodeInv(n)'
<1>l. LocalInv(n) /\ NodeInv(n) /\ n # Switch /\ n \in Proc /\ (gone(Switch) => gone(Switch)')
  BY Zenon, Procs DEF Sound, Ready, StayGone
<1>f. W(n) \in Int /\ pc[n] \in PC
  BY Zenon, <1>l, Fields DEF Sound, Ready
<1> HIDE DEF Quantum
<1>1. CASE \E who \in {"startup", "periodic", "ckpt"} : Enters(n, who)
  <2>1. PICK who \in {"startup", "periodic", "ckpt"} : Enters(n, who)
    BY Zenon, <1>1
  <2>2. pc[n] \in {"startup", "event", "drain"} /\ ~ gone(n) /\ ~ Ab(n)
    BY Zenon, <1>l, <2>1 DEF Enters, RunEnters, Sends, gone, Stopped
  <2>3. Ack(n)' = {} /\ W(n)' = 1 /\ pc'[n] = "wait" /\ Rep(n)' = Rep(n) /\ ~ Ab(n)' /\ caller'[n] = who
    BY Zenon, <1>l, <2>1, <2>2 DEF Enters, RunEnters, Sends, KeepsSync, NodeInv
  <2>4. Fresh(n)' => Fresh(n)
    BY Zenon, <2>1, <2>3 DEF Enters, Fresh, InRun
  <2>5. Fresh(n) => Fresh(n)'
    BY Zenon, <2>1, <2>2, <2>3 DEF Enters, Fresh, InRun
  <2> QED BY SMTT(30), <1>l, <2>2, <2>3, <2>4, <2>5 DEF NodeInv
<1>2. CASE Halts(n)
  <2>1. /\ gone(n)' /\ ~ gone(n) /\ Ack(n)' = Ack(n) /\ Req(n)' = Req(n) /\ pc'[n] \in Stopped
        /\ W(n)' = W(n) /\ Ab(n)' = Ab(n) /\ Rep(n)' = Rep(n)
    BY Zenon, <1>2 DEF Halts, KeepsMsgs, gone, W, Ab, Rep
  <2>2. ~ Fresh(n)' /\ pc'[n] \notin {"acked", "startup", "run", "event", "drain", "wait"}
    BY Zenon, <2>1 DEF Fresh, InRun, Stopped
  <2> QED BY Zenon, <1>l, <2>1, <2>2 DEF NodeInv
<1>3. CASE Ticks(n) \/ Fires(n)
  <2>1. /\ pc[n] \in {"run", "drain"} /\ pc'[n] \in {"run", "event", "drain"} /\ ~ gone(n) /\ ~ gone(n)'
        /\ Ack(n)' = Ack(n) /\ Req(n)' = Req(n) /\ W(n)' = W(n) /\ Ab(n)' = Ab(n) /\ Rep(n)' = Rep(n)
    BY Zenon, <1>3 DEF Ticks, Fires, KeepsMsgs, gone, Stopped, W, Ab, Rep
  <2>2. ~ Fresh(n)' /\ ~ Fresh(n)
    BY Zenon, <2>1 DEF Fresh, InRun
  <2> QED BY Zenon, <1>l, <2>1, <2>2 DEF NodeInv, Stopped
<1>4. CASE Starts(n) \/ Passes(n) \/ Resumes(n)
  <2>1. /\ pc[n] = "wait" /\ W(n) = 0 /\ pc'[n] \in {"run", "drain"} /\ ~ gone(n)
        /\ Ack(n)' = Ack(n) /\ Req(n)' = Req(n) /\ W(n)' = W(n) /\ Ab(n)' = Ab(n) /\ Rep(n)' = Rep(n)
    BY Zenon, <1>l, <1>4 DEF Starts, Passes, Resumes, completed, KeepsMsgs, gone, Stopped, W, Ab, Rep
  <2>2. ~ Fresh(n)'
    BY Zenon, <2>1 DEF Fresh, InRun
  <2> QED BY SMTT(30), <1>l, <2>1, <2>2 DEF NodeInv, Stopped
<1>5. CASE Loses(n)
  <2>1. /\ gone(Switch) /\ W(n)' = 0 /\ Ab(n)' /\ Rep(n)' = Rep(n) /\ pc'[n] = pc[n] /\ caller'[n] = caller[n] /\ ~ gone(n)
    BY Zenon, <1>l, <1>5 DEF Loses
  <2>2. Fresh(n)' = Fresh(n)
    BY Zenon, <2>1 DEF Fresh, InRun
  <2> QED BY Zenon, <1>l, <1>f, <2>1, <2>2 DEF NodeInv
<1> QED BY Zenon, <1>1, <1>2, <1>3, <1>4, <1>5 DEF SimStep

LEMMA NodeHears ==
    ASSUME Sound, NEW n \in Node, Hears(n), StayGone
    PROVE  NodeInv(n)'
<1>l. LocalInv(n) /\ NodeInv(n) /\ n \in Proc /\ (gone(Switch) => gone(Switch)')
  BY Zenon, Procs DEF Sound, Ready, StayGone
<1> HIDE DEF Quantum
<1>1. PICK m \in SyncMessage :
      /\ ~ gone(n) /\ ~ Ab(n) /\ Ack(n) = {m} /\ Ack(n)' = {} /\ Req(n)' = Req(n)
      /\ At(n)' = m.sendTick /\ Rep(n)' = m.syncRepeat /\ W(n)' = W(n) - 1 /\ ~ Ab(n)'
      /\ \A w \in Wish : Do(n, w)' <=> m.need[w] # "none"
      /\ tick'[n] = tick[n] /\ pc'[n] = pc[n] /\ caller'[n] = caller[n]
  BY Zenon DEF Hears
<1>2. /\ pc[n] = "wait" /\ W(n) = 1 /\ m.syncRepeat = Quantum
      /\ caller[n] = "startup" => m.sendTick = SyncStart /\ \A w \in Wish : m.need[w] = "none"
      /\ caller[n] = "periodic" => m.sendTick = tick[n]
      /\ ~ gone(Switch) => Req(n) = {}
  BY Zenon, <1>l, <1>1 DEF NodeInv
<1> QED BY SMTT(30), <1>l, <1>1, <1>2 DEF NodeInv

LEMMA NodeDecides ==
    ASSUME Sound, NEW n \in Node, Decides, Rest(Switch), StayGone
    PROVE  NodeInv(n)'
<1>l. NodeInv(n) /\ n \in Proc /\ Keeps(n) /\ (gone(Switch) => gone(Switch)')
  BY Zenon, Procs DEF Sound, Ready, StayGone, Rest
<1> HIDE DEF Quantum
<1>1. PICK m \in SyncMessage :
      /\ pc[Switch] = "wait" /\ W(Switch) = 0 /\ ~ Ab(Switch)
      /\ m.sendTick = At(Switch) /\ m.syncRepeat = Rep(Switch)
      /\ \A w \in Wish : m.need[w] = (IF Decided(w) THEN "immediate" ELSE "none")
      /\ Req(n)' = Req(n) /\ Ack(n)' \in {{}, {m}}
  BY Zenon DEF Decides
<1>2. /\ Req(n) = {} /\ Joined(n, caller[Switch], When(Switch)) /\ Rep(Switch) = Quantum /\ ~ Decided("stop")
      /\ caller[Switch] = "startup" => At(Switch) = SyncStart /\ \A w \in Wish : ~ Decided(w)
      /\ caller[Switch] = "periodic" => At(Switch) = When(Switch)
  BY Zenon, <1>1, DecideFacts
<1>3. /\ pc[n] \in {"wait"} \cup Stopped /\ W(n) = 1 /\ caller[n] = caller[Switch]
      /\ caller[n] = "periodic" => tick[n] = When(Switch)
  BY Zenon, <1>2 DEF Joined
<1>4. /\ m.syncRepeat = Quantum /\ m.need["stop"] = "none"
      /\ caller[n] = "startup" => m.sendTick = SyncStart /\ \A w \in Wish : m.need[w] = "none"
      /\ caller[n] = "periodic" => m.sendTick = tick[n]
  BY Zenon, <1>1, <1>2, <1>3 DEF Wish
<1> QED BY Zenon, <1>l, <1>1, <1>2, <1>3, <1>4 DEF NodeInv, Keeps, Fresh, InRun, gone, W, Rep, Ab, At, Do

LEMMA NodeInvStep ==
    ASSUME Sound, Step, NEW n \in Node
    PROVE  NodeInv(n)'
<1>0. NodeInv(n) /\ StayGone /\ n \in Proc /\ n # Switch
  BY Zenon, Procs DEF Sound, Ready, Step
<1>1. CASE Keeps(n) /\ Ack(n)' = Ack(n) /\ Req(n)' \in {{}, Req(n)}
  BY Zenon, <1>0, <1>1, NodeKept
<1>2. CASE SimStep(n)
  BY Zenon, <1>0, <1>2, NodeSim
<1>3. CASE Asks(n) \/ Hears(n)
  <2>1. CASE Asks(n)
    BY Zenon, <1>1, <2>1 DEF Asks, KeepsMsgs
  <2>2. CASE Hears(n)
    BY Zenon, <1>0, <2>2, NodeHears
  <2> QED BY Zenon, <1>3, <2>1, <2>2
<1>4. CASE Decides /\ Rest(Switch)
  BY Zenon, <1>0, <1>4, NodeDecides
<1>5. ASSUME NEW p \in Proc, p # n, SimStep(p) PROVE NodeInv(n)'
  <2>1. Keeps(n)
    BY Zenon, <1>0, <1>5 DEF SimStep, Rest
  <2>2. Ack(n)' = Ack(n) /\ Req(n)' = Req(n)
    <3>1. CASE \E who \in {"startup", "periodic", "ckpt"} : Enters(p, who)
      BY Zenon, <1>0, <1>5, <3>1 DEF Enters, RunEnters, Sends, KeepsMsgs, Proc
    <3> QED BY Zenon, <1>5, <3>1 DEF SimStep, Halts, Ticks, Fires, Starts, Passes, Resumes, Loses, KeepsMsgs
  <2> QED BY Zenon, <1>1, <2>1, <2>2
<1>6. ASSUME NEW k \in Node, NodeStep(k), ~ (k = n /\ (Asks(n) \/ Hears(n))) PROVE NodeInv(n)'
  <2>1. Keeps(n)
    BY Zenon, <1>0, <1>6 DEF NodeStep, Rest
  <2>2. Ack(n)' = Ack(n) /\ Req(n)' \in {{}, Req(n)}
    BY Zenon, <1>6 DEF NodeStep, Asks, Hears, Ignores, Collects, Takes, KeepsMsgs
  <2> QED BY Zenon, <1>1, <2>1, <2>2
<1>7. CASE Still
  BY Zenon, <1>0, <1>1, <1>7 DEF Still, KeepsMsgs
<1> QED BY Zenon, <1>2, <1>3, <1>4, <1>5, <1>6, <1>7 DEF Step

-----------------------------------------------------------------------------
(* What a node asks for, the decisions of the switch, and the clocks       *)

\* Only the first barrier is before a process has started.
LEMMA FreshStep ==
    ASSUME Sound, Step, NEW p \in Proc
    PROVE  Fresh(p)' => Fresh(p) /\ (p = Switch => At(p)' = At(p) \/ \E n \in Node : Collects(n))
<1>1. CASE Keeps(p)
  BY Zenon, <1>1 DEF Keeps, Fresh, InRun, At
<1>2. CASE SimStep(p)
  BY Zenon, <1>2 DEF SimStep, Enters, RunEnters, KeepsSync, Halts, Ticks, Fires, Starts, Passes, Resumes, Loses, Fresh, InRun, Stopped
<1>3. CASE p \in Node /\ (Asks(p) \/ Hears(p))
  BY Zenon, <1>1, <1>3, Procs DEF Asks, Hears, Fresh, InRun
<1>4. CASE p = Switch /\ \E n \in Node : Ignores(n) \/ Collects(n)
  BY Zenon, <1>1, <1>4 DEF Ignores, Collects, Fresh, InRun
<1>5. CASE p = Switch /\ Decides
  BY Zenon, <1>5 DEF Decides, Fresh, InRun
<1> QED BY Zenon, <1>1, <1>2, <1>3, <1>4, <1>5 DEF Step, SimStep, NodeStep, Rest, Still

LEMMA NeedStep ==
    ASSUME Sound, Step, NEW n \in Node
    PROVE  NeedInv(n)'
<1>0. NeedInv(n) /\ n \in Proc /\ n # Switch /\ "stop" \in Wish
  BY Zenon, Procs DEF Sound, Wish
<1>1. Fresh(n)' => Fresh(n)
  BY Zenon, <1>0, FreshStep
<1>2. CASE need'[n] = need[n]
  BY Zenon, <1>0, <1>1, <1>2 DEF NeedInv
<1>3. CASE Sends(n)
  BY Zenon, <1>0, <1>1, <1>3 DEF NeedInv, Sends
<1>4. CASE Asks(n)
  <2>1. ~ Fresh(n)
    BY Zenon, <1>4 DEF Asks, Fresh, InRun
  <2> QED BY Zenon, <1>0, <1>1, <1>4, <2>1 DEF NeedInv, Asks
<1>5. need'[n] = need[n] \/ Sends(n) \/ Asks(n)
  <2>1. ASSUME NEW p \in Proc, SimStep(p) PROVE need'[n] = need[n] \/ Sends(n)
    <3>1. CASE \E who \in {"startup", "periodic", "ckpt"} : Enters(p, who)
      BY Zenon, <1>0, <3>1 DEF Enters, RunEnters, Sends, Proc
    <3> QED BY Zenon, <2>1, <3>1 DEF SimStep, Halts, Ticks, Fires, Starts, Passes, Resumes, Loses, KeepsNeed
  <2>2. ASSUME NEW k \in Node, NodeStep(k) PROVE need'[n] = need[n] \/ Asks(n)
    BY Zenon, <2>2 DEF NodeStep, Asks, Hears, Ignores, Collects, Takes, KeepsNeed
  <2>3. CASE Decides \/ Still
    BY Zenon, <2>3 DEF Decides, Still, KeepsNeed
  <2> QED BY Zenon, <2>1, <2>2, <2>3 DEF Step
<1> QED BY Zenon, <1>2, <1>3, <1>4, <1>5

LEMMA SwitchStep ==
    ASSUME Sound, Step
    PROVE  SwitchInv'
<1>0. SwitchInv /\ StayGone /\ Switch \in Proc /\ LocalInv(Switch) /\ (gone(Switch) => gone(Switch)')
  BY Zenon, Procs DEF Sound, Ready, Step, StayGone
<1>g. (\E n \in Node : gone(n)) => \E n \in Node : gone(n)'
  BY Zenon, <1>0, Procs DEF StayGone
<1> HIDE DEF Quantum
<1>1. CASE Keeps(Switch)
  BY Zenon, <1>0, <1>1, <1>g DEF SwitchInv, Keeps, Fresh, InRun, At, Rep, Ab, Do, gone
<1>2. CASE SimStep(Switch)
  <2>1. Fresh(Switch)' => Fresh(Switch) /\ \A w \in Wish : Do(Switch, w)' => Do(Switch, w)
    BY Zenon, <1>2 DEF SimStep, Enters, RunEnters, KeepsSync, Halts, Ticks, Fires, Starts, Passes, Resumes, Loses, Fresh, InRun, Stopped
  <2>2. At(Switch)' = At(Switch) /\ Rep(Switch)' = Rep(Switch)
    BY Zenon, <1>2 DEF SimStep, Enters, RunEnters, KeepsSync, Halts, Ticks, Fires, Starts, Passes, Resumes, Loses, At, Rep
  <2>3. pc'[Switch] = "acked" \/ ~ Fresh(Switch)' => gone(Switch)' \/ pc[Switch] = "acked" \/ ~ Fresh(Switch)
    BY Zenon, <1>2 DEF SimStep, Enters, RunEnters, Halts, Ticks, Fires, Starts, Passes, Resumes, Loses, Fresh, InRun, Stopped, completed, gone
  <2>4. Ab(Switch)' => \E n \in Node : gone(n)'
    <3>1. CASE Loses(Switch)
      BY Zenon, <1>g, <3>1 DEF Loses
    <3>2. CASE ~ Loses(Switch)
      <4>1. Ab(Switch)' = Ab(Switch)
        BY Zenon, <1>2, <3>2 DEF SimStep, Enters, RunEnters, KeepsSync, Halts, Ticks, Fires, Starts, Passes, Resumes, Ab
      <4> QED BY Zenon, <4>1, <1>0, <1>g DEF SwitchInv
    <3> QED BY Zenon, <3>1, <3>2
  <2> QED BY Zenon, <1>0, <2>1, <2>2, <2>3, <2>4 DEF SwitchInv
<1>3. ASSUME NEW n \in Node, Collects(n) PROVE SwitchInv'
  <2>1. PICK m \in SyncMessage :
      /\ ~ gone(Switch) /\ ~ Ab(Switch) /\ Takes(n, m) /\ ~ Ab(Switch)'
      /\ At(Switch)' = (IF m.sendTick > At(Switch) THEN m.sendTick ELSE At(Switch))
      /\ Rep(Switch)' = (IF Rep(Switch) > m.syncRepeat THEN m.syncRepeat ELSE Rep(Switch))
      /\ \A w \in Wish : Do(Switch, w)' <=> Do(Switch, w) \/ m.need[w] = "immediate"
      /\ pc'[Switch] = pc[Switch] /\ caller'[Switch] = caller[Switch]
    BY Zenon, <1>3 DEF Collects
  <2>2. PICK C \in SUBSET Node : Collect(C)
    BY Zenon, <2>1 DEF Sound, Ready, MainInv
  <2>3. /\ \A w \in Wish : m.need[w] # "immediate"
        /\ Kind(Switch) = "startup" => m.sendTick = 0
        /\ Kind(Switch) # "startup" => m.syncRepeat = Quantum
    BY Zenon, <2>1, <2>2, TakeFacts DEF Takes
  <2>4. At(Switch) \in Nat /\ Rep(Switch) \in Nat /\ Quantum \in Nat /\ SyncStart \in Nat /\ pc[Switch] \in PC
    BY Zenon, <1>0, Fields, TimeAssumption DEF Sound, Ready, LeastRepeat
  <2>5. Fresh(Switch)' = Fresh(Switch) /\ gone(Switch)' = gone(Switch)
    BY Zenon, <2>1 DEF Fresh, InRun, gone
  <2>6. Kind(Switch) = "startup" <=> pc[Switch] = "startup" \/ (pc[Switch] = "wait" /\ caller[Switch] = "startup")
    BY Zenon, <2>1, SwitchKind
  <2>7. Fresh(Switch) => At(Switch)' = SyncStart
    <3>1. CASE Kind(Switch) = "startup"
      BY SMTT(30), <1>0, <2>1, <2>3, <2>4, <3>1 DEF SwitchInv
    <3>2. CASE Fresh(Switch) /\ Kind(Switch) # "startup"
      <4>1. pc[Switch] = "acked" /\ caller[Switch] = "startup"
        BY Zenon, <2>6, <3>2 DEF Fresh, InRun
      <4>2. Meet(Switch) = SyncStart /\ m.sendTick <= Meet(Switch)
        BY Zenon, <2>1, <2>2, <3>2, <4>1, TakeFacts DEF Takes, Meet, Answered
      <4>3. m.sendTick \in Nat
        BY Zenon DEF SyncMessage
      <4> QED BY SMTT(30), <1>0, <2>1, <2>4, <3>2, <4>2, <4>3 DEF SwitchInv
    <3> QED BY Zenon, <3>1, <3>2
  <2>8. pc[Switch] = "acked" \/ ~ Fresh(Switch) => Rep(Switch)' = Quantum
    <3>1. pc[Switch] = "acked" \/ ~ Fresh(Switch) => Kind(Switch) # "startup" /\ Rep(Switch) = Quantum
      BY Zenon, <1>0, <2>1, <2>6 DEF SwitchInv, Fresh, InRun
    <3> QED BY Zenon, <2>1, <2>3, <2>4, <3>1
  <2> QED BY Zenon, <1>0, <2>1, <2>3, <2>5, <2>7, <2>8 DEF SwitchInv
<1>4. CASE Decides
  <2>1. /\ pc[Switch] = "wait" /\ W(Switch) = 0 /\ ~ Ab(Switch) /\ pc'[Switch] \in {"acked", "panic"}
        /\ At(Switch)' = At(Switch) /\ Rep(Switch)' = Rep(Switch) /\ ~ Ab(Switch)'
        /\ \A w \in Wish : Do(Switch, w)' <=> Decided(w)
        /\ caller'[Switch] = caller[Switch]
    BY Zenon, <1>4 DEF Decides
  <2>2. Rep(Switch) = Quantum /\ (caller[Switch] = "startup" => At(Switch) = SyncStart /\ \A w \in Wish : ~ Decided(w))
    BY Zenon, <2>1, DecideFacts
  <2> QED BY Zenon, <2>1, <2>2 DEF SwitchInv, Fresh, InRun
<1> QED BY Zenon, <1>1, <1>2, <1>3, <1>4, Procs DEF Step, SimStep, NodeStep, Rest, Still, Ignores

\* The clock and the next barrier of a process move forward, and a barrier is
\* behind it only once it has been answered.
LEMMA ClockStep ==
    ASSUME Sound, Step, NEW p \in Proc
    PROVE  /\ tick'[p] \in Nat /\ tick'[p] >= tick[p]
           /\ tick'[p] # tick[p] => tick'[p] = tick[p] + 1 /\ ~ Answered(p) /\ When(p)' = When(p)
           /\ \/ When(p)' = When(p)
              \/ When(p)' = SyncStart /\ When(p) = 0 /\ tick[p] = 0
              \/ When(p)' = tick[p] + Quantum /\ tick[p] = When(p) /\ Answered(p) /\ caller[p] = "periodic"
<1>f. tick[p] \in Nat /\ LocalInv(p) /\ Quantum \in Nat /\ (p # Switch => p \in Node /\ NodeInv(p)) /\ SwitchInv
  BY Zenon, Fields DEF Sound, Ready, LeastRepeat, Proc
<1> HIDE DEF Quantum
<1>1. CASE tick'[p] = tick[p] /\ When(p)' = When(p)
  BY SMTT(30), <1>f, <1>1
<1>2. CASE SimStep(p)
  <2>1. CASE Starts(p)
    <3>1. tick'[p] = tick[p] /\ When(p)' = At(p) /\ Fresh(p) /\ completed(p) /\ caller[p] = "startup"
      BY Zenon, <2>1 DEF Starts, completed, Fresh, InRun
    <3>2. At(p) = SyncStart /\ When(p) = 0 /\ tick[p] = 0
      BY Zenon, <1>f, <3>1 DEF LocalInv, NodeInv, SwitchInv, completed, W, Ab
    <3> QED BY SMTT(30), <1>f, <3>1, <3>2
  <2>2. CASE Passes(p)
    <3>1. tick'[p] = tick[p] /\ When(p)' = tick[p] + Rep(p) /\ completed(p) /\ caller[p] = "periodic"
      BY Zenon, <2>2 DEF Passes
    <3>2. Rep(p) = Quantum /\ tick[p] = When(p) /\ Answered(p)
      BY Zenon, <1>f, <3>1 DEF LocalInv, NodeInv, SwitchInv, completed, Fresh, InRun, W, Ab, Answered, gone, Stopped
    <3> QED BY SMTT(30), <1>f, <3>1, <3>2
  <2>3. CASE Halts(p) \/ Ticks(p)
    BY SMTT(30), <1>f, <2>3 DEF Halts, Ticks, When, Answered
  <2>4. CASE ~ (Halts(p) \/ Ticks(p) \/ Starts(p) \/ Passes(p))
    <3>1. tick'[p] = tick[p] /\ When(p)' = When(p)
      BY Zenon, <1>2, <2>4 DEF SimStep, Enters, KeepsEvent, Fires, Resumes, Loses, When
    <3> QED BY Zenon, <1>1, <3>1
  <2> QED BY Zenon, <2>1, <2>2, <2>3, <2>4
<1>3. ~ SimStep(p) => tick'[p] = tick[p] /\ When(p)' = When(p)
  <2>1. CASE Keeps(p)
    BY Zenon, <2>1 DEF Keeps, When
  <2>2. CASE p \in Node /\ (Asks(p) \/ Hears(p))
    BY Zenon, <2>1, <2>2 DEF Asks, Hears, When
  <2>3. CASE p = Switch /\ \E n \in Node : Ignores(n) \/ Collects(n)
    BY Zenon, <2>1, <2>3 DEF Ignores, Collects, When
  <2>4. CASE p = Switch /\ Decides
    BY Zenon, <2>4 DEF Decides, When
  <2> QED BY Zenon, <2>1, <2>2, <2>3, <2>4 DEF Step, SimStep, NodeStep, Rest, Still
<1> QED BY Zenon, <1>1, <1>2, <1>3

\* A process is answered only by the decision of the switch.
LEMMA AnsweredStep ==
    ASSUME Sound, Step, NEW p \in Proc, Answered(p)', ~ (Rest(Switch) /\ Decides)
    PROVE  Answered(p) /\ caller'[p] = caller[p]
<1>f. p # Switch => p \in Node /\ NodeInv(p)
  BY Zenon DEF Sound, Ready, Proc
<1>0. StayGone
  BY Zenon DEF Step
<1>1. CASE p = Switch
  <2>1. CASE Keeps(p)
    BY Zenon, <1>1, <2>1 DEF Keeps, Answered
  <2>2. CASE SimStep(p)
    BY Zenon, <1>1, <2>2 DEF SimStep, Enters, RunEnters, Halts, Ticks, Fires, Starts, Passes, Resumes, Loses, Answered, Stopped
  <2>3. CASE \E n \in Node : Ignores(n) \/ Collects(n)
    BY Zenon, <1>1, <2>1, <2>3 DEF Ignores, Collects, Answered
  <2> QED BY Zenon, <1>1, <2>1, <2>2, <2>3, Procs DEF Step, SimStep, NodeStep, Rest, Still
<1>2. CASE p # Switch
  <2>0. pc'[p] = "wait" /\ (Ack(p)' # {} \/ (W(p)' = 0 /\ ~ Ab(p)'))
    BY Zenon, <1>2 DEF Answered
  <2>1. CASE Keeps(p) /\ Ack(p)' = Ack(p)
    BY Zenon, <1>2, <2>1 DEF Keeps, Answered, W, Ab
  <2>2. CASE SimStep(p)
    <3>1. CASE \E who \in {"startup", "periodic", "ckpt"} : Enters(p, who)
      <4>1. /\ pc[p] \in {"startup", "event", "drain"} /\ ~ gone(p) /\ ~ Ab(p) /\ W(p)' = 1 /\ Ack(p)' = Ack(p)
        BY Zenon, <1>f, <1>2, <3>1 DEF Enters, RunEnters, Sends, gone, Stopped
      <4> QED BY SMTT(30), <1>f, <1>2, <2>0, <4>1 DEF NodeInv
    <3>2. CASE Loses(p)
      BY Zenon, <1>f, <1>2, <2>0, <3>2 DEF Loses, Answered, KeepsMsgs
    <3>3. CASE Halts(p) \/ Ticks(p) \/ Fires(p) \/ Starts(p) \/ Passes(p) \/ Resumes(p)
      BY Zenon, <1>2, <2>0, <3>3 DEF Halts, Ticks, Fires, Starts, Passes, Resumes, Stopped
    <3> QED BY Zenon, <2>2, <3>1, <3>2, <3>3 DEF SimStep
  <2>3. CASE Hears(p)
    BY Zenon, <1>2, <2>0, <2>3 DEF Hears, Answered
  <2>4. ASSUME NEW q \in Proc, q # p, SimStep(q) PROVE Keeps(p) /\ Ack(p)' = Ack(p)
    <3>1. CASE \E who \in {"startup", "periodic", "ckpt"} : Enters(q, who)
      BY Zenon, <1>f, <1>2, <2>4, <3>1 DEF Enters, RunEnters, Sends, KeepsMsgs, SimStep, Rest, Proc
    <3> QED BY Zenon, <1>f, <1>2, <2>4, <3>1 DEF SimStep, Rest, Halts, Ticks, Fires, Starts, Passes, Resumes, Loses, KeepsMsgs
  <2>5. ASSUME NEW k \in Node, NodeStep(k), ~ (k = p /\ Hears(p)) PROVE Keeps(p) /\ Ack(p)' = Ack(p)
    BY Zenon, <1>f, <1>2, <2>5 DEF NodeStep, Rest, Asks, Hears, Ignores, Collects, Takes, KeepsMsgs
  <2>6. CASE Still
    BY Zenon, <1>f, <1>2, <2>1, <2>6 DEF Still, KeepsMsgs
  <2> QED BY Zenon, <2>1, <2>2, <2>3, <2>4, <2>5, <2>6 DEF Step
<1> QED BY Zenon, <1>1, <1>2

LEMMA StepInvStep ==
    ASSUME Sound, Step
    PROVE  StepInv'
<1>0. StepInv /\ Quantum \in Nat \ {0} /\ SyncStart \in Nat /\ \A p \in Proc : tick[p] \in Nat /\ When(p) \in Nat
  BY Zenon, Fields, TimeAssumption DEF Sound, Ready, LeastRepeat
<1> HIDE DEF Quantum
<1>1. ASSUME NEW p \in Proc, NEW q \in Proc, When(p)' >= SyncStart + Quantum PROVE tick'[q] + Quantum >= When(p)'
  <2>1. tick'[q] \in Nat /\ tick'[q] >= tick[q]
    BY Zenon, ClockStep
  <2>2. CASE When(p)' = When(p)
    BY SMTT(30), <1>0, <1>1, <2>1, <2>2 DEF StepInv
  <2>3. CASE When(p)' = SyncStart
    BY SMTT(30), <1>0, <1>1, <2>3
  <2>4. CASE When(p)' = tick[p] + Quantum /\ Answered(p) /\ caller[p] = "periodic"
    <3>1. tick[q] >= tick[p]
      BY Zenon, <1>0, <2>4 DEF StepInv
    <3> QED BY SMTT(30), <1>0, <2>1, <2>4, <3>1
  <2> QED BY Zenon, <2>2, <2>3, <2>4, ClockStep
<1>2. ASSUME NEW p \in Proc, NEW q \in Proc, Answered(p)', caller'[p] = "periodic" PROVE tick'[q] >= tick'[p]
  <2>1. tick'[q] \in Nat /\ tick'[q] >= tick[q]
    BY Zenon, ClockStep
  <2>2. CASE ~ (Rest(Switch) /\ Decides)
    <3>1. Answered(p) /\ caller[p] = "periodic"
      BY Zenon, <1>2, <2>2, AnsweredStep
    <3>2. tick'[p] = tick[p] /\ tick[q] >= tick[p]
      BY Zenon, <1>0, <3>1, ClockStep DEF StepInv
    <3> QED BY SMTT(30), <1>0, <2>1, <3>2
  <2>3. CASE Rest(Switch) /\ Decides
    <3>1. /\ pc[Switch] = "wait" /\ W(Switch) = 0 /\ ~ Ab(Switch)
          /\ \A r \in Proc : caller'[r] = caller[r] /\ tick'[r] = tick[r]
      BY Zenon, <2>3 DEF Decides, Rest, Keeps
    <3>2. /\ \A n \in Node : Joined(n, caller[Switch], When(Switch))
          /\ caller[Switch] = "periodic" => tick[Switch] = When(Switch)
      BY Zenon, <3>1, DecideFacts
    <3>3. \A n \in Node : caller[n] = caller[Switch] /\ (caller[n] = "periodic" => tick[n] = When(Switch))
      BY Zenon, <3>2 DEF Joined
    <3>4. caller[Switch] = "periodic"
      BY Zenon, <1>2, <3>1, <3>3 DEF Proc
    <3>5. \A r \in Proc : tick'[r] = When(Switch) /\ When(Switch) \in Nat
      BY Zenon, <1>0, <3>1, <3>2, <3>3, <3>4, Procs DEF Proc
    <3> QED BY <3>5
  <2> QED BY Zenon, <2>2, <2>3
<1> QED BY Zenon, <1>1, <1>2 DEF StepInv

-----------------------------------------------------------------------------
(* All processes are in or come to the same barrier                        *)

\* A process that moves is in or comes to the barrier it was in or came to.
LEMMA KindSim ==
    ASSUME Sound, NEW p \in Proc, SimStep(p), pc'[p] \notin Stopped,
           p # Switch => ~ gone(Switch), p = Switch => ~ Ab(Switch)'
    PROVE  Kind(p)' = Kind(p) /\ Meet(p)' = Meet(p)
<1>l. LocalInv(p) /\ (p # Switch => p \in Node /\ NodeInv(p)) /\ SwitchInv
  BY Zenon DEF Sound, Ready, Proc
<1>f. pc[p] \in PC /\ tick[p] \in Nat /\ When(p) \in Nat /\ Quantum \in Nat
  BY Zenon, Fields DEF Sound, Ready, LeastRepeat
<1> HIDE DEF Quantum
<1>h. ~ Halts(p) /\ ~ Loses(p)
  BY Zenon, <1>l DEF Halts, Loses
<1>1. CASE \E who \in {"startup", "periodic", "ckpt"} : Enters(p, who)
  <2>1. PICK who \in {"startup", "periodic", "ckpt"} : Enters(p, who)
    BY Zenon, <1>1
  <2>2. /\ <<pc[p], who>> \in {<<"startup", "startup">>, <<"event", "periodic">>, <<"drain", "ckpt">>}
        /\ pc'[p] = "wait" /\ caller'[p] = who /\ When(p)' = When(p)
    BY Zenon, <2>1 DEF Enters, RunEnters, KeepsEvent
  <2>3. ~ Answered(p)'
    <3>1. CASE p = Switch
      BY Zenon, <2>2, <3>1 DEF Answered
    <3>2. CASE p # Switch
      <4>1. ~ Ab(p) /\ W(p)' = 1 /\ Ack(p)' = Ack(p) /\ ~ gone(p) /\ pc[p] # "wait"
        BY Zenon, <1>l, <2>1, <2>2, <3>2 DEF Enters, RunEnters, Sends, gone, Stopped
      <4>2. Ack(p) = {}
        BY Zenon, <1>l, <3>2, <4>1 DEF NodeInv
      <4> QED BY SMTT(30), <3>2, <4>1, <4>2 DEF Answered
    <3> QED BY Zenon, <3>1, <3>2
  <2>4. ~ Answered(p) /\ ~ InRun(p) /\ InRun(p)'
    BY Zenon, <2>2 DEF Answered, InRun
  <2> QED BY Zenon, <2>2, <2>3, <2>4 DEF Kind, Meet
<1>2. CASE Ticks(p) \/ Fires(p)
  <2>1. /\ pc[p] \in {"run", "drain"} /\ (pc'[p] = pc[p] \/ (pc[p] = "run" /\ pc'[p] = "event"))
        /\ When(p)' = When(p)
    BY Zenon, <1>2 DEF Ticks, Fires, When
  <2>2. ~ Answered(p) /\ ~ InRun(p) /\ ~ InRun(p)' /\ ~ Answered(p)'
    BY Zenon, <2>1 DEF Answered, InRun
  <2> QED BY Zenon, <2>1, <2>2 DEF Kind, Meet
<1>3. CASE Starts(p)
  <2>1. completed(p) /\ caller[p] = "startup" /\ pc'[p] = "run" /\ When(p)' = At(p)
    BY Zenon, <1>3 DEF Starts
  <2>2. Answered(p) /\ ~ InRun(p)' /\ ~ Answered(p)'
    BY Zenon, <2>1 DEF completed, Answered, InRun, W, Ab
  <2>3. At(p) = SyncStart
    BY Zenon, <1>l, <2>1 DEF completed, NodeInv, SwitchInv, Fresh, InRun, W, Ab
  <2> QED BY Zenon, <2>1, <2>2, <2>3 DEF Kind, Meet
<1>4. CASE Passes(p)
  <2>1. /\ completed(p) /\ caller[p] = "periodic" /\ pc'[p] = (IF Do(p, "ckpt") THEN "drain" ELSE "run")
        /\ When(p)' = tick[p] + Rep(p)
    BY Zenon, <1>4 DEF Passes
  <2>2. Answered(p) /\ ~ InRun(p)' /\ ~ Answered(p)'
    BY Zenon, <2>1 DEF completed, Answered, InRun, W, Ab
  <2>3. Rep(p) = Quantum /\ tick[p] = When(p) /\ (p # Switch => Ack(p) = {})
    BY SMTT(30), <1>l, <2>1 DEF completed, LocalInv, NodeInv, SwitchInv, Fresh, InRun, W, Ab, gone, Stopped
  <2>4. DecidesCkpt(p) <=> Do(p, "ckpt")
    BY Zenon, <2>3 DEF DecidesCkpt
  <2> QED BY Zenon, <1>f, <2>1, <2>2, <2>3, <2>4 DEF Kind, Meet
<1>5. CASE Resumes(p)
  <2>1. completed(p) /\ caller[p] = "ckpt" /\ pc'[p] = "run" /\ When(p)' = When(p)
    BY Zenon, <1>l, <1>5 DEF Resumes, NodeInv, When
  <2>2. Answered(p) /\ ~ InRun(p)' /\ ~ Answered(p)'
    BY Zenon, <2>1 DEF completed, Answered, InRun, W, Ab
  <2> QED BY Zenon, <2>1, <2>2 DEF Kind, Meet
<1> QED BY Zenon, <1>h, <1>1, <1>2, <1>3, <1>4, <1>5 DEF SimStep

LEMMA NodePartKept ==
    ASSUME NEW n \in Node, NEW C, NEW kind, NEW at, NodePart(n, C, kind, at),
           Keeps(n), Req(n)' = Req(n), Ack(n)' = Ack(n)
    PROVE  NodePart(n, C, kind, at)'
<1>1. Kind(n)' = Kind(n) /\ Meet(n)' = Meet(n) /\ gone(n)' = gone(n)
  BY Zenon, Procs DEF Keeps, Kind, Meet, Answered, InRun, DecidesCkpt, When, Do, W, Ab, gone
<1>2. Joined(n, kind, at)' <=> Joined(n, kind, at)
  BY Zenon DEF Keeps, Joined, W, When
<1> QED BY Zenon, <1>1, <1>2 DEF NodePart, Keeps

\* A node moves.
LEMMA NodePartSim ==
    ASSUME Sound, NEW n \in Node, NEW C, NEW kind, NEW at, NodePart(n, C, kind, at), ~ gone(Switch), SimStep(n)
    PROVE  NodePart(n, C, kind, at)'
<1>l. LocalInv(n) /\ NodeInv(n) /\ NeedInv(n) /\ n # Switch /\ n \in Proc /\ "stop" \in Wish
  BY Zenon, Procs DEF Sound, Ready, Wish
<1>f. pc[n] \in PC /\ tick[n] \in Nat /\ When(n) \in Nat
  BY Zenon, <1>l, Fields DEF Sound, Ready
<1> HIDE DEF Quantum
<1>h. ~ Loses(n)
  BY Zenon, <1>l DEF Loses
<1>k. pc'[n] \notin Stopped => Kind(n)' = Kind(n) /\ Meet(n)' = Meet(n)
  BY Zenon, <1>l, KindSim
<1>1. CASE \E who \in {"startup", "periodic", "ckpt"} : Enters(n, who)
  <2>1. PICK who \in {"startup", "periodic", "ckpt"} : Enters(n, who)
    BY Zenon, <1>1
  <2>2. /\ <<pc[n], who>> \in {<<"startup", "startup">>, <<"event", "periodic">>, <<"drain", "ckpt">>}
        /\ pc'[n] = "wait" /\ caller'[n] = who /\ When(n)' = When(n) /\ tick'[n] = tick[n] /\ W(n)' = 1
        /\ Req(n)' = {Request(n)} /\ Ack(n)' = Ack(n) /\ ~ Ab(n)
    BY Zenon, <1>l, <2>1 DEF Enters, RunEnters, KeepsEvent, Sends
  <2>3. ~ gone(n) /\ pc[n] \notin {"wait"} \cup Stopped
    BY Zenon, <2>2 DEF gone, Stopped
  <2>4. n \notin C /\ Ack(n) = {} /\ Kind(n) = kind /\ Meet(n) = at
    BY Zenon, <1>l, <2>2, <2>3 DEF NodePart, Joined, NodeInv
  <2>5. kind = who /\ at = When(n) /\ (who = "periodic" => tick[n] = When(n))
    BY Zenon, <1>l, <2>2, <2>4 DEF Kind, Meet, Answered, InRun, LocalInv
  <2>6. Joined(n, kind, at)'
    BY Zenon, <2>2, <2>4, <2>5 DEF Joined
  <2>7. /\ Request(n).sendTick = tick[n] /\ Request(n).syncRepeat = Rep(n) /\ Request(n).need = need[n]
    BY Zenon DEF Request
  <2>8. /\ \A w \in Wish : need[n][w] # "immediate"
        /\ need[n]["stop"] = "none"
        /\ kind = "startup" => Rep(n) = Repeat[n] /\ \A w \in Wish : need[n][w] = "none"
        /\ kind # "startup" => Rep(n) = Quantum
    BY Zenon, <1>l, <2>2, <2>3, <2>5 DEF NeedInv, NodeInv, Fresh, InRun
  <2>9. Kind(n)' = kind /\ Meet(n)' = at
    BY Zenon, <1>k, <2>2, <2>4 DEF Stopped
  <2> QED BY Zenon, <2>2, <2>4, <2>6, <2>7, <2>8, <2>9 DEF NodePart
<1>2. CASE Halts(n)
  <2>1. /\ gone(n)' /\ ~ gone(n) /\ Ack(n)' = Ack(n) /\ Req(n)' = Req(n) /\ pc'[n] \in Stopped
        /\ W(n)' = W(n) /\ When(n)' = When(n)
    BY Zenon, <1>2 DEF Halts, KeepsMsgs, gone, W
  <2>2. Joined(n, kind, at) => Joined(n, kind, at)' /\ tick'[n] = tick[n]
    <3>1. Joined(n, kind, at) => tick'[n] = tick[n] /\ caller'[n] = caller[n]
      BY Zenon, <1>2, <2>1 DEF Halts, Joined, Stopped
    <3> QED BY Zenon, <2>1, <3>1 DEF Joined
  <2> QED BY Zenon, <2>1, <2>2 DEF NodePart
<1>3. CASE Ticks(n) \/ Fires(n) \/ Starts(n) \/ Passes(n) \/ Resumes(n)
  <2>1. /\ Req(n)' = Req(n) /\ pc'[n] \notin Stopped /\ ~ gone(n) /\ (pc[n] # "wait" \/ W(n) = 0)
    BY Zenon, <1>l, <1>3 DEF Ticks, Fires, Starts, Passes, Resumes, completed, KeepsMsgs, gone, Stopped, W
  <2>2. ~ Joined(n, kind, at)
    BY SMTT(30), <2>1 DEF Joined, gone
  <2>3. n \notin C /\ Req(n) = {} /\ Kind(n) = kind /\ Meet(n) = at
    BY Zenon, <2>1, <2>2 DEF NodePart
  <2> QED BY Zenon, <1>k, <2>1, <2>3 DEF NodePart
<1> QED BY Zenon, <1>h, <1>1, <1>2, <1>3 DEF SimStep

\* A node hears of the decision.
LEMMA NodePartHears ==
    ASSUME Sound, NEW n \in Node, NEW C, NEW kind, NEW at, NodePart(n, C, kind, at), Hears(n)
    PROVE  NodePart(n, C, kind, at)'
<1>l. NodeInv(n) /\ n # Switch
  BY Zenon, Procs DEF Sound, Ready
<1>1. PICK m \in SyncMessage :
      /\ ~ gone(n) /\ ~ Ab(n) /\ Ack(n) = {m} /\ Ack(n)' = {} /\ Req(n)' = Req(n)
      /\ W(n)' = W(n) - 1 /\ ~ Ab(n)'
      /\ \A w \in Wish : Do(n, w)' <=> m.need[w] # "none"
      /\ pc'[n] = pc[n] /\ caller'[n] = caller[n] /\ ev'[n] = ev[n]
  BY Zenon DEF Hears
<1>2. pc[n] = "wait" /\ W(n) = 1
  BY Zenon, <1>l, <1>1 DEF NodeInv
<1>3. n \notin C /\ Req(n) = {} /\ Kind(n) = kind /\ Meet(n) = at
  BY Zenon, <1>1 DEF NodePart, Joined
<1>4. Answered(n) /\ Answered(n)'
  BY SMTT(30), <1>l, <1>1, <1>2 DEF Answered
<1>5. DecidesCkpt(n)' <=> DecidesCkpt(n)
  BY Zenon, <1>l, <1>1 DEF DecidesCkpt, Wish
<1>6. Kind(n)' = Kind(n) /\ Meet(n)' = Meet(n)
  BY Zenon, <1>1, <1>4, <1>5 DEF Kind, Meet, When
<1> QED BY Zenon, <1>1, <1>3, <1>6 DEF NodePart

LEMMA CollectNext ==
    ASSUME NEW C \in SUBSET Node, NEW kind, NEW at, Kind(Switch)' = kind, Meet(Switch)' = at,
           SwitchPart(C, kind, at)', \A n \in Node : NodePart(n, C, kind, at)'
    PROVE  Collect(C)'
BY Zenon DEF Collect, SwitchPart, NodePart, Joined

\* The fields of the switch are as before.
LEMMA SwitchKept ==
    ASSUME Keeps(Switch)
    PROVE  /\ Kind(Switch)' = Kind(Switch) /\ Meet(Switch)' = Meet(Switch) /\ W(Switch)' = W(Switch)
           /\ At(Switch)' = At(Switch) /\ Rep(Switch)' = Rep(Switch)
BY Zenon DEF Keeps, Kind, Meet, Answered, InRun, DecidesCkpt, When, Do, W, At, Rep

\* A simulation thread moves.
LEMMA CollectSim ==
    ASSUME Sound, NEW p \in Proc, SimStep(p), ~ gone(Switch), ~ gone(Switch)', ~ Ab(Switch)',
           NEW C \in SUBSET Node, Collect(C)
    PROVE  Collect(C)'
<1>1. PICK kind, at : kind = Kind(Switch) /\ at = Meet(Switch)
  BY Zenon
<1>2. SwitchPart(C, kind, at) /\ \A n \in Node : NodePart(n, C, kind, at)
  BY Zenon, <1>1 DEF Collect
<1>3. num' = num
  BY Zenon DEF SimStep, Enters, Halts, Ticks, Fires, Starts, Passes, Resumes, Loses, KeepsNeed
<1>4. CASE p = Switch
  <2>1. Kind(Switch)' = kind /\ Meet(Switch)' = at
    BY Zenon, <1>1, <1>4, KindSim DEF gone
  <2>2. ~ Halts(Switch) /\ ~ Loses(Switch)
    BY Zenon DEF Halts, Loses, gone
  <2>3. W(Switch)' = W(Switch) /\ At(Switch)' = At(Switch) /\ Rep(Switch)' = Rep(Switch) /\ KeepsMsgs
    BY Zenon, <1>4, <2>2 DEF SimStep, Enters, RunEnters, KeepsSync, Ticks, Fires, Starts, Passes, Resumes, W, At, Rep
  <2>4. SwitchPart(C, kind, at)'
    BY Zenon, <1>2, <1>3, <2>3 DEF SwitchPart
  <2>5. ASSUME NEW n \in Node PROVE NodePart(n, C, kind, at)'
    <3>1. Keeps(n) /\ Req(n)' = Req(n) /\ Ack(n)' = Ack(n)
      BY Zenon, <1>4, <2>3, Procs DEF SimStep, Rest, KeepsMsgs
    <3> QED BY Zenon, <1>2, <3>1, NodePartKept
  <2> QED BY Zenon, <2>1, <2>4, <2>5, CollectNext
<1>5. CASE p # Switch
  <2>1. Keeps(Switch) /\ p \in Node
    BY Zenon, <1>5, Procs DEF SimStep, Rest, Proc
  <2>2. Kind(Switch)' = kind /\ Meet(Switch)' = at /\ SwitchPart(C, kind, at)'
    BY Zenon, <1>1, <1>2, <1>3, <2>1, SwitchKept DEF SwitchPart
  <2>3. ASSUME NEW n \in Node PROVE NodePart(n, C, kind, at)'
    <3>1. CASE n = p
      BY Zenon, <1>2, <3>1, NodePartSim
    <3>2. CASE n # p
      <4>1. Keeps(n)
        BY Zenon, <3>2, Procs DEF SimStep, Rest
      <4>2. Req(n)' = Req(n) /\ Ack(n)' = Ack(n)
        <5>1. CASE \E who \in {"startup", "periodic", "ckpt"} : Enters(p, who)
          BY Zenon, <1>5, <3>2, <5>1 DEF Enters, RunEnters, Sends
        <5> QED BY Zenon, <5>1 DEF SimStep, Halts, Ticks, Fires, Starts, Passes, Resumes, Loses, KeepsMsgs
      <4> QED BY Zenon, <1>2, <4>1, <4>2, NodePartKept
    <3> QED BY Zenon, <3>1, <3>2
  <2> QED BY Zenon, <2>2, <2>3, CollectNext
<1> QED BY Zenon, <1>4, <1>5

\* A node asks for something, or hears of a decision; nothing happens.
LEMMA CollectNode ==
    ASSUME Sound, NEW n \in Node, (Rest(n) /\ (Asks(n) \/ Hears(n))) \/ Still, NEW C \in SUBSET Node, Collect(C)
    PROVE  Collect(C)'
<1>1. PICK kind, at : kind = Kind(Switch) /\ at = Meet(Switch)
  BY Zenon
<1>2. SwitchPart(C, kind, at) /\ \A k \in Node : NodePart(k, C, kind, at)
  BY Zenon, <1>1 DEF Collect
<1>3. num' = num /\ Keeps(Switch)
  BY Zenon, Procs DEF Rest, Asks, Hears, Still, KeepsNeed
<1>4. Kind(Switch)' = kind /\ Meet(Switch)' = at /\ SwitchPart(C, kind, at)'
  BY Zenon, <1>1, <1>2, <1>3, SwitchKept DEF SwitchPart
<1>5. ASSUME NEW k \in Node PROVE NodePart(k, C, kind, at)'
  <2>1. CASE k = n /\ Hears(n)
    BY Zenon, <1>2, <2>1, NodePartHears
  <2>2. CASE ~ (k = n /\ Hears(n))
    <3>1. Keeps(k) /\ Req(k)' = Req(k) /\ Ack(k)' = Ack(k)
      BY Zenon, <2>2, Procs DEF Rest, Asks, Hears, Still, KeepsMsgs
    <3> QED BY Zenon, <1>2, <3>1, NodePartKept
  <2> QED BY Zenon, <2>1, <2>2
<1> QED BY Zenon, <1>4, <1>5, CollectNext

\* A request arrives.
LEMMA CollectTakes ==
    ASSUME Sound, NEW n \in Node, Rest(Switch), Collects(n), NEW C \in SUBSET Node, Collect(C)
    PROVE  Collect(C \cup {n})'
<1> DEFINE D == C \cup {n}
<1>1. PICK kind, at : kind = Kind(Switch) /\ at = Meet(Switch)
  BY Zenon
<1>2. SwitchPart(C, kind, at) /\ \A k \in Node : NodePart(k, C, kind, at)
  BY Zenon, <1>1 DEF Collect
<1>3. PICK m \in SyncMessage :
      /\ ~ gone(Switch) /\ ~ Ab(Switch) /\ Takes(n, m)
      /\ W(Switch)' = W(Switch) - 1 /\ ~ Ab(Switch)'
      /\ At(Switch)' = (IF m.sendTick > At(Switch) THEN m.sendTick ELSE At(Switch))
      /\ Rep(Switch)' = (IF Rep(Switch) > m.syncRepeat THEN m.syncRepeat ELSE Rep(Switch))
      /\ \A w \in Wish : Do(Switch, w)' <=> Do(Switch, w) \/ m.need[w] = "immediate"
      /\ \A w \in Wish : num'[w] = (IF m.need[w] = "collective" THEN num[w] + 1 ELSE num[w])
      /\ pc'[Switch] = pc[Switch] /\ caller'[Switch] = caller[Switch] /\ ev'[Switch] = ev[Switch]
  BY Zenon DEF Collects
<1>4. /\ n \notin C /\ Joined(n, kind, at)
      /\ m.need["stop"] = "none" /\ \A w \in Wish : m.need[w] # "immediate"
      /\ kind = "startup" => m.sendTick = 0 /\ m.syncRepeat = Repeat[n] /\ \A w \in Wish : m.need[w] = "none"
      /\ kind # "startup" => m.syncRepeat = Quantum /\ m.sendTick <= at
      /\ kind = "periodic" => m.sendTick = at
  BY Zenon, <1>1, <1>3, TakeFacts DEF Takes
<1>f. /\ m.sendTick \in Nat /\ m.syncRepeat \in Nat /\ At(Switch) \in Nat /\ Rep(Switch) \in Nat /\ SyncStart \in Nat
      /\ \A q \in Proc : Repeat[q] \in Nat
  BY Zenon, Fields, Procs, TimeAssumption DEF SyncMessage, Sound, Ready
<1> HIDE DEF Quantum
<1>5. Kind(Switch)' = kind /\ Meet(Switch)' = at
  <2>1. Do(Switch, "ckpt")' <=> Do(Switch, "ckpt")
    BY Zenon, <1>3, <1>4 DEF Wish
  <2>2. (Answered(Switch)' <=> Answered(Switch)) /\ (InRun(Switch)' <=> InRun(Switch)) /\ (DecidesCkpt(Switch)' <=> DecidesCkpt(Switch))
    BY Zenon, <1>3, <2>1 DEF Answered, InRun, DecidesCkpt
  <2> QED BY Zenon, <1>1, <1>3, <2>2 DEF Kind, Meet, When
<1>6. SwitchPart(D, kind, at)'
  <2>1. W(Switch)' = Cardinality(Node \ D)
    <3>1. n \in Node \ C /\ C \in SUBSET Node /\ Counting
      BY Zenon, <1>4 DEF Sound, Ready
    <3>2. Cardinality(Node \ D) = Cardinality(Node \ C) - 1
      BY Zenon, <3>1 DEF Counting
    <3> QED BY Zenon, <1>2, <1>3, <3>1, <3>2 DEF SwitchPart
  <2>2. kind = "startup" => /\ At(Switch)' = SyncStart /\ (\A q \in D \cup {Switch} : Rep(Switch)' <= Repeat[q])
                            /\ Rep(Switch)' \in {Repeat[q] : q \in Proc}
    <3>1. ASSUME kind = "startup" PROVE /\ At(Switch)' = SyncStart /\ (\A q \in D \cup {Switch} : Rep(Switch)' <= Repeat[q])
                                        /\ Rep(Switch)' \in {Repeat[q] : q \in Proc}
      <4>1. At(Switch) = SyncStart /\ (\A q \in C \cup {Switch} : Rep(Switch) <= Repeat[q]) /\ Rep(Switch) \in {Repeat[q] : q \in Proc}
        BY Zenon, <1>2, <3>1 DEF SwitchPart
      <4>2. At(Switch)' = SyncStart
        BY SMTT(30), <1>3, <1>4, <1>f, <3>1, <4>1
      <4>3. Rep(Switch)' \in {Rep(Switch), Repeat[n]} /\ Rep(Switch)' <= Rep(Switch) /\ Rep(Switch)' <= Repeat[n]
        BY SMTT(30), <1>3, <1>4, <1>f, <3>1
      <4>4. \A q \in D \cup {Switch} : Rep(Switch)' <= Repeat[q]
        <5> TAKE q \in D \cup {Switch}
        <5>1. q \in Proc /\ n \in Proc
          BY Zenon, Procs
        <5>2. Repeat[q] \in Nat /\ Rep(Switch)' \in Nat
          BY Zenon, <1>f, <4>3, <5>1
        <5> QED BY SMTT(30), <1>f, <4>1, <4>3, <5>2
      <4>5. Rep(Switch)' \in {Repeat[q] : q \in Proc}
        BY Zenon, <4>1, <4>3, Procs
      <4> QED BY Zenon, <4>2, <4>4, <4>5
    <3> QED BY Zenon, <3>1
  <2>3. kind = "startup" => \A w \in Wish : num'[w] = 0
    BY Zenon, <1>2, <1>3, <1>4 DEF SwitchPart
  <2>4. kind # "startup" => At(Switch)' <= at
    BY Zenon, <1>2, <1>3, <1>4 DEF SwitchPart
  <2>5. kind = "periodic" => At(Switch)' = at
    BY SMTT(30), <1>2, <1>3, <1>4, <1>f DEF SwitchPart
  <2>6. num'["stop"] = 0
    BY Zenon, <1>2, <1>3, <1>4 DEF SwitchPart, Wish
  <2> HIDE DEF D
  <2> QED BY Zenon, <2>1, <2>2, <2>3, <2>4, <2>5, <2>6 DEF SwitchPart
<1>7. ASSUME NEW k \in Node PROVE NodePart(k, D, kind, at)'
  <2>1. Keeps(k) /\ Ack(k)' = Ack(k) /\ NodePart(k, C, kind, at)
    BY Zenon, <1>2, <1>3, Procs DEF Rest, Takes
  <2>2. CASE k # n
    <3>1. Req(k)' = Req(k)
      BY Zenon, <1>3, <2>2 DEF Takes
    <3>2. NodePart(k, C, kind, at)'
      BY Zenon, <2>1, <3>1, NodePartKept
    <3> QED BY Zenon, <2>2, <3>2 DEF NodePart
  <2>3. CASE k = n
    <3>1. Req(n)' = {}
      BY Zenon, <1>3 DEF Takes
    <3>2. Joined(n, kind, at)'
      BY Zenon, <1>4, <2>1, <2>3 DEF Keeps, Joined, W, When
    <3>3. Kind(n)' = Kind(n) /\ Meet(n)' = Meet(n) /\ gone(n)' = gone(n)
      BY Zenon, <2>1, <2>3, Procs DEF Keeps, Kind, Meet, Answered, InRun, DecidesCkpt, When, Do, W, Ab, gone
    <3> QED BY Zenon, <2>1, <2>3, <3>1, <3>2, <3>3 DEF NodePart
  <2> QED BY Zenon, <2>2, <2>3
<1>8. D \in SUBSET Node
  BY Zenon
<1> HIDE DEF D
<1>9. Collect(D)'
  BY Zenon, <1>5, <1>6, <1>7, <1>8, CollectNext
<1> QED BY Zenon, <1>9 DEF D

\* The switch decides: everybody comes to the next barrier.
LEMMA CollectDecides ==
    ASSUME Sound, Rest(Switch), Decides, ~ gone(Switch)'
    PROVE  Collect({})'
<1>1. PICK m \in SyncMessage :
      /\ pc[Switch] = "wait" /\ W(Switch) = 0 /\ ~ Ab(Switch)
      /\ \A w \in Wish : m.need[w] = (IF Decided(w) THEN "immediate" ELSE "none")
      /\ pc'[Switch] = "acked"
      /\ W(Switch)' = Cardinality(Node) /\ At(Switch)' = At(Switch) /\ Rep(Switch)' = Rep(Switch)
      /\ \A w \in Wish : Do(Switch, w)' <=> Decided(w)
      /\ \A w \in Wish : num'[w] = (IF Decided(w) /\ w # "exit" THEN 0 ELSE num[w])
      /\ caller'[Switch] = caller[Switch] /\ ev'[Switch] = ev[Switch]
      /\ \A n \in Node : Req(n)' = Req(n)
      /\ \A n \in Node : ~ gone(n) => Ack(n)' = {m}
  BY Zenon DEF Decides, gone, Stopped
<1>2. /\ \A n \in Node : Req(n) = {} /\ Joined(n, caller[Switch], When(Switch))
      /\ num["stop"] = 0
      /\ caller[Switch] = "startup" => At(Switch) = SyncStart
      /\ caller[Switch] # "startup" => At(Switch) <= When(Switch)
  BY Zenon, <1>1, DecideFacts
<1>3. PICK kind, at : kind = Kind(Switch)' /\ at = Meet(Switch)'
  BY Zenon
<1>f. At(Switch) \in Nat /\ When(Switch) \in Nat /\ Quantum \in Nat /\ SyncStart \in Nat
  BY Zenon, Fields, Procs, TimeAssumption DEF Sound, Ready, LeastRepeat
<1>l. LocalInv(Switch)
  BY Zenon, Procs DEF Sound, Ready
<1> HIDE DEF Quantum
<1>4. /\ kind = (IF caller[Switch] = "periodic" /\ Decided("ckpt") THEN "ckpt" ELSE "periodic")
      /\ at = (IF caller[Switch] = "startup" THEN SyncStart
               ELSE IF caller[Switch] = "periodic" THEN When(Switch) + Quantum ELSE When(Switch))
  <2>1. Answered(Switch)' /\ (DecidesCkpt(Switch)' <=> Decided("ckpt"))
    BY Zenon, <1>1 DEF Answered, DecidesCkpt, Wish
  <2> QED BY Zenon, <1>1, <1>3, <2>1 DEF Kind, Meet, When
<1>5. SwitchPart({}, kind, at)'
  <2>1. W(Switch)' = Cardinality(Node \ {})
    <3>1. Node \ {} = Node
      BY Zenon
    <3> QED BY Zenon, <1>1, <3>1
  <2>2. kind # "startup" /\ At(Switch)' <= at
    BY <1>1, <1>2, <1>4, <1>f
  <2>3. num'["stop"] = 0
    BY Zenon, <1>1, <1>2 DEF Wish
  <2> QED BY Zenon, <2>1, <2>2, <2>3 DEF SwitchPart
<1>6. ASSUME NEW n \in Node PROVE NodePart(n, {}, kind, at)'
  <2>0. Keeps(n) /\ n # Switch
    BY Zenon, Procs DEF Rest
  <2>1. Keeps(n) /\ n # Switch /\ Req(n)' = {}
    BY <1>1, <1>2, <2>0
  <2>2. ASSUME ~ gone(n)' PROVE Kind(n)' = kind /\ Meet(n)' = at
    <3>1. ~ gone(n) /\ Ack(n)' = {m}
      BY Zenon, <1>1, <2>1, <2>2 DEF Keeps, gone
    <3>2. pc'[n] = "wait" /\ caller'[n] = caller[Switch] /\ When(n)' = When(Switch)
      BY Zenon, <1>2, <2>1, <3>1 DEF Joined, Keeps, gone, When
    <3>3. Answered(n)' /\ (DecidesCkpt(n)' <=> Decided("ckpt"))
      BY Zenon, <1>1, <2>1, <3>1, <3>2 DEF Answered, DecidesCkpt, Wish
    <3> QED BY Zenon, <1>4, <3>2, <3>3 DEF Kind, Meet
  <2> QED BY Zenon, <2>1, <2>2 DEF NodePart
<1> QED BY Zenon, <1>3, <1>5, <1>6, CollectNext

LEMMA MainStep ==
    ASSUME Sound, Step
    PROVE  MainInv'
<1> SUFFICES ASSUME ~ gone(Switch)', ~ Ab(Switch)' PROVE \E C \in SUBSET Node : Collect(C)'
  BY Zenon DEF MainInv
<1>1. ~ gone(Switch)
  BY Zenon, Procs DEF Step, StayGone
<1>2. ~ Ab(Switch)
  <2>1. CASE Keeps(Switch)
    BY Zenon, <2>1 DEF Keeps, Ab
  <2>2. CASE SimStep(Switch)
    BY Zenon, <2>2 DEF SimStep, Enters, RunEnters, KeepsSync, Halts, Ticks, Fires, Starts, Passes, Resumes, Loses, Ab
  <2>3. CASE Decides \/ \E n \in Node : Ignores(n) \/ Collects(n)
    BY Zenon, <2>1, <2>3 DEF Decides, Ignores, Collects
  <2> QED BY Zenon, <2>1, <2>2, <2>3, Procs DEF Step, SimStep, NodeStep, Rest, Still
<1>3. PICK C \in SUBSET Node : Collect(C)
  BY Zenon, <1>1, <1>2 DEF Sound, Ready, MainInv
<1>4. ASSUME NEW p \in Proc, SimStep(p) PROVE \E E \in SUBSET Node : Collect(E)'
  BY Zenon, <1>1, <1>3, <1>4, CollectSim
<1>5. ASSUME NEW n \in Node, NodeStep(n) PROVE \E E \in SUBSET Node : Collect(E)'
  <2>1. CASE Rest(n) /\ (Asks(n) \/ Hears(n))
    BY Zenon, <1>3, <2>1, CollectNode
  <2>2. CASE Rest(Switch) /\ Collects(n)
    <3>1. Collect(C \cup {n})' /\ C \cup {n} \in SUBSET Node
      BY Zenon, <1>3, <2>2, CollectTakes
    <3> QED BY Zenon, <3>1
  <2> QED BY Zenon, <1>2, <1>5, <2>1, <2>2 DEF NodeStep, Ignores
<1>6. CASE Rest(Switch) /\ Decides
  <2>1. Collect({})' /\ {} \in SUBSET Node
    BY Zenon, <1>6, CollectDecides
  <2> QED BY Zenon, <2>1
<1>7. CASE Still
  <2>1. PICK n \in Node : TRUE
    BY Zenon, ProcAssumption
  <2> QED BY Zenon, <1>3, <1>7, <2>1, CollectNode
<1> QED BY Zenon, <1>4, <1>5, <1>6, <1>7 DEF Step

-----------------------------------------------------------------------------
(* The invariant                                                           *)

LEMMA SoundInit == Counting /\ LeastRepeat /\ Init /\ Regular => Sound
<1> SUFFICES ASSUME Counting, LeastRepeat, Init, Regular PROVE Sound
  BY Zenon
<1>1. Counting /\ Types
  BY Zenon, InitTypes
<1>2. \A n \in Node : <<n, "switch">> \in Iface /\ <<n, "node">> \in Iface
  BY Zenon, Ends
<1>3. \A n \in Node : in[<<n, "switch">>] = <<>> /\ in[<<n, "node">>] = <<>>
  BY Zenon, <1>2 DEF Init
<1>4. \A kind : Msgs(<<>>, kind) = {} /\ Single(<<>>, kind)
  BY DEF Msgs, Single
<1>5. \A n \in Node : Req(n) = {} /\ Ack(n) = {} /\ ChanInv(n)
  BY Zenon, <1>3, <1>4 DEF Req, Ack, ChanInv
<1>6. /\ \A p \in Proc : /\ tick[p] = 0 /\ pc[p] = "startup" /\ caller[p] = "startup"
                         /\ When(p) = 0 /\ Sched(p) = FALSE /\ Ab(p) = FALSE /\ Rep(p) = Repeat[p] /\ At(p) = SyncStart
                         /\ \A w \in Wish : Do(p, w) = FALSE
                         /\ W(p) = IF p = Switch THEN Cardinality(Node) ELSE 0
      /\ \A n \in Node, w \in Wish : need[n][w] = "none"
      /\ \A w \in Wish : num[w] = 0
  BY Zenon DEF Init, newEvent, newSync, When, Sched, Ab, Rep, At, Do, W
<1>7. "stop" \in Wish
  BY Zenon DEF Wish
<1>8. \A p \in Proc : LocalInv(p)
  BY Zenon, <1>6, <1>7 DEF LocalInv, Fresh, InRun, gone, Stopped
<1>9. \A n \in Node : NodeInv(n) /\ NeedInv(n)
  BY Zenon, <1>5, <1>6, <1>7, Procs DEF NodeInv, NeedInv, Fresh, InRun, Stopped, gone
<1>10. SwitchInv
  BY Zenon, <1>6, Procs DEF SwitchInv, Fresh, InRun
<1>11. StepInv
  <2>1. SyncStart \in Nat /\ Quantum \in Nat \ {0}
    BY Zenon, TimeAssumption DEF LeastRepeat
  <2> HIDE DEF Quantum
  <2> QED BY <1>6, <2>1 DEF StepInv, Answered
<1>12. MainInv
  <2>1. \A p \in Proc : ~ Answered(p) /\ Kind(p) = "startup" /\ Meet(p) = 0
    BY Zenon, <1>5, <1>6, Procs DEF Answered, Kind, Meet, InRun
  <2>2. Repeat[Switch] \in Nat /\ Switch \in Proc /\ Node \ {} = Node
    BY Zenon, TimeAssumption, Procs
  <2>3. SwitchPart({}, "startup", 0)
    BY <1>6, <1>7, <2>2 DEF SwitchPart
  <2>4. \A n \in Node : NodePart(n, {}, "startup", 0)
    BY Zenon, <1>5, <2>1, Procs DEF NodePart
  <2>5. Collect({})
    BY Zenon, <2>1, <2>2, <2>3, <2>4 DEF Collect
  <2> QED BY Zenon, <2>5 DEF MainInv
<1>13. Channels
  BY Zenon, <1>1, <1>5 DEF Channels, Types, LinkTypes
<1> QED BY Zenon, <1>1, <1>8, <1>9, <1>10, <1>11, <1>12, <1>13 DEF Sound, Ready

LEMMA SoundStep == Sound /\ [Next]_vars => Sound' /\ Step
<1> SUFFICES ASSUME Sound, [Next]_vars PROVE Sound' /\ Step
  BY Zenon
<1>1. Step /\ Counting /\ LeastRepeat /\ Regular
  BY Zenon, Steps DEF Sound, Ready
<1>2. Types'
  BY Zenon, <1>1, TypesStep DEF Sound, Ready
<1>3. Regular' /\ Counting' /\ LeastRepeat'
  BY Zenon, <1>1 DEF Step, Regular, Counting, LeastRepeat, Quantum
<1>4. Channels'
  BY Zenon, <1>1, <1>2 DEF Channels, Step, Types, LinkTypes
<1>5. \A p \in Proc : LocalInv(p)'
  BY Zenon, <1>1, LocalStep
<1>6. \A n \in Node : NodeInv(n)' /\ NeedInv(n)'
  BY Zenon, <1>1, NodeInvStep, NeedStep
<1>7. SwitchInv' /\ StepInv' /\ MainInv'
  BY Zenon, <1>1, SwitchStep, StepInvStep, MainStep
<1> QED BY Zenon, <1>1, <1>2, <1>3, <1>4, <1>5, <1>6, <1>7 DEF Sound, Ready

=============================================================================
