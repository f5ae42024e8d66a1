---------------------------- MODULE DistSyncData ----------------------------
(***************************************************************************)
(* The packets between the processes of distributed gem5: what the barrier *)
(* makes sure of about the packets on the links.  A checkpoint is          *)
(* consistent, a packet arrives in the quantum it was sent in, and its     *)
(* receive event can be scheduled.                                         *)
(***************************************************************************)
EXTENDS DistSyncSound

-----------------------------------------------------------------------------
(* The packets on the links                                                *)

\* The packets in a channel, and those behind which no message of a kind has been sent.
Data(q) == Msgs(q, "dataDescriptor")
Late(q, kind) ==
    {q[k] : k \in {j \in DOMAIN q : /\ q[j].kind = "dataDescriptor"
                                    /\ \A l \in DOMAIN q : l > j => q[l].kind # kind}}

\* The message of a barrier that an end receives.
Told(i) == IF i[2] = "node" THEN "cmdSyncAck" ELSE "cmdSyncReq"

LEMMA LinkEnds ==
    ASSUME NEW i \in Iface
    PROVE  /\ Owner(i) \in Proc /\ Owner(Peer(i)) \in Proc /\ Owner(i) # Owner(Peer(i))
           /\ i[2] = "node" => /\ Owner(i) \in Node /\ i = <<Owner(i), "node">> /\ Owner(Peer(i)) = Switch
                               /\ Told(i) = "cmdSyncAck"
           /\ i[2] # "node" => /\ Owner(i) = Switch /\ i = <<Owner(Peer(i)), "switch">> /\ Owner(Peer(i)) \in Node
                               /\ Told(i) = "cmdSyncReq"
<1>1. Owner(i) \in Proc /\ Owner(Peer(i)) \in Proc /\ Owner(i) # Owner(Peer(i))
  BY Zenon, Ends
<1>2. i[1] \in Node /\ i = <<i[1], i[2]>> /\ i[2] \in {"node", "switch"}
  BY Zenon, Ends
<1>3. Owner(<<i[1], "node">>) = i[1] /\ Owner(<<i[1], "switch">>) = Switch
  BY Zenon, <1>2, Ends
<1> QED BY Zenon, <1>1, <1>2, <1>3 DEF Owner, Peer, Told

LEMMA LateAppend ==
    ASSUME NEW q \in Seq(Message), NEW m \in Message, NEW kind, kind # "dataDescriptor"
    PROVE  /\ m.kind = kind => Late(Append(q, m), kind) = {}
           /\ m.kind # "dataDescriptor" => Late(Append(q, m), kind) \subseteq Late(q, kind)
           /\ Late(Append(q, m), kind) \subseteq Late(q, kind) \cup {m}
<1> DEFINE T == Message
           r == Append(q, m)
<1>1. q \in Seq(T) /\ m \in T
  BY Zenon
<1> HIDE DEF T
<1>2. /\ DOMAIN q = 1 .. Len(q) /\ Len(q) \in Nat /\ DOMAIN r = 1 .. Len(q) + 1
      /\ r[Len(q) + 1] = m /\ \A k \in 1 .. Len(q) : r[k] = q[k]
  BY <1>1
<1> HIDE DEF r
<1>3. ASSUME NEW x \in Late(r, kind)
      PROVE  (x \in Late(q, kind) /\ m.kind # kind) \/ (x = m /\ m.kind = "dataDescriptor")
  <2>1. PICK j \in DOMAIN r : x = r[j] /\ r[j].kind = "dataDescriptor" /\ \A l \in DOMAIN r : l > j => r[l].kind # kind
    BY Zenon DEF Late
  <2>2. CASE j = Len(q) + 1
    BY Zenon, <1>2, <2>1, <2>2
  <2>3. CASE j # Len(q) + 1
    <3>1. j \in DOMAIN q /\ r[j] = q[j] /\ Len(q) + 1 \in DOMAIN r /\ Len(q) + 1 > j
      BY <1>2, <2>3
    <3>2. m.kind # kind
      BY Zenon, <1>2, <2>1, <3>1
    <3>3. \A l \in DOMAIN q : l \in DOMAIN r /\ r[l] = q[l]
      BY <1>2
    <3>4. \A l \in DOMAIN q : l > j => q[l].kind # kind
      BY Zenon, <2>1, <3>3
    <3>5. x \in Late(q, kind)
      BY Zenon, <2>1, <3>1, <3>4 DEF Late
    <3> QED BY Zenon, <3>2, <3>5
  <2> QED BY Zenon, <2>2, <2>3
<1>4. m.kind = kind => Late(r, kind) = {}
  BY Zenon, <1>3
<1>5. m.kind # "dataDescriptor" => Late(r, kind) \subseteq Late(q, kind)
  BY Zenon, <1>3
<1>6. Late(r, kind) \subseteq Late(q, kind) \cup {m}
  BY Zenon, <1>3
<1> QED BY Zenon, <1>4, <1>5, <1>6 DEF r

LEMMA LateTail ==
    ASSUME NEW q \in Seq(Message), q # <<>>, NEW kind
    PROVE  Late(Tail(q), kind) \subseteq Late(q, kind)
<1> DEFINE T == Message
           r == Tail(q)
<1>1. q \in Seq(T)
  BY Zenon
<1> HIDE DEF T
<1>2. /\ DOMAIN q = 1 .. Len(q) /\ Len(q) \in Nat /\ Len(q) > 0 /\ DOMAIN r = 1 .. Len(q) - 1
      /\ \A k \in 1 .. Len(q) - 1 : r[k] = q[k + 1]
  BY <1>1
<1> HIDE DEF r
<1>3. ASSUME NEW x \in Late(r, kind) PROVE x \in Late(q, kind)
  <2>1. PICK j \in DOMAIN r : x = r[j] /\ r[j].kind = "dataDescriptor" /\ \A l \in DOMAIN r : l > j => r[l].kind # kind
    BY Zenon DEF Late
  <2>2. j + 1 \in DOMAIN q /\ r[j] = q[j + 1]
    BY <1>2
  <2>3. \A l \in DOMAIN q : l > j + 1 => l - 1 \in DOMAIN r /\ l - 1 > j /\ r[l - 1] = q[l]
    BY <1>2
  <2>4. \A l \in DOMAIN q : l > j + 1 => q[l].kind # kind
    BY Zenon, <2>1, <2>3
  <2> QED BY Zenon, <2>1, <2>2, <2>4 DEF Late
<1> QED BY Zenon, <1>3 DEF r

LEMMA LateData ==
    ASSUME NEW q, NEW kind
    PROVE  Late(q, kind) \subseteq Data(q) /\ (Msgs(q, kind) = {} => Data(q) \subseteq Late(q, kind))
<1>1. Late(q, kind) \subseteq Data(q)
  BY Zenon DEF Late, Data, Msgs
<1>2. ASSUME Msgs(q, kind) = {}
      PROVE  Data(q) \subseteq Late(q, kind)
  <2>1. \A l \in DOMAIN q : q[l].kind # kind
    BY Zenon, <1>2 DEF Msgs
  <2> QED BY Zenon, <2>1 DEF Late, Data, Msgs
<1> QED BY Zenon, <1>1, <1>2

\* The packet that the other end of i's link sends in this step.
Sent(i, m) ==
    LET s == Owner(Peer(i))
    IN  /\ m \in DataMessage /\ pc[s] \in {"run", "drain"} /\ (pc[s] = "run" => ~ exiting[s])
        /\ (setup.quiet => caller[s] \in {"periodic", "ckpt"})
        /\ tick'[s] = tick[s] + 1 /\ m.sendTick = tick[s] + 1 /\ m.epoch = wrote[s] /\ m.sendDelay \in SendDelay
        /\ txFree[Peer(i)] <= m.sendTick /\ txFree'[Peer(i)] = m.sendTick + m.sendDelay

\* What a step does to the channels, and to one of them.
ChannelStep ==
    \/ in' = in
    \/ \E p : in' = closed(in, p)
    \/ \E to : \E m \in Message :
         in' = deliver(in, to, m) /\ (m.kind = "dataDescriptor" => \A i \in Iface : i \in to => Sent(i, m))
    \/ \E to : \E m \in Message : m.kind # "dataDescriptor" /\ in' = closed(deliver(in, to, m), Switch)
    \/ \E i \in Iface : in[i] # <<>> /\ in' = [in EXCEPT ![i] = Tail(@)]
LinkStep(i) ==
    \/ in'[i] = in[i]
    \/ \E m \in Message : in'[i] = Append(in[i], m) /\ (m.kind = "dataDescriptor" => Sent(i, m))
    \/ \E m \in Message : m.kind # "dataDescriptor" /\ in'[i] = Append(Append(in[i], m), [kind |-> "closed"])
    \/ in[i] # <<>> /\ in'[i] = Tail(in[i])

LEMMA RunChannels ==
    ASSUME Types, NEW p \in Proc, NEW who, run(p, who)
    PROVE  ChannelStep
<1>1. CASE in' = in
  BY Zenon, <1>1 DEF ChannelStep
<1>2. CASE p # Switch /\ nodeRun(p)
  <2> DEFINE m == [kind |-> "cmdSyncReq", sendTick |-> tick[p], syncRepeat |-> sync[p].nextRepeat, need |-> need[p]]
  <2>1. p \in Node
    BY Zenon, <1>2 DEF Proc
  <2>2. m \in SyncMessage
    BY Zenon, <2>1 DEF SyncMessage, Types, SyncTypes, SimTypes, SyncType
  <2>3. m \in Message /\ m.kind # "dataDescriptor" /\ in' = deliver(in, {<<p, "switch">>}, m)
    BY Zenon, <1>2, <2>2, MessageTypes DEF nodeRun
  <2> HIDE DEF m
  <2> QED BY Zenon, <2>3 DEF ChannelStep
<1>3. CASE in' = closed(in, p)
  BY Zenon, <1>3 DEF ChannelStep
<1> QED BY Zenon, <1>1, <1>2, <1>3 DEF run, sendFails, stops

LEMMA SimChannels ==
    ASSUME Types, Regular, NEW p \in Proc, SimThread(p) \/ kill(p)
    PROVE  ChannelStep
<1>1. CASE \E who : run(p, who)
  BY Zenon, <1>1, RunChannels
<1>2. CASE in' = in \/ in' = closed(in, p)
  BY Zenon, <1>2 DEF ChannelStep
<1>3. CASE simulate(p)
  <2>1. ASSUME NEW i \in ends(p), NEW d \in SendDelay, txFree[i] <= tick[p] + 1,
               txFree' = [txFree EXCEPT ![i] = tick[p] + 1 + d],
               in' = deliver(in, {Peer(i)}, [kind |-> "dataDescriptor", sendTick |-> tick[p] + 1,
                                             sendDelay |-> d, epoch |-> wrote[p]]),
               setup.quiet => caller[p] \in {"periodic", "ckpt"}
        PROVE  ChannelStep
    <3> DEFINE m == [kind |-> "dataDescriptor", sendTick |-> tick[p] + 1, sendDelay |-> d, epoch |-> wrote[p]]
               j == Peer(i)
    <3>1. m \in DataMessage
      BY TimeAssumption DEF DataMessage, Types, SimTypes, HistoryTypes
    <3>2. /\ m \in Message /\ m.kind = "dataDescriptor" /\ m.sendTick = tick[p] + 1 /\ m.sendDelay = d
          /\ m.epoch = wrote[p]
      BY Zenon, <3>1, MessageTypes
    <3>3. i \in Iface /\ Owner(i) = p /\ j \in Iface /\ Peer(j) = i
      BY Zenon, Ends DEF ends
    <3>4. pc[p] \in {"run", "drain"} /\ (pc[p] = "run" => ~ exiting[p]) /\ tick'[p] = tick[p] + 1 /\ txFree'[i] = tick[p] + 1 + d
      BY Zenon, <1>3, <2>1, <3>3 DEF simulate, Types, SimTypes, LinkTypes
    <3> HIDE DEF m, j
    <3>5. Sent(j, m)
      BY Zenon, <2>1, <3>1, <3>2, <3>3, <3>4 DEF Sent
    <3>6. in' = deliver(in, {j}, m)
      BY Zenon, <2>1 DEF m, j
    <3>7. \A k \in Iface : k \in {j} => Sent(k, m)
      BY Zenon, <3>5
    <3> QED BY Zenon, <3>2, <3>6, <3>7 DEF ChannelStep
  <2> QED BY Zenon, <1>2, <1>3, <2>1 DEF simulate, sendFails, stops
<1>4. ~ (setup.pseudoOp /\ p # Switch)
  BY Zenon DEF Regular
<1> QED BY Zenon, <1>1, <1>2, <1>3, <1>4 DEF SimThread, startup, start, receiveResumed, process, enterPeriodic,
      drainComplete, startDone, processDone, ckptDone, aborted, leave, kill, stops

LEMMA Channel ==
    ASSUME Types, Regular, [Next]_vars
    PROVE  ChannelStep
<1>1. CASE \E p \in Proc : SimThread(p) \/ kill(p)
  BY Zenon, <1>1, SimChannels
<1>2. CASE in' = in
  BY Zenon, <1>2 DEF ChannelStep
<1>3. CASE acknowledge
  <2> DEFINE do == [w \in Wish |-> sync[Switch].do[w] \/ num[w] = Cardinality(Node)]
             m == [kind |-> "cmdSyncAck", sendTick |-> sync[Switch].nextAt, syncRepeat |-> sync[Switch].nextRepeat,
                   need |-> [w \in Wish |-> IF do[w] THEN "immediate" ELSE "none"]]
  <2>1. m \in SyncMessage
    BY Zenon, Ends DEF SyncMessage, Types, SyncTypes, SyncType, ReqType
  <2>2. m \in Message /\ m.kind # "dataDescriptor"
    BY Zenon, <2>1, MessageTypes
  <2>3. \/ in' = deliver(in, peers(Switch), m)
        \/ \E to : in' = closed(deliver(in, to, m), Switch)
    BY Zenon, <1>3 DEF acknowledge
  <2> HIDE DEF m
  <2> QED BY Zenon, <2>2, <2>3 DEF ChannelStep
<1>4. CASE \E i \in Iface : RecvThread(i)
  BY Zenon, <1>4 DEF RecvThread, pushPacket, connectionLost, receives, ChannelStep
<1>5. CASE \E n \in Node : nodeProgress(n) \/ switchProgress(n)
  BY Zenon, <1>5, Ends DEF nodeProgress, switchProgress, receives, ChannelStep
<1>6. CASE \E n \in Node : Workload(n)
  <2>1. PICK n \in Node : Workload(n)
    BY Zenon, <1>6
  <2>2. readyToCkpt(n) \/ readyToExit(n)
    BY Zenon, <2>1 DEF Workload, toggleSync, Regular
  <2>3. CASE readyToCkpt(n)
    BY Zenon, <2>3, <1>2 DEF readyToCkpt, linkVars
  <2>4. CASE readyToExit(n)
    BY Zenon, <2>4, <1>2, RunChannels, Ends DEF readyToExit, start
  <2> QED BY Zenon, <2>2, <2>3, <2>4
<1>7. ~ restore
  BY Zenon DEF restore, Regular
<1>8. CASE UNCHANGED vars
  BY Zenon, <1>2, <1>8 DEF vars, linkVars
<1> QED BY Zenon, <1>1, <1>3, <1>4, <1>5, <1>6, <1>7, <1>8 DEF Next

LEMMA Link ==
    ASSUME Types, Regular, [Next]_vars, NEW i \in Iface
    PROVE  LinkStep(i)
<1> DEFINE c == [kind |-> "closed"]
<1>0. in \in [Iface -> Seq(Message)] /\ c \in Message /\ c.kind # "dataDescriptor"
  BY Zenon DEF Types, LinkTypes, Message
<1>1. ChannelStep
  BY Zenon, Channel
<1>2. CASE in' = in
  BY Zenon, <1>2 DEF LinkStep
<1>3. ASSUME NEW ch, NEW p PROVE closed(ch, p)[i] \in {ch[i], Append(ch[i], c)}
  BY Zenon DEF closed
<1>4. ASSUME NEW to, NEW m \in Message
      PROVE  deliver(in, to, m)[i] = in[i] \/ (i \in to /\ deliver(in, to, m)[i] = Append(in[i], m))
  BY Zenon DEF deliver
<1> HIDE DEF c
<1>5. ASSUME NEW p, in' = closed(in, p) PROVE LinkStep(i)
  BY Zenon, <1>0, <1>3, <1>5 DEF LinkStep
<1>6. ASSUME NEW to, NEW m \in Message, in' = deliver(in, to, m),
             m.kind = "dataDescriptor" => \A j \in Iface : j \in to => Sent(j, m)
      PROVE  LinkStep(i)
  BY Zenon, <1>4, <1>6 DEF LinkStep
<1>7. ASSUME NEW to, NEW m \in Message, m.kind # "dataDescriptor", in' = closed(deliver(in, to, m), Switch)
      PROVE  LinkStep(i)
  <2> DEFINE ch == deliver(in, to, m)
  <2>1. in'[i] \in {ch[i], Append(ch[i], c)}
    BY Zenon, <1>3, <1>7
  <2>2. ch[i] = in[i] \/ ch[i] = Append(in[i], m)
    BY Zenon, <1>4
  <2> HIDE DEF ch
  <2> QED BY Zenon, <1>0, <1>7, <2>1, <2>2 DEF LinkStep, c
<1>8. ASSUME NEW j \in Iface, in[j] # <<>>, in' = [in EXCEPT ![j] = Tail(@)] PROVE LinkStep(i)
  BY Zenon, <1>0, <1>8 DEF LinkStep
<1> QED BY Zenon, <1>1, <1>2, <1>5, <1>6, <1>7, <1>8 DEF ChannelStep

\* What a step does to the packets of a link.
LEMMA PacketStep ==
    ASSUME Types, Regular, [Next]_vars, NEW i \in Iface
    PROVE  /\ \A m \in Data(in'[i]) : m \in Data(in[i]) \/ Sent(i, m)
           /\ \A m \in Late(in'[i], Told(i)) : m \in Late(in[i], Told(i)) \/ Sent(i, m)
           /\ Msgs(in[i], Told(i)) = {} /\ Msgs(in'[i], Told(i)) # {} => Late(in'[i], Told(i)) = {}
<1> DEFINE q == in[i]
           K == Told(i)
           c == [kind |-> "closed"]
           Goal(r) == /\ \A m \in Data(r) : m \in Data(q) \/ Sent(i, m)
                      /\ \A m \in Late(r, K) : m \in Late(q, K) \/ Sent(i, m)
                      /\ Msgs(q, K) = {} /\ Msgs(r, K) # {} => Late(r, K) = {}
<1>0. q \in Seq(Message) /\ c \in Message /\ c.kind # "dataDescriptor" /\ c.kind # K /\ K # "dataDescriptor"
  BY Zenon DEF Types, LinkTypes, Message, Told
<1> HIDE DEF q, K, c
<1>1. Goal(q)
  BY Zenon
<1>2. ASSUME NEW r \in Seq(Message), NEW m \in Message, m.kind # "dataDescriptor"
      PROVE  /\ Data(Append(r, m)) = Data(r) /\ Late(Append(r, m), K) \subseteq Late(r, K)
             /\ m.kind # K => Msgs(Append(r, m), K) = Msgs(r, K)
             /\ m.kind = K => Late(Append(r, m), K) = {}
  <2>1. Msgs(Append(r, m), "dataDescriptor") = Msgs(r, "dataDescriptor")
    BY Zenon, <1>2, MsgsAppend
  <2>2. m.kind # K => Msgs(Append(r, m), K) = Msgs(r, K)
    BY Zenon, <1>2, MsgsAppend
  <2>3. /\ Late(Append(r, m), K) \subseteq Late(r, K)
        /\ m.kind = K => Late(Append(r, m), K) = {}
    BY Zenon, <1>0, <1>2, LateAppend
  <2> QED BY Zenon, <2>1, <2>2, <2>3 DEF Data
<1>3. ASSUME NEW m \in Message, m.kind # "dataDescriptor"
      PROVE  Goal(Append(q, m))
  BY Zenon, <1>0, <1>2, <1>3
<1>4. ASSUME NEW m \in Message, m.kind = "dataDescriptor", Sent(i, m)
      PROVE  Goal(Append(q, m))
  <2>1. Msgs(Append(q, m), "dataDescriptor") = Msgs(q, "dataDescriptor") \cup {m}
    BY <1>0, <1>4, MsgsAppend
  <2>2. Msgs(Append(q, m), K) = Msgs(q, K)
    BY <1>0, <1>4, MsgsAppend
  <2>3. Late(Append(q, m), K) \subseteq Late(q, K) \cup {m}
    BY Zenon, <1>0, LateAppend
  <2> QED BY Zenon, <1>4, <2>1, <2>2, <2>3 DEF Data
<1>5. ASSUME NEW m \in Message, m.kind # "dataDescriptor"
      PROVE  Goal(Append(Append(q, m), c))
  <2> DEFINE r == Append(q, m)
  <2>1. r \in Seq(Message)
    <3> DEFINE T == Message
    <3>1. q \in Seq(T) /\ m \in T
      BY Zenon, <1>0
    <3> HIDE DEF T
    <3>2. Append(q, m) \in Seq(T)
      BY <3>1
    <3> QED BY Zenon, <3>2 DEF T
  <2>2. /\ Data(r) = Data(q) /\ Late(r, K) \subseteq Late(q, K)
        /\ m.kind # K => Msgs(r, K) = Msgs(q, K)
        /\ m.kind = K => Late(r, K) = {}
    BY Zenon, <1>0, <1>2, <1>5
  <2> HIDE DEF r
  <2>3. /\ Data(Append(r, c)) = Data(r) /\ Late(Append(r, c), K) \subseteq Late(r, K)
        /\ Msgs(Append(r, c), K) = Msgs(r, K)
    BY Zenon, <1>0, <1>2, <2>1
  <2>4. Goal(Append(r, c))
    BY Zenon, <2>2, <2>3
  <2> QED BY Zenon, <2>4 DEF r
<1>6. ASSUME q # <<>> PROVE Goal(Tail(q))
  <2>1. Msgs(Tail(q), "dataDescriptor") \subseteq Msgs(q, "dataDescriptor") /\ Msgs(Tail(q), K) \subseteq Msgs(q, K)
    BY Zenon, <1>0, <1>6, MsgsTail
  <2>2. Late(Tail(q), K) \subseteq Late(q, K)
    BY Zenon, <1>0, <1>6, LateTail
  <2> QED BY Zenon, <1>6, <2>1, <2>2 DEF Data
<1>7. LinkStep(i)
  BY Zenon, Link
<1>8. Goal(in'[i])
  <2> HIDE DEF Goal
  <2> QED BY Zenon, <1>1, <1>3, <1>4, <1>5, <1>6, <1>7 DEF LinkStep, q, c
<1> QED BY Zenon, <1>8 DEF q, K

-----------------------------------------------------------------------------
(* A checkpoint is consistent: no packet that was sent before it is on a   *)
(* link when it is written                                                 *)

\* A node that waits in a barrier has sent nothing behind its request.
SendInv ==
    \A n \in Node : ~ gone(Switch) /\ W(n) = 1 /\ Ack(n) = {} /\ pc[n] \in {"wait"} \cup Stopped
                      => Late(in[<<n, "switch">>], "cmdSyncReq") = {}

\* The checkpoints that a process has written or has been told to write.
NoneGone == \A p \in Proc : ~ gone(p)
Saving(p) == Answered(p) /\ caller[p] = "ckpt"
Epoch(p) == IF Saving(p) THEN wrote[p] + 1 ELSE wrote[p]
EpochInv == NoneGone => \A p, q \in Proc : Epoch(p) = Epoch(q)

\* The packets that arrive at an end after the answer to the barrier it is in.
Pending(i) == IF i[2] = "node" THEN Late(in[i], "cmdSyncAck") ELSE Data(in[i])
DrainInv ==
    NoneGone => \A i \in Iface : Saving(Owner(i)) => \A m \in Pending(i) : m.epoch > wrote[Owner(i)]

Consistent == Sound /\ SendInv /\ EpochInv /\ DrainInv

LEMMA SendStep ==
    ASSUME Sound, SendInv, Step, [Next]_vars
    PROVE  SendInv'
<1> SUFFICES ASSUME NEW n \in Node, ~ gone(Switch)', W(n)' = 1, Ack(n)' = {}, pc'[n] \in {"wait"} \cup Stopped
             PROVE  Late(in'[<<n, "switch">>], "cmdSyncReq") = {}
  BY Zenon DEF SendInv, gone
<1> DEFINE a == <<n, "switch">>
<1>1. a \in Iface /\ Owner(Peer(a)) = n /\ Told(a) = "cmdSyncReq" /\ n \in Proc /\ n # Switch /\ Switch \in Proc
  BY Zenon, Ends DEF Told
<1>2. /\ \A m \in Late(in'[a], "cmdSyncReq") : m \in Late(in[a], "cmdSyncReq") \/ Sent(a, m)
      /\ Req(n) = {} /\ Req(n)' # {} => Late(in'[a], "cmdSyncReq") = {}
  BY Zenon, <1>1, PacketStep DEF Sound, Ready, Req
<1>3. NodeInv(n) /\ ~ gone(Switch) /\ W(n) \in Int
  BY Zenon, <1>1, Fields DEF Sound, Ready, Step, StayGone
<1> HIDE DEF a
<1>4. CASE W(n) = 1 /\ Ack(n) = {} /\ pc[n] \in {"wait"} \cup Stopped
  <2>1. Late(in[a], "cmdSyncReq") = {}
    BY Zenon, <1>3, <1>4 DEF SendInv, a
  <2>2. \A m : ~ Sent(a, m)
    BY Zenon, <1>1, <1>4 DEF Sent, Stopped
  <2> QED BY Zenon, <1>2, <2>1, <2>2 DEF a
<1>5. CASE \E who \in {"startup", "periodic", "ckpt"} : Enters(n, who)
  <2>1. Req(n)' = {Request(n)} /\ pc[n] \in {"startup", "event", "drain"}
    BY Zenon, <1>1, <1>3, <1>5 DEF Enters, RunEnters, Sends
  <2>2. Req(n) = {}
    BY Zenon, <1>3, <2>1 DEF NodeInv, Stopped
  <2> QED BY Zenon, <1>2, <2>1, <2>2 DEF a
<1>6. ASSUME ~ (W(n) = 1 /\ Ack(n) = {} /\ pc[n] \in {"wait"} \cup Stopped)
      PROVE  \E who \in {"startup", "periodic", "ckpt"} : Enters(n, who)
  <2>1. CASE Keeps(n) /\ Ack(n)' = Ack(n)
    BY Zenon, <1>6, <2>1 DEF Keeps, W
  <2>2. CASE SimStep(n)
    <3>1. CASE Halts(n)
      <4>1. W(n) = 1 /\ Ack(n) = {} /\ ~ gone(n)
        BY Zenon, <3>1 DEF Halts, W, KeepsMsgs
      <4>2. pc[n] = "wait"
        BY SMT, <1>1, <1>3, <4>1, Fields DEF NodeInv, gone, PC, Sound, Ready
      <4> QED BY Zenon, <1>6, <4>1, <4>2
    <3>2. CASE Loses(n)
      BY <3>2 DEF Loses
    <3>3. CASE Ticks(n) \/ Fires(n) \/ Starts(n) \/ Passes(n) \/ Resumes(n)
      <4>1. pc'[n] \in {"run", "event", "drain"}
        BY Zenon, <3>3 DEF Ticks, Fires, Starts, Passes, Resumes
      <4> QED BY Zenon, <4>1 DEF Stopped
    <3> QED BY Zenon, <2>2, <3>1, <3>2, <3>3 DEF SimStep
  <2>3. CASE Hears(n)
    <3>1. PICK m \in SyncMessage : ~ gone(n) /\ ~ Ab(n) /\ Ack(n) = {m} /\ W(n)' = W(n) - 1
      BY Zenon, <2>3 DEF Hears
    <3>2. W(n) = 1
      BY Zenon, <1>3, <3>1 DEF NodeInv
    <3> QED BY <3>1, <3>2
  <2>4. ASSUME NEW q \in Proc, q # n, SimStep(q) PROVE Keeps(n) /\ Ack(n)' = Ack(n)
    <3>1. CASE \E who \in {"startup", "periodic", "ckpt"} : Enters(q, who)
      BY Zenon, <1>1, <2>4, <3>1 DEF Enters, RunEnters, Sends, KeepsMsgs, SimStep, Rest, Proc
    <3> QED BY Zenon, <1>1, <2>4, <3>1 DEF SimStep, Rest, Halts, Ticks, Fires, Starts, Passes, Resumes, Loses, KeepsMsgs
  <2>5. ASSUME NEW k \in Node, NodeStep(k), ~ (k = n /\ Hears(n)) PROVE Keeps(n) /\ Ack(n)' = Ack(n)
    BY Zenon, <1>1, <2>5 DEF NodeStep, Rest, Asks, Hears, Ignores, Collects, Takes, KeepsMsgs
  <2>6. CASE Still
    BY Zenon, <1>1, <2>1, <2>6 DEF Still, KeepsMsgs
  <2>7. CASE Decides
    <3>1. pc[Switch] = "wait" /\ W(Switch) = 0 /\ ~ Ab(Switch)
      BY Zenon, <2>7 DEF Decides
    <3>2. Joined(n, caller[Switch], When(Switch))
      BY Zenon, <3>1, DecideFacts
    <3> QED BY Zenon, <1>6, <3>2 DEF Joined
  <2> QED BY Zenon, <2>1, <2>2, <2>3, <2>4, <2>5, <2>6, <2>7 DEF Step
<1> QED BY Zenon, <1>4, <1>5, <1>6

\* A process writes a checkpoint when it comes back from the barrier for it.
LEMMA WroteStep ==
    ASSUME Types, Regular, [Next]_vars, NEW p \in Proc
    PROVE  /\ wrote'[p] # wrote[p] => /\ wrote'[p] = wrote[p] + 1 /\ caller[p] = "ckpt" /\ pc'[p] = "run"
                                      /\ completed(p) \/ Ab(p)
           /\ completed(p) /\ caller[p] = "ckpt" /\ pc'[p] = "run" => wrote'[p] = wrote[p] + 1
<1>f. wrote \in [Proc -> Nat] /\ pc \in [Proc -> PC]
  BY Zenon DEF Types, HistoryTypes, SimTypes
<1>1. CASE ckptDone(p) \/ aborted(p)
  BY SMTT(30), <1>f, <1>1 DEF ckptDone, aborted, stops, completed, Ab, Starting
<1>2. CASE \E q \in Proc : q # p /\ (ckptDone(q) \/ aborted(q))
  BY Zenon, <1>f, <1>2 DEF ckptDone, aborted, stops, completed
<1> DEFINE Other == wrote' = wrote /\ (pc'[p] # "run" \/ pc'[p] = pc[p] \/ caller[p] # "ckpt" \/ ~ completed(p))
<1>3. CASE Other
  BY Zenon, <1>3 DEF completed
<1>4. ASSUME NEW q, NEW why, stops(q, why), why \in Stopped PROVE pc'[p] # "run" \/ pc'[p] = pc[p]
  BY Zenon, <1>f, <1>4 DEF stops, Stopped
<1>5. ASSUME NEW q, NEW who, run(q, who) PROVE pc'[p] # "run" \/ pc'[p] = pc[p]
  BY Zenon, <1>f, <1>4, <1>5 DEF run, nodeRun, sendFails, Stopped
<1>6. ASSUME NEW q \in Proc, SimThread(q) \/ kill(q) PROVE Other \/ ckptDone(q) \/ aborted(q)
  <2>1. CASE startup(q)
    BY Zenon, <1>5, <2>1 DEF startup, start, Regular
  <2>2. CASE simulate(q)
    BY Zenon, <1>4, <2>2 DEF simulate, sendFails, Stopped
  <2>3. CASE receiveResumed(q)
    BY Zenon, <2>3 DEF receiveResumed, simVars, history
  <2>4. CASE process(q)
    BY Zenon, <1>f, <1>4, <2>4 DEF process, history, Stopped
  <2>5. CASE enterPeriodic(q)
    BY Zenon, <1>5, <2>5 DEF enterPeriodic
  <2>6. CASE drainComplete(q)
    BY Zenon, <1>5, <2>6 DEF drainComplete
  <2>7. CASE startDone(q) \/ processDone(q)
    <3>1. wrote' = wrote
      BY Zenon, <2>7 DEF startDone, processDone, history
    <3>2. CASE q = p
      BY Zenon, <2>7, <3>1, <3>2 DEF startDone, processDone, Starting
    <3>3. CASE q # p
      BY Zenon, <1>f, <2>7, <3>1, <3>3 DEF startDone, processDone, stops
    <3> QED BY Zenon, <3>2, <3>3
  <2>8. CASE leave(q) \/ kill(q)
    BY Zenon, <1>4, <2>8 DEF leave, kill, history, Stopped
  <2> QED BY Zenon, <1>6, <2>1, <2>2, <2>3, <2>4, <2>5, <2>6, <2>7, <2>8 DEF SimThread
<1>7. ASSUME acknowledge PROVE Other
  BY Zenon, <1>f, <1>7 DEF acknowledge, history
<1>8. ASSUME \E i \in Iface : RecvThread(i) PROVE Other
  BY Zenon, <1>8 DEF RecvThread, pushPacket, connectionLost, simVars, history
<1>9. ASSUME \E n \in Node : nodeProgress(n) \/ switchProgress(n) PROVE Other
  BY Zenon, <1>9 DEF nodeProgress, switchProgress, simVars, history
<1>10. ASSUME \E n \in Node : Workload(n) PROVE Other
  BY Zenon, <1>5, <1>10 DEF Workload, readyToCkpt, readyToExit, toggleSync, start, simVars
<1>11. ~ restore
  BY Zenon DEF restore, Regular
<1>12. ASSUME UNCHANGED vars PROVE Other
  BY Zenon, <1>12 DEF vars, simVars, history
<1> HIDE DEF Other
<1> QED BY Zenon, <1>1, <1>2, <1>3, <1>6, <1>7, <1>8, <1>9, <1>10, <1>11, <1>12 DEF Next

LEMMA NoneGoneFacts ==
    ASSUME Sound, Step, NoneGone'
    PROVE  NoneGone /\ \A p \in Proc : ~ Ab(p)
<1>1. NoneGone
  BY Zenon DEF Step, StayGone, NoneGone, gone
<1> QED BY Zenon, <1>1, Procs DEF NoneGone, Sound, Ready, NodeInv, SwitchInv, Proc

\* The decision answers every process.
LEMMA DecideStep ==
    ASSUME Sound, Step, Rest(Switch), Decides, NoneGone'
    PROVE  /\ \A p \in Proc : /\ ~ Answered(p) /\ Answered(p)' /\ caller'[p] = caller[Switch]
                              /\ caller[p] = caller[Switch] /\ tick'[p] = tick[p]
                              /\ pc'[p] # "run"
           /\ \A n \in Node : Req(n) = {} /\ Ack(n) = {} /\ Ack(n)' # {} /\ W(n) = 1 /\ pc[n] = "wait"
<1>1. PICK m \in SyncMessage :
        /\ pc[Switch] = "wait" /\ W(Switch) = 0 /\ ~ Ab(Switch) /\ pc'[Switch] \in {"acked", "panic"}
        /\ tick'[Switch] = tick[Switch] /\ caller'[Switch] = caller[Switch]
        /\ pc'[Switch] = "acked" => \A n \in Node : ~ gone(n) => Ack(n)' = {m}
  BY Zenon DEF Decides
<1>2. \A n \in Node : Req(n) = {} /\ Joined(n, caller[Switch], When(Switch))
  BY Zenon, <1>1, DecideFacts
<1>3. NoneGone /\ pc'[Switch] = "acked"
  BY Zenon, <1>1, NoneGoneFacts, Procs DEF NoneGone, gone, Stopped
<1>4. ASSUME NEW n \in Node
      PROVE  /\ Ack(n) = {} /\ Ack(n)' # {} /\ W(n) = 1 /\ pc[n] = "wait" /\ caller[n] = caller[Switch]
             /\ pc'[n] = "wait" /\ caller'[n] = caller[n] /\ tick'[n] = tick[n] /\ n # Switch
  <2>1. n \in Proc /\ n # Switch /\ ~ gone(n) /\ Keeps(n)
    BY Zenon, <1>3, Procs DEF NoneGone, Rest
  <2> QED BY Zenon, <1>1, <1>2, <1>3, <2>1 DEF Joined, Keeps, gone
<1>5. ASSUME NEW n \in Node PROVE ~ Answered(n) /\ Answered(n)'
  <2>1. W(n) # 0
    BY <1>4
  <2> QED BY Zenon, <1>4, <2>1 DEF Answered
<1>6. ~ Answered(Switch) /\ Answered(Switch)'
  BY Zenon, <1>1, <1>3 DEF Answered
<1> QED BY Zenon, <1>1, <1>2, <1>3, <1>4, <1>5, <1>6 DEF Proc

\* An answered process stays answered until it is back from the barrier.
LEMMA SavingEnds ==
    ASSUME Sound, Step, NoneGone', NEW p \in Proc, Saving(p), ~ Saving(p)'
    PROVE  completed(p) /\ pc'[p] = "run"
<1>1. /\ Answered(p) /\ caller[p] = "ckpt" /\ NoneGone /\ ~ Ab(p) /\ ~ gone(p)'
      /\ (p # Switch => p \in Node /\ NodeInv(p)) /\ StayGone
  BY Zenon, NoneGoneFacts DEF Saving, NoneGone, Sound, Ready, Proc, Step
<1>2. pc[p] \in {"wait", "acked"} /\ (p = Switch => pc[p] = "acked") /\ (p # Switch => pc[p] = "wait")
  BY Zenon, <1>1 DEF Answered
<1>3. ~ (Keeps(p) /\ (p # Switch => Ack(p)' = Ack(p)))
  BY Zenon, <1>1 DEF Keeps, Saving, Answered, W, Ab
<1>4. CASE SimStep(p)
  BY Zenon, <1>1, <1>2, <1>4 DEF SimStep, Enters, Halts, Ticks, Fires, Starts, Passes, Resumes, Loses, NoneGone, gone, Proc
<1>5. ASSUME p # Switch, Hears(p) PROVE FALSE
  <2>1. PICK m \in SyncMessage : /\ ~ Ab(p) /\ Ack(p) = {m} /\ W(p)' = W(p) - 1 /\ ~ Ab(p)'
                                 /\ pc'[p] = pc[p] /\ caller'[p] = caller[p]
    BY Zenon, <1>5 DEF Hears
  <2>2. W(p) = 1
    BY Zenon, <1>1, <1>5, <2>1 DEF NodeInv, NoneGone
  <2>3. W(p)' = 0
    BY <2>1, <2>2
  <2> QED BY Zenon, <1>1, <1>2, <1>5, <2>1, <2>3 DEF Saving, Answered
<1>6. ASSUME p = Switch, \E n \in Node : Ignores(n) \/ Collects(n) PROVE FALSE
  BY Zenon, <1>1, <1>3, <1>6 DEF Ignores, Collects, Saving, Answered
<1>7. ASSUME NEW q \in Proc, q # p, SimStep(q) PROVE FALSE
  <2>1. CASE \E who \in {"startup", "periodic", "ckpt"} : Enters(q, who)
    BY Zenon, <1>1, <1>3, <1>7, <2>1 DEF Enters, RunEnters, Sends, KeepsMsgs, SimStep, Rest, Proc
  <2> QED BY Zenon, <1>1, <1>3, <1>7, <2>1 DEF SimStep, Rest, Halts, Ticks, Fires, Starts, Passes, Resumes, Loses, KeepsMsgs
<1>8. ASSUME NEW k \in Node, NodeStep(k) PROVE FALSE
  <2>1. CASE p = Switch
    BY Zenon, <1>3, <1>6, <1>8, <2>1, Procs DEF NodeStep, Rest
  <2>2. CASE p # Switch
    BY Zenon, <1>1, <1>3, <1>5, <1>8, <2>2 DEF NodeStep, Rest, Asks, Hears, Ignores, Collects, Takes, KeepsMsgs
  <2> QED BY Zenon, <2>1, <2>2
<1>9. ~ Still
  BY Zenon, <1>1, <1>3 DEF Still, KeepsMsgs
<1>10. ~ Decides
  <2>1. ASSUME Decides PROVE FALSE
    <3>1. pc[Switch] = "wait" /\ W(Switch) = 0 /\ ~ Ab(Switch)
      BY Zenon, <2>1 DEF Decides
    <3>2. p # Switch => Joined(p, caller[Switch], When(Switch))
      BY Zenon, <1>1, <3>1, DecideFacts
    <3>3. p # Switch => W(p) = 1 /\ Ack(p) = {}
      BY Zenon, <3>2 DEF Joined
    <3>4. p # Switch => W(p) # 0
      BY <3>3
    <3> QED BY Zenon, <1>1, <1>2, <3>1, <3>3, <3>4 DEF Answered
  <2> QED BY Zenon, <2>1
<1> QED BY Zenon, <1>4, <1>7, <1>8, <1>9, <1>10 DEF Step

LEMMA EpochStep ==
    ASSUME Sound, EpochInv, Step, [Next]_vars
    PROVE  EpochInv'
<1> SUFFICES ASSUME NoneGone' PROVE \A p, q \in Proc : Epoch(p)' = Epoch(q)'
  BY Zenon DEF EpochInv
<1>0. NoneGone /\ (\A p \in Proc : ~ Ab(p)) /\ \A p, q \in Proc : Epoch(p) = Epoch(q)
  BY Zenon, NoneGoneFacts DEF EpochInv
<1>w. \A p \in Proc : /\ wrote'[p] # wrote[p] => /\ wrote'[p] = wrote[p] + 1 /\ caller[p] = "ckpt" /\ pc'[p] = "run"
                                                 /\ completed(p)
                      /\ completed(p) /\ caller[p] = "ckpt" /\ pc'[p] = "run" => wrote'[p] = wrote[p] + 1
  BY Zenon, <1>0, WroteStep DEF Sound, Ready
<1>1. CASE ~ (Rest(Switch) /\ Decides)
  <2>1. ASSUME NEW p \in Proc PROVE Epoch(p)' = Epoch(p)
    <3>0. completed(p) /\ caller[p] = "ckpt" => Saving(p)
      BY Zenon DEF Saving, Answered, completed, W, Ab
    <3>1. CASE Saving(p)'
      <4>1. Saving(p) /\ pc'[p] # "run"
        BY Zenon, <1>1, <3>1, AnsweredStep DEF Saving, Answered
      <4> QED BY Zenon, <1>w, <3>1, <4>1 DEF Epoch
    <3>2. CASE ~ Saving(p)' /\ Saving(p)
      <4>1. completed(p) /\ pc'[p] = "run" /\ caller[p] = "ckpt"
        BY Zenon, <3>2, SavingEnds DEF Saving
      <4> QED BY Zenon, <1>w, <3>2, <4>1 DEF Epoch
    <3>3. CASE ~ Saving(p)' /\ ~ Saving(p)
      BY Zenon, <1>w, <3>0, <3>3 DEF Epoch
    <3> QED BY Zenon, <3>1, <3>2, <3>3
  <2> QED BY Zenon, <1>0, <2>1
<1>2. CASE Rest(Switch) /\ Decides
  <2>1. \A p \in Proc : /\ ~ Answered(p) /\ Answered(p)' /\ caller'[p] = caller[Switch]
                        /\ caller[p] = caller[Switch] /\ pc'[p] # "run"
    BY Zenon, <1>2, DecideStep
  <2>2. \A p \in Proc : wrote'[p] = wrote[p]
    BY Zenon, <1>w, <2>1
  <2>3. \A p \in Proc : Epoch(p) = wrote[p]
    BY Zenon, <2>1 DEF Epoch, Saving
  <2>4. \A p \in Proc : Epoch(p)' = IF caller[Switch] = "ckpt" THEN Epoch(p) + 1 ELSE Epoch(p)
    BY Zenon, <2>1, <2>2, <2>3 DEF Epoch, Saving
  <2> QED BY Zenon, <1>0, <2>4
<1> QED BY Zenon, <1>1, <1>2

LEMMA DrainStep ==
    ASSUME Consistent, Step, [Next]_vars
    PROVE  DrainInv'
<1> SUFFICES ASSUME NoneGone', NEW i \in Iface, Saving(Owner(i))', NEW m \in Pending(i)'
             PROVE  m.epoch > wrote'[Owner(i)]
  BY Zenon DEF DrainInv, Saving
<1> DEFINE r == Owner(i)
           s == Owner(Peer(i))
<1>0. /\ Sound /\ Types /\ Regular /\ r \in Proc /\ s \in Proc /\ r # s /\ wrote[r] \in Nat
      /\ i[2] = "node" => r \in Node /\ i = <<r, "node">> /\ Told(i) = "cmdSyncAck"
      /\ i[2] # "node" => r = Switch /\ s \in Node /\ i = <<s, "switch">> /\ Told(i) = "cmdSyncReq"
  <2>1. Sound /\ Types /\ Regular
    BY Zenon DEF Consistent, Sound, Ready
  <2>2. wrote \in [Proc -> Nat]
    BY Zenon, <2>1 DEF Types, HistoryTypes
  <2> QED BY Zenon, <2>1, <2>2, LinkEnds
<1>1. NoneGone /\ \A p \in Proc : ~ Ab(p)
  BY Zenon, <1>0, NoneGoneFacts
<1>2. /\ \A x \in Data(in'[i]) : x \in Data(in[i]) \/ Sent(i, x)
      /\ \A x \in Late(in'[i], Told(i)) : x \in Late(in[i], Told(i)) \/ Sent(i, x)
      /\ Msgs(in[i], Told(i)) = {} /\ Msgs(in'[i], Told(i)) # {} => Late(in'[i], Told(i)) = {}
  BY Zenon, <1>0, PacketStep
<1>3. wrote'[r] = wrote[r]
  <2>1. pc'[r] # "run"
    BY Zenon DEF Saving, Answered
  <2> QED BY Zenon, <1>0, <2>1, WroteStep
<1>4. m \in Pending(i) \/ Sent(i, m)
  BY Zenon, <1>0, <1>2 DEF Pending
<1> HIDE DEF r, s
<1>5. CASE ~ (Rest(Switch) /\ Decides)
  <2>1. Saving(r)
    BY Zenon, <1>0, <1>5, AnsweredStep DEF Saving, r
  <2>2. CASE m \in Pending(i)
    BY Zenon, <1>1, <1>3, <2>1, <2>2 DEF Consistent, DrainInv, r
  <2>3. CASE Sent(i, m)
    <3>1. tick'[s] = tick[s] + 1 /\ m.epoch = wrote[s] /\ tick[s] \in Nat
      BY Zenon, <1>0, <2>3, Fields DEF Sent, s
    <3>2. tick'[s] # tick[s]
      BY <3>1
    <3>3. ~ Answered(s)
      BY Zenon, <1>0, <3>2, ClockStep
    <3>4. wrote[s] = wrote[r] + 1
      BY Zenon, <1>0, <1>1, <2>1, <3>3 DEF Consistent, EpochInv, Epoch, Saving
    <3> QED BY <1>0, <1>3, <3>1, <3>4 DEF r
  <2> QED BY Zenon, <1>4, <2>2, <2>3
<1>6. CASE Rest(Switch) /\ Decides
  <2>1. /\ \A p \in Proc : tick'[p] = tick[p]
        /\ \A n \in Node : Req(n) = {} /\ Ack(n) = {} /\ Ack(n)' # {} /\ W(n) = 1 /\ pc[n] = "wait"
    BY Zenon, <1>0, <1>6, DecideStep
  <2>2. ~ Sent(i, m)
    <3>1. tick[s] \in Nat /\ tick'[s] = tick[s]
      BY Zenon, <1>0, <2>1, Fields
    <3>2. tick'[s] # tick[s] + 1
      BY <3>1
    <3> QED BY Zenon, <3>2 DEF Sent, s
  <2>3. CASE i[2] = "node"
    <3>1. Late(in'[i], Told(i)) = {}
      BY Zenon, <1>0, <1>2, <2>1, <2>3 DEF Ack
    <3> QED BY Zenon, <1>0, <2>3, <3>1 DEF Pending
  <2>4. CASE i[2] # "node"
    <3>1. m \in Data(in[i]) /\ Msgs(in[i], "cmdSyncReq") = {}
      BY Zenon, <1>0, <1>4, <2>1, <2>2, <2>4 DEF Pending, Req
    <3>2. Late(in[i], "cmdSyncReq") = {}
      BY Zenon, <1>0, <1>1, <2>1, <2>4, Procs DEF Consistent, SendInv, NoneGone
    <3> QED BY Zenon, <3>1, <3>2, LateData
  <2> QED BY Zenon, <2>3, <2>4
<1> QED BY Zenon, <1>5, <1>6

LEMMA ConsistentAlways == Consistent /\ [Next]_vars => Consistent'
<1> SUFFICES ASSUME Consistent, [Next]_vars PROVE Consistent'
  BY Zenon
<1>1. Sound' /\ Step /\ Sound
  BY Zenon, SoundStep DEF Consistent
<1> QED BY Zenon, <1>1, SendStep, EpochStep, DrainStep DEF Consistent

LEMMA ConsistentInit == Sound /\ Init => Consistent
<1> SUFFICES ASSUME Sound, Init PROVE Consistent
  BY Zenon
<1>1. \A i \in Iface : Data(in[i]) = {} /\ \A kind : Late(in[i], kind) = {}
  BY SMT DEF Init, Data, Msgs, Late
<1>2. \A p \in Proc : pc[p] = "startup" /\ wrote[p] = 0
  BY Zenon DEF Init
<1>3. \A p \in Proc : ~ Answered(p)
  BY Zenon, <1>2 DEF Answered
<1>4. SendInv
  BY Zenon, <1>1, Ends DEF SendInv
<1>5. \A p \in Proc : ~ Saving(p) /\ Epoch(p) = 0
  BY Zenon, <1>2, <1>3 DEF Epoch, Saving
<1>6. EpochInv /\ DrainInv
  BY Zenon, <1>5, Ends DEF EpochInv, DrainInv
<1> QED BY Zenon, <1>4, <1>6 DEF Consistent

LEMMA DrainedStep == Consistent /\ [Next]_vars => [\A i \in Iface :
         wrote'[Owner(i)] # wrote[Owner(i)] /\ (\A p \in Proc : ~ gone(p)) =>
           \A k \in DOMAIN in[i] : in[i][k].kind = "dataDescriptor" => in[i][k].epoch > wrote[Owner(i)]]_vars
<1> SUFFICES ASSUME Consistent, [Next]_vars, NEW i \in Iface, wrote'[Owner(i)] # wrote[Owner(i)], NoneGone,
                    NEW k \in DOMAIN in[i], in[i][k].kind = "dataDescriptor"
             PROVE  in[i][k].epoch > wrote[Owner(i)]
  BY Zenon DEF NoneGone
<1> DEFINE r == Owner(i)
<1>1. Sound /\ Types /\ Regular /\ r \in Proc /\ (i[2] = "node" => r \in Node /\ i = <<r, "node">> /\ r # Switch)
  <2>1. Sound /\ Types /\ Regular
    BY Zenon DEF Consistent, Sound, Ready
  <2> QED BY Zenon, <2>1, LinkEnds, Procs
<1>2. ~ Ab(r)
  BY Zenon, <1>1, Procs DEF NoneGone, Sound, Ready, NodeInv, SwitchInv, Proc
<1>3. completed(r) /\ caller[r] = "ckpt"
  BY Zenon, <1>1, <1>2, WroteStep
<1>4. Saving(r)
  BY Zenon, <1>3 DEF Saving, Answered, completed, W, Ab
<1>5. in[i][k] \in Data(in[i])
  BY Zenon DEF Data, Msgs
<1> HIDE DEF r
<1>6. in[i][k] \in Pending(i)
  <2>1. CASE i[2] = "node"
    <3>1. W(r) = 0 /\ NodeInv(r) /\ ~ gone(r)
      BY Zenon, <1>1, <1>3, <2>1 DEF completed, W, Sound, Ready, NoneGone
    <3>2. W(r) # 1
      BY <3>1
    <3>3. Ack(r) = {}
      BY Zenon, <1>2, <3>1, <3>2 DEF NodeInv
    <3> QED BY Zenon, <1>1, <1>5, <2>1, <3>3, LateData DEF Pending, Ack
  <2>2. CASE i[2] # "node"
    BY Zenon, <1>5, <2>2 DEF Pending
  <2> QED BY Zenon, <2>1, <2>2
<1> QED BY Zenon, <1>4, <1>6 DEF Consistent, DrainInv, r

-----------------------------------------------------------------------------
(* A packet arrives in the quantum it was sent in                          *)

(***************************************************************************)
(* What the quantum is for: no packet before the first periodic barrier,   *)
(* which is late enough for every process's own period, and no link        *)
(* shorter than the quantum.                                               *)
(***************************************************************************)
Timely ==
    /\ setup.quiet /\ (\A p \in Proc : Repeat[p] <= SyncStart) /\ (\A i \in Iface : Quantum <= LinkDelay[i])

\* A process that may send has the second periodic barrier, or a later one, ahead.
Beyond(p) ==
    \/ pc[p] = "drain" \/ (InRun(p) /\ caller[p] = "ckpt")
    \/ (pc[p] = "run" /\ caller[p] # "startup" /\ ~ Ab(p))
BeyondInv == \A p \in Proc : Beyond(p) => When(p) >= SyncStart + Quantum

\* The period of the sync event: agreed on by the first barrier.
RepeatInv ==
    \A p \in Proc :
      /\ InRun(p) /\ caller[p] = "startup" /\ (Ab(p) => pc[p] = "acked")
           => Quantum <= ev[p].repeat /\ ev[p].repeat <= Repeat[p]
      /\ ~ gone(p) /\ ~ Fresh(p) =>
           \/ When(p) = SyncStart /\ Quantum <= ev[p].repeat /\ ev[p].repeat <= Repeat[p]
           \/ When(p) >= SyncStart + Quantum /\ ev[p].repeat = Quantum

\* What is on the links was sent after the last barrier of the receiver.
FlightInv ==
    \A i \in Iface :
      /\ \A m \in Data(in[i]) : /\ tick[Owner(i)] >= SyncStart /\ m.sendTick > SyncStart
                                /\ ~ gone(Owner(i)) => m.sendTick + Quantum > When(Owner(i))
      /\ Answered(Owner(i)) /\ caller[Owner(i)] = "periodic" => \A m \in Pending(i) : m.sendTick > tick[Owner(i)]

Punctual == Sound /\ SendInv /\ Timely /\ BeyondInv /\ RepeatInv /\ FlightInv

LEMMA OneMoves == Step => \E p \in Proc : Rest(p)
BY Zenon, Procs DEF Step, SimStep, NodeStep, Still, Rest

\* Who a step of p leaves alone.
LEMMA Movers ==
    ASSUME Sound, Step, NEW p \in Proc, ~ SimStep(p)
    PROVE  /\ tick'[p] = tick[p] /\ caller'[p] = caller[p] /\ ev'[p] = ev[p]
           /\ pc'[p] = pc[p] \/ (p = Switch /\ pc[p] = "wait" /\ ~ Ab(p) /\ pc'[p] \in {"acked", "panic"})
           /\ Ab(p) => Ab(p)'
<1>1. CASE Keeps(p)
  BY Zenon, <1>1 DEF Keeps, Ab
<1>2. CASE p \in Node /\ (Asks(p) \/ Hears(p))
  BY Zenon, <1>1, <1>2 DEF Asks, Hears
<1>3. CASE p = Switch /\ \E n \in Node : Ignores(n) \/ Collects(n)
  BY Zenon, <1>1, <1>3 DEF Ignores, Collects
<1>4. CASE p = Switch /\ Decides
  BY Zenon, <1>4 DEF Decides
<1> QED BY Zenon, <1>1, <1>2, <1>3, <1>4 DEF Step, SimStep, NodeStep, Rest, Still

LEMMA BeyondStep ==
    ASSUME Sound, BeyondInv, Step
    PROVE  BeyondInv'
<1> SUFFICES ASSUME NEW p \in Proc, Beyond(p)' PROVE When(p)' >= SyncStart + Quantum
  BY Zenon DEF BeyondInv
<1>f. /\ LocalInv(p) /\ LeastRepeat /\ SyncStart \in Nat /\ Quantum \in Nat \ {0} /\ (Beyond(p) => When(p) >= SyncStart + Quantum)
      /\ (p # Switch => p \in Node /\ NodeInv(p)) /\ SwitchInv
  BY Zenon, TimeAssumption DEF BeyondInv, Sound, Ready, LeastRepeat, Proc
<1> HIDE DEF Quantum
<1>1. CASE Beyond(p) /\ When(p)' = When(p)
  BY Zenon, <1>f, <1>1
<1>2. CASE Passes(p)
  <2>1. When(p)' = tick[p] + Rep(p) /\ completed(p) /\ caller[p] = "periodic"
    BY Zenon, <1>2 DEF Passes
  <2>2. Rep(p) = Quantum /\ tick[p] = When(p) /\ When(p) \in Barrier
    BY Zenon, <1>f, <2>1 DEF LocalInv, NodeInv, SwitchInv, completed, Fresh, InRun, W, Ab, gone, Stopped
  <2>3. When(p) \in Nat /\ When(p) >= SyncStart
    BY Zenon, <1>f, <2>2, BarrierTicks
  <2> QED BY <1>f, <2>1, <2>2, <2>3
<1>3. CASE SimStep(p) /\ ~ Passes(p)
  <2> USE DEF Beyond, InRun
  <2>1. CASE \E who \in {"startup", "periodic", "ckpt"} : Enters(p, who)
    <3>1. pc'[p] = "wait" /\ When(p)' = When(p) /\ (caller'[p] = "ckpt" => pc[p] = "drain")
      BY Zenon, <2>1 DEF Enters, RunEnters, KeepsEvent
    <3> QED BY Zenon, <1>1, <3>1
  <2>2. CASE Halts(p)
    BY Zenon, <2>2 DEF Halts, Stopped
  <2>3. CASE Ticks(p)
    BY Zenon, <1>1, <2>3 DEF Ticks, When, Ab
  <2>4. CASE Fires(p)
    BY Zenon, <2>4 DEF Fires
  <2>5. CASE Starts(p)
    BY Zenon, <2>5 DEF Starts
  <2>6. CASE Resumes(p)
    <3>1. When(p)' = When(p) /\ Ab(p)' = Ab(p) /\ caller'[p] = caller[p] /\ pc'[p] = "run"
      BY Zenon, <2>6 DEF Resumes, When
    <3>2. ~ Ab(p)
      BY Zenon, <3>1
    <3> QED BY Zenon, <1>1, <2>6, <3>1, <3>2 DEF Resumes, completed
  <2>7. CASE Loses(p)
    BY Zenon, <1>1, <2>7 DEF Loses, When
  <2> QED BY Zenon, <1>3, <2>1, <2>2, <2>3, <2>4, <2>5, <2>6, <2>7 DEF SimStep
<1>4. CASE ~ SimStep(p)
  <2>1. /\ caller'[p] = caller[p] /\ ev'[p] = ev[p] /\ (Ab(p) => Ab(p)')
        /\ pc'[p] = pc[p] \/ (p = Switch /\ pc[p] = "wait" /\ pc'[p] \in {"acked", "panic"})
    BY Zenon, <1>4, Movers
  <2> QED BY Zenon, <1>1, <2>1 DEF Beyond, InRun, When
<1> QED BY Zenon, <1>2, <1>3, <1>4


LEMMA RepeatStep ==
    ASSUME Sound, RepeatInv, Step
    PROVE  RepeatInv'
<1> DEFINE Mid(a, p) == Quantum <= a /\ a <= Repeat[p]
           First(p) == InRun(p) /\ caller[p] = "startup" /\ (Ab(p) => pc[p] = "acked")
           Later(p) == \/ When(p) = SyncStart /\ Mid(ev[p].repeat, p)
                       \/ When(p) >= SyncStart + Quantum /\ ev[p].repeat = Quantum
<1> SUFFICES ASSUME NEW p \in Proc
             PROVE  /\ First(p)' => Mid(ev'[p].repeat, p)
                    /\ ~ gone(p)' /\ ~ Fresh(p)' => Later(p)'
  BY Zenon DEF RepeatInv
<1>0. /\ First(p) => Mid(ev[p].repeat, p)
      /\ ~ gone(p) /\ ~ Fresh(p) => Later(p)
  BY Zenon DEF RepeatInv
<1>f. /\ LocalInv(p) /\ LeastRepeat /\ SyncStart \in Nat /\ Quantum \in Nat \ {0} /\ MainInv
      /\ (p # Switch => p \in Node /\ NodeInv(p)) /\ SwitchInv
  BY Zenon, TimeAssumption DEF Sound, Ready, LeastRepeat, Proc
<1> HIDE DEF Quantum, Mid
<1>1. ASSUME When(p)' = When(p), ev'[p].repeat = ev[p].repeat, gone(p) => gone(p)',
             First(p)' => First(p), ~ gone(p)' /\ Fresh(p) => Fresh(p)'
      PROVE  /\ First(p)' => Mid(ev'[p].repeat, p)
             /\ ~ gone(p)' /\ ~ Fresh(p)' => Later(p)'
  BY Zenon, <1>0, <1>1
<1>s. gone(p) => gone(p)'
  BY Zenon DEF Step, StayGone
<1>2. CASE Passes(p)
  <2>1. When(p)' = tick[p] + Rep(p) /\ ev'[p].repeat = Rep(p) /\ completed(p) /\ caller[p] = "periodic" /\ caller'[p] = caller[p]
    BY Zenon, <1>2 DEF Passes
  <2>2. Rep(p) = Quantum /\ tick[p] = When(p) /\ When(p) \in Barrier
    BY Zenon, <1>f, <2>1 DEF LocalInv, NodeInv, SwitchInv, completed, Fresh, InRun, W, Ab, gone, Stopped
  <2>3. When(p) \in Nat /\ When(p) >= SyncStart
    BY Zenon, <1>f, <2>2, BarrierTicks
  <2>4. When(p)' >= SyncStart + Quantum /\ ev'[p].repeat = Quantum /\ ~ First(p)'
    <3>1. When(p)' >= SyncStart + Quantum
      BY <1>f, <2>1, <2>2, <2>3
    <3> QED BY Zenon, <2>1, <2>2, <3>1
  <2> QED BY Zenon, <2>4
<1>3. CASE Starts(p)
  <2>1. When(p)' = At(p) /\ ev'[p].repeat = ev[p].repeat /\ completed(p) /\ caller[p] = "startup" /\ pc'[p] = "run"
    BY Zenon, <1>3 DEF Starts
  <2>2. First(p) /\ At(p) = SyncStart
    BY Zenon, <1>f, <2>1 DEF NodeInv, SwitchInv, completed, Fresh, InRun, W, Ab
  <2>3. ~ First(p)'
    BY Zenon, <2>1 DEF InRun
  <2> QED BY Zenon, <1>0, <2>1, <2>2, <2>3
<1>4. CASE Enters(p, "startup")
  <2>1. /\ pc[p] = "startup" /\ pc'[p] = "wait" /\ caller'[p] = "startup" /\ ev'[p].repeat = Rep(p)
        /\ Ab(p)' = Ab(p)
    BY Zenon, <1>4 DEF Enters, RunEnters, KeepsSync
  <2>2. Fresh(p)'
    BY Zenon, <2>1 DEF Fresh, InRun
  <2>3. ASSUME First(p)' PROVE Mid(Rep(p), p)
    <3>1. CASE p # Switch
      <4>1. Rep(p) = Repeat[p] /\ Repeat[p] \in Nat
        BY Zenon, <1>f, <2>1, <3>1, TimeAssumption DEF NodeInv, Fresh
      <4>2. Quantum <= Repeat[p]
        BY Zenon, <1>f DEF LeastRepeat
      <4> QED BY <4>1, <4>2 DEF Mid
    <3>2. CASE p = Switch
      <4>1. ~ gone(Switch) /\ ~ Ab(Switch) /\ Kind(Switch) = "startup"
        BY Zenon, <2>1, <2>3, <3>2 DEF gone, Stopped, Kind, Answered, InRun
      <4>2. PICK C \in SUBSET Node : SwitchPart(C, "startup", Meet(Switch))
        BY Zenon, <1>f, <4>1 DEF MainInv, Collect
      <4>3. Rep(p) <= Repeat[p] /\ Rep(p) \in {Repeat[q] : q \in Proc}
        BY Zenon, <3>2, <4>2 DEF SwitchPart
      <4>4. Quantum <= Rep(p)
        BY Zenon, <1>f, <4>3 DEF LeastRepeat
      <4> QED BY Zenon, <4>3, <4>4 DEF Mid
    <3> QED BY Zenon, <3>1, <3>2
  <2> QED BY Zenon, <2>1, <2>2, <2>3
<1>5. CASE SimStep(p) /\ ~ Passes(p) /\ ~ Starts(p) /\ ~ Enters(p, "startup")
  <2> USE DEF InRun, Fresh
  <2>1. CASE \E who \in {"periodic", "ckpt"} : Enters(p, who)
    <3>1. /\ pc[p] \in {"event", "drain"} /\ pc'[p] = "wait" /\ caller'[p] \in {"periodic", "ckpt"} /\ When(p)' = When(p)
          /\ ev'[p].repeat = ev[p].repeat
      BY Zenon, <2>1 DEF Enters, RunEnters, KeepsEvent
    <3> QED BY Zenon, <1>1, <1>s, <3>1
  <2>2. CASE Halts(p)
    BY Zenon, <2>2 DEF Halts, Stopped, gone
  <2>3. CASE Ticks(p)
    BY Zenon, <1>1, <1>s, <2>3 DEF Ticks, When, Ab
  <2>4. CASE Fires(p)
    BY Zenon, <1>1, <1>s, <2>4 DEF Fires
  <2>6. CASE Resumes(p)
    <3>1. When(p)' = When(p) /\ caller[p] \in {"periodic", "ckpt"} /\ pc'[p] = "run" /\ ev'[p] = ev[p]
          /\ pc[p] # "startup"
      BY Zenon, <2>6 DEF Resumes, When, completed
    <3> QED BY Zenon, <1>1, <1>s, <3>1
  <2>7. CASE Loses(p)
    <3>1. When(p)' = When(p) /\ Ab(p)' /\ pc'[p] = pc[p] /\ caller'[p] = caller[p] /\ ev'[p] = ev[p]
      BY Zenon, <2>7 DEF Loses, When
    <3> QED BY Zenon, <1>1, <1>s, <3>1
  <2> QED BY Zenon, <1>5, <2>1, <2>2, <2>3, <2>4, <2>6, <2>7 DEF SimStep
<1>6. CASE ~ SimStep(p)
  <2>1. /\ caller'[p] = caller[p] /\ ev'[p] = ev[p] /\ (Ab(p) => Ab(p)')
        /\ pc'[p] = pc[p] \/ (p = Switch /\ pc[p] = "wait" /\ ~ Ab(p) /\ pc'[p] \in {"acked", "panic"})
    BY Zenon, <1>6, Movers
  <2> QED BY Zenon, <1>1, <1>s, <2>1 DEF InRun, When, Fresh, gone, Stopped
<1> QED BY Zenon, <1>2, <1>3, <1>4, <1>5, <1>6


\* Only a process that has the answer goes on to the next barrier.
LEMMA PassStep ==
    ASSUME Sound, Step, NEW p \in Proc
    PROVE  \/ When(p)' = When(p)
           \/ When(p)' = SyncStart /\ When(p) = 0 /\ tick[p] = 0
           \/ When(p)' = tick[p] + Quantum /\ completed(p) /\ Answered(p) /\ caller[p] = "periodic"
<1>1. \/ When(p)' = When(p)
      \/ When(p)' = SyncStart /\ When(p) = 0 /\ tick[p] = 0
      \/ When(p)' = tick[p] + Quantum /\ Answered(p) /\ caller[p] = "periodic"
  BY Zenon, ClockStep
<1>2. CASE SimStep(p) /\ caller[p] = "periodic"
  <2>1. When(p)' = When(p) \/ completed(p)
    BY Zenon, <1>2 DEF SimStep, Enters, KeepsEvent, Halts, Ticks, Fires, Starts, Passes, Resumes, Loses, When
  <2> QED BY Zenon, <1>1, <2>1
<1>3. CASE ~ SimStep(p)
  BY Zenon, <1>3, Movers DEF When
<1> QED BY Zenon, <1>1, <1>2, <1>3

LEMMA DataFacts ==
    ASSUME NEW q \in Seq(Message), NEW m \in Data(q)
    PROVE  m \in DataMessage /\ m.sendTick \in Nat /\ m.sendDelay \in Nat
<1>1. PICK k \in DOMAIN q : m = q[k] /\ q[k].kind = "dataDescriptor"
  BY Zenon DEF Data, Msgs
<1>2. m \in Message
  <2> DEFINE T == Message
  <2>1. q \in Seq(T)
    BY Zenon
  <2> HIDE DEF T
  <2>2. q[k] \in T
    BY <2>1, <1>1
  <2> QED BY Zenon, <1>1, <2>2 DEF T
<1>3. m \in DataMessage
  BY Zenon, <1>1, <1>2, MessageKind
<1> QED BY Zenon, <1>3 DEF DataMessage

\* A packet is sent after the last barrier of both ends of the link.
LEMMA SentFacts ==
    ASSUME Punctual, Step, NEW i \in Iface, NEW m, Sent(i, m)
    PROVE  /\ m.sendTick > SyncStart /\ tick'[Owner(i)] >= SyncStart /\ m.sendTick + Quantum > When(Owner(i))'
           /\ Answered(Owner(i)) /\ caller[Owner(i)] = "periodic" => m.sendTick > tick[Owner(i)]
<1> DEFINE r == Owner(i)
           s == Owner(Peer(i))
<1>0. /\ Sound /\ Types /\ r \in Proc /\ s \in Proc /\ r # s /\ SyncStart \in Nat /\ Quantum \in Nat
      /\ tick[r] \in Nat /\ tick[s] \in Nat /\ When(r) \in Nat /\ When(s) \in Nat /\ LocalInv(s) /\ StepInv
  <2>1. Sound /\ Types /\ StepInv /\ SyncStart \in Nat /\ Quantum \in Nat /\ \A p \in Proc : LocalInv(p)
    BY Zenon, TimeAssumption DEF Punctual, Sound, Ready, LeastRepeat
  <2> QED BY Zenon, <2>1, LinkEnds, Fields
<1>1. /\ m.sendTick = tick[s] + 1 /\ tick'[s] = tick[s] + 1 /\ pc[s] \in {"run", "drain"}
      /\ (pc[s] = "run" => ~ exiting[s]) /\ caller[s] \in {"periodic", "ckpt"}
  BY Zenon DEF Sent, Punctual, Timely
<1> HIDE DEF r, s, Quantum
<1>2. Beyond(s)
  BY Zenon, <1>0, <1>1 DEF Beyond, LocalInv, gone, Stopped
<1>3. When(s) >= SyncStart + Quantum
  BY Zenon, <1>0, <1>2 DEF Punctual, BeyondInv
<1>4. tick[r] + Quantum >= When(s) /\ tick[s] + Quantum >= When(s)
  BY Zenon, <1>0, <1>3 DEF StepInv
<1>5. tick[r] >= SyncStart /\ tick[s] >= SyncStart
  BY <1>0, <1>3, <1>4
<1>6. When(r)' = When(r) /\ tick'[r] = tick[r]
  <2>1. tick'[s] # tick[s]
    BY <1>0, <1>1
  <2>2. Rest(s)
    BY Zenon, <1>0, <2>1, OneMoves DEF Rest, Keeps
  <2> QED BY Zenon, <1>0, <2>2 DEF Rest, Keeps, When
<1>7. When(r) >= SyncStart + Quantum => tick[s] + Quantum >= When(r)
  BY Zenon, <1>0 DEF StepInv
<1>8. Answered(r) /\ caller[r] = "periodic" => tick[s] >= tick[r]
  BY Zenon, <1>0 DEF StepInv
<1>9. /\ m.sendTick > SyncStart /\ tick'[r] >= SyncStart /\ m.sendTick + Quantum > When(r)'
      /\ tick[s] >= tick[r] => m.sendTick > tick[r]
  BY <1>0, <1>1, <1>5, <1>6, <1>7
<1> QED BY Zenon, <1>8, <1>9 DEF r

LEMMA FlightStep ==
    ASSUME Punctual, Step, [Next]_vars
    PROVE  FlightInv'
<1> SUFFICES ASSUME NEW i \in Iface
             PROVE  /\ \A m \in Data(in'[i]) : /\ tick'[Owner(i)] >= SyncStart /\ m.sendTick > SyncStart
                                               /\ ~ gone(Owner(i))' => m.sendTick + Quantum > When(Owner(i))'
                    /\ Answered(Owner(i))' /\ caller'[Owner(i)] = "periodic"
                         => \A m \in Pending(i)' : m.sendTick > tick'[Owner(i)]
  BY Zenon DEF FlightInv
<1> DEFINE r == Owner(i)
           s == Owner(Peer(i))
<1>0. /\ Sound /\ Types /\ Regular /\ r \in Proc /\ s \in Proc /\ r # s /\ tick[r] \in Nat /\ When(r) \in Nat
      /\ SyncStart \in Nat /\ Quantum \in Nat \ {0} /\ in \in [Iface -> Seq(Message)]
      /\ i[2] = "node" => r \in Node /\ i = <<r, "node">> /\ Told(i) = "cmdSyncAck" /\ NodeInv(r)
      /\ i[2] # "node" => r = Switch /\ s \in Node /\ i = <<s, "switch">> /\ Told(i) = "cmdSyncReq"
  <2>1. Sound /\ Types /\ Regular /\ SyncStart \in Nat /\ Quantum \in Nat \ {0} /\ \A n \in Node : NodeInv(n)
    BY Zenon, TimeAssumption DEF Punctual, Sound, Ready, LeastRepeat
  <2>2. in \in [Iface -> Seq(Message)]
    BY Zenon, <2>1 DEF Types, LinkTypes
  <2> QED BY Zenon, <2>1, <2>2, LinkEnds, Fields
<1>2. /\ \A x \in Data(in'[i]) : x \in Data(in[i]) \/ Sent(i, x)
      /\ \A x \in Late(in'[i], Told(i)) : x \in Late(in[i], Told(i)) \/ Sent(i, x)
      /\ Msgs(in[i], Told(i)) = {} /\ Msgs(in'[i], Told(i)) # {} => Late(in'[i], Told(i)) = {}
  BY Zenon, <1>0, PacketStep
<1>3. /\ tick'[r] \in Nat /\ tick'[r] >= tick[r]
      /\ tick'[r] # tick[r] => ~ Answered(r)
  BY Zenon, <1>0, ClockStep
<1>4. /\ \A m \in Data(in[i]) : /\ tick[r] >= SyncStart /\ m.sendTick > SyncStart
                                /\ ~ gone(r) => m.sendTick + Quantum > When(r)
      /\ Answered(r) /\ caller[r] = "periodic" => \A m \in Pending(i) : m.sendTick > tick[r]
  BY Zenon DEF Punctual, FlightInv
<1>5. \A m \in Data(in[i]) : m.sendTick \in Nat
  BY Zenon, <1>0, DataFacts
<1>6. \A m : Sent(i, m) => /\ m.sendTick > SyncStart /\ tick'[r] >= SyncStart /\ m.sendTick + Quantum > When(r)'
                           /\ Answered(r) /\ caller[r] = "periodic" => m.sendTick > tick[r]
  BY Zenon, SentFacts
<1>7. gone(r) => gone(r)'
  BY Zenon, <1>0 DEF Step, StayGone
<1> HIDE DEF r, s, Quantum
<1>8. ASSUME NEW m \in Data(in[i])
      PROVE  tick'[r] >= SyncStart /\ (~ gone(r)' => m.sendTick + Quantum > When(r)')
  <2>1. tick[r] >= SyncStart /\ m.sendTick > SyncStart /\ m.sendTick \in Nat
    BY Zenon, <1>4, <1>5
  <2>2. tick'[r] >= SyncStart
    BY <1>0, <1>3, <2>1
  <2>3. ASSUME ~ gone(r)' PROVE m.sendTick + Quantum > When(r)'
    <3>1. CASE When(r)' = When(r)
      BY Zenon, <1>4, <1>7, <2>3, <3>1
    <3>2. CASE When(r)' = SyncStart
      BY <1>0, <2>1, <3>2
    <3>3. CASE When(r)' = tick[r] + Quantum /\ completed(r) /\ Answered(r) /\ caller[r] = "periodic"
      <4>1. m \in Pending(i)
        <5>1. CASE i[2] = "node"
          <6>1. pc[r] = "wait" /\ W(r) = 0 /\ ~ Ab(r) /\ ~ gone(r) /\ r # Switch
            BY Zenon, <1>0, <3>3, <5>1, Procs DEF completed, W, Ab, gone, Stopped
          <6>2. W(r) # 1
            BY <6>1
          <6>3. Ack(r) = {}
            BY Zenon, <1>0, <5>1, <6>1, <6>2 DEF NodeInv
          <6> QED BY Zenon, <1>0, <5>1, <6>3, LateData DEF Pending, Ack
        <5>2. CASE i[2] # "node"
          BY Zenon, <5>2 DEF Pending
        <5> QED BY Zenon, <5>1, <5>2
      <4>2. m.sendTick > tick[r]
        BY Zenon, <1>4, <3>3, <4>1
      <4> QED BY <1>0, <2>1, <3>3, <4>2
    <3> QED BY Zenon, <1>0, <3>1, <3>2, <3>3, PassStep
  <2> QED BY Zenon, <2>2, <2>3
<1>9. ASSUME Answered(r)', caller'[r] = "periodic", NEW m \in Pending(i)' PROVE m.sendTick > tick'[r]
  <2>0. m \in Pending(i) \/ Sent(i, m)
    BY Zenon, <1>0, <1>2, <1>9 DEF Pending
  <2>1. CASE ~ (Rest(Switch) /\ Decides)
    <3>1. Answered(r) /\ caller[r] = "periodic"
      BY Zenon, <1>0, <1>9, <2>1, AnsweredStep
    <3>2. m.sendTick > tick[r] /\ tick'[r] = tick[r]
      BY Zenon, <1>3, <1>4, <1>6, <2>0, <3>1
    <3> QED BY Zenon, <3>2
  <2>2. CASE Rest(Switch) /\ Decides
    <3>1. \A n \in Node : Req(n) = {} /\ Ack(n) = {} /\ W(n) = 1 /\ pc[n] \in {"wait"} \cup Stopped
      BY Zenon, <1>0, <2>2, DecideFacts DEF Decides, Joined
    <3>2. \A p \in Proc : tick'[p] = tick[p] /\ (p # Switch => W(p)' = W(p))
      BY Zenon, <2>2 DEF Rest, Keeps, Decides, W
    <3>3. ~ Sent(i, m)
      <4>1. tick[s] \in Nat /\ tick'[s] = tick[s]
        BY Zenon, <1>0, <3>2, Fields
      <4>2. tick'[s] # tick[s] + 1
        BY <4>1
      <4> QED BY Zenon, <4>2 DEF Sent, s
    <3>4. CASE i[2] = "node"
      <4>1. W(r)' = 1 /\ r # Switch
        BY Zenon, <1>0, <3>1, <3>2, <3>4, Procs
      <4>2. W(r)' # 0
        BY <4>1
      <4>3. Ack(r)' # {}
        BY Zenon, <1>9, <4>1, <4>2 DEF Answered
      <4>4. Late(in'[i], Told(i)) = {}
        BY Zenon, <1>0, <1>2, <3>1, <3>4, <4>3 DEF Ack
      <4> QED BY Zenon, <1>0, <1>9, <3>4, <4>4 DEF Pending
    <3>5. CASE i[2] # "node"
      <4>1. m \in Data(in[i]) /\ Msgs(in[i], "cmdSyncReq") = {}
        BY Zenon, <1>0, <2>0, <3>1, <3>3, <3>5 DEF Pending, Req
      <4>2. ~ gone(Switch)
        BY Zenon, <2>2 DEF Decides, gone, Stopped
      <4>3. Late(in[i], "cmdSyncReq") = {}
        BY Zenon, <1>0, <3>1, <3>5, <4>2 DEF Punctual, SendInv
      <4> QED BY Zenon, <4>1, <4>3, LateData
    <3> QED BY Zenon, <3>4, <3>5
  <2> QED BY Zenon, <2>1, <2>2
<1>10. ASSUME NEW m \in Data(in'[i])
       PROVE  /\ tick'[r] >= SyncStart /\ m.sendTick > SyncStart
              /\ ~ gone(r)' => m.sendTick + Quantum > When(r)'
  BY Zenon, <1>2, <1>4, <1>6, <1>8
<1> QED BY Zenon, <1>9, <1>10 DEF r

LEMMA PunctualAlways == Punctual /\ [Next]_vars => Punctual'
<1> SUFFICES ASSUME Punctual, [Next]_vars PROVE Punctual'
  BY Zenon
<1>1. Sound' /\ Step /\ Sound
  BY Zenon, SoundStep DEF Punctual
<1>2. Timely'
  BY Zenon, <1>1 DEF Punctual, Timely, Step
<1> QED BY Zenon, <1>1, <1>2, SendStep, BeyondStep, RepeatStep, FlightStep DEF Punctual


LEMMA PunctualInit == Sound /\ Init /\ Timely => Punctual
<1> SUFFICES ASSUME Sound, Init, Timely PROVE Punctual
  BY Zenon
<1>1. \A i \in Iface : Data(in[i]) = {}
  BY SMT DEF Init, Data, Msgs
<1>2. \A p \in Proc : pc[p] = "startup" /\ ~ Answered(p)
  BY Zenon DEF Init, Answered
<1>3. SendInv
  BY Zenon, ConsistentInit DEF Consistent
<1>4. BeyondInv /\ RepeatInv
  BY Zenon, <1>2 DEF BeyondInv, RepeatInv, Beyond, InRun, Fresh
<1>5. FlightInv
  BY Zenon, <1>1, <1>2, LinkEnds DEF FlightInv
<1> QED BY Zenon, <1>3, <1>4, <1>5 DEF Punctual

\* The packet that is about to be pushed.
LEMMA Pushed ==
    ASSUME Types, NEW i \in Iface, pushing(i)
    PROVE  ~ gone(Owner(i)) /\ in[i] # <<>> /\ Head(in[i]) \in Data(in[i])
<1>1. ~ gone(Owner(i)) /\ in[i] # <<>> /\ Head(in[i]).kind = "dataDescriptor" /\ in[i] \in Seq(Message)
  BY Zenon DEF pushing, receives, Types, LinkTypes
<1>2. 1 \in DOMAIN in[i] /\ Head(in[i]) = in[i][1]
  <2> DEFINE T == Message
  <2>1. in[i] \in Seq(T)
    BY Zenon, <1>1
  <2> HIDE DEF T
  <2> QED BY <1>1, <2>1
<1> QED BY Zenon, <1>1, <1>2 DEF Data, Msgs

LEMMA PunctualQuantum == Punctual => SameQuantum
<1> SUFFICES ASSUME Punctual, NEW i \in Iface, pushing(i)
             PROVE  LET e == ev[Owner(i)]
                        m == Head(in[i])
                    IN  /\ e.when >= e.repeat /\ m.sendTick > e.when - e.repeat
                        /\ m.sendTick + m.sendDelay + LinkDelay[i] > e.when
  BY Zenon DEF SameQuantum
<1> DEFINE r == Owner(i)
           m == Head(in[i])
<1>0. /\ Sound /\ Types /\ r \in Proc /\ SyncStart \in Nat /\ Quantum \in Nat /\ Repeat[r] \in Nat \ {0}
      /\ LinkDelay[i] \in Nat /\ Quantum <= LinkDelay[i] /\ Repeat[r] <= SyncStart /\ LocalInv(r)
  BY Zenon, TimeAssumption, LinkEnds DEF Punctual, Timely, Sound, Ready, LeastRepeat
<1>1. tick[r] \in Nat /\ When(r) \in Nat /\ ev[r].repeat \in Nat
  BY Zenon, <1>0, Fields
<1>2. ~ gone(r) /\ m \in Data(in[i]) /\ in[i] \in Seq(Message)
  BY Zenon, <1>0, Pushed DEF Types, LinkTypes
<1>3. m.sendTick \in Nat /\ m.sendDelay \in Nat
  BY Zenon, <1>2, DataFacts
<1>4. tick[r] >= SyncStart /\ m.sendTick > SyncStart /\ m.sendTick + Quantum > When(r)
  BY Zenon, <1>2 DEF Punctual, FlightInv
<1> HIDE DEF r, m, Quantum
<1>5. ~ Fresh(r)
  <2>1. tick[r] # 0
    BY <1>0, <1>1, <1>4
  <2> QED BY Zenon, <1>0, <2>1 DEF LocalInv
<1>6. \/ When(r) = SyncStart /\ Quantum <= ev[r].repeat /\ ev[r].repeat <= Repeat[r]
      \/ When(r) >= SyncStart + Quantum /\ ev[r].repeat = Quantum
  BY Zenon, <1>0, <1>2, <1>5 DEF Punctual, RepeatInv
<1>7. /\ When(r) >= ev[r].repeat /\ m.sendTick > When(r) - ev[r].repeat
      /\ m.sendTick + m.sendDelay + LinkDelay[i] > When(r)
  BY <1>0, <1>1, <1>3, <1>4, <1>6
<1> QED BY Zenon, <1>7 DEF r, m, When


-----------------------------------------------------------------------------
(* The receive event of a packet can always be scheduled                   *)

\* The first packet has left the sender before the second one is sent.
Gap(a, b) == a.sendTick + a.sendDelay <= b.sendTick
Elems(q) == {q[k] : k \in DOMAIN q}
Lined(q) == \A j, k \in DOMAIN q : j < k => Gap(q[j], q[k])
Spaced(q) ==
    \A j, k \in DOMAIN q : j < k /\ q[j].kind = "dataDescriptor" /\ q[k].kind = "dataDescriptor" => Gap(q[j], q[k])

\* The packets that have been sent to an end and are not yet received.
Flow(i) == Elems(rx[i].descQueue) \cup Data(in[i])
OrderAt(i) ==
    /\ Spaced(in[i]) /\ Lined(rx[i].descQueue)
    /\ \A a \in Elems(rx[i].descQueue), b \in Data(in[i]) : Gap(a, b)
    /\ \A a \in Flow(i) : /\ a.sendDelay > 0 /\ a.sendTick + a.sendDelay <= txFree[Peer(i)]
                          /\ rx[i].prevRecvTick <= a.sendTick + LinkDelay[i]
    /\ rx[i].prevRecvTick <= txFree[Peer(i)] + LinkDelay[i]

\* The receive event is that of the first packet in the queue, and it is ahead.
DueAt(i) ==
    /\ ~ rx[i].ckptRestore
    /\ rx[i].descQueue # <<>> => /\ rx[i].recvDone = recvTick(i, Head(rx[i].descQueue))
                                 /\ ~ gone(Owner(i)) => rx[i].recvDone > tick[Owner(i)]
OrderInv == \A i \in Iface : OrderAt(i)
DueInv == \A i \in Iface : DueAt(i)
Orderly == Punctual /\ OrderInv /\ DueInv

\* A queue of packets in order, when one is added and when one is taken.
LEMMA LinedAppend ==
    ASSUME NEW q \in Seq(Desc), NEW d \in Desc, Lined(q), \A a \in Elems(q) : Gap(a, d)
    PROVE  /\ Lined(Append(q, d)) /\ Elems(Append(q, d)) = Elems(q) \cup {d}
           /\ Append(q, d) # <<>> /\ Head(Append(q, d)) = IF q = <<>> THEN d ELSE Head(q)
<1> DEFINE T == Desc
           r == Append(q, d)
<1>1. q \in Seq(T) /\ d \in T
  BY Zenon
<1> HIDE DEF T
<1>2. /\ DOMAIN q = 1 .. Len(q) /\ Len(q) \in Nat /\ DOMAIN r = 1 .. Len(q) + 1
      /\ r[Len(q) + 1] = d /\ (\A k \in 1 .. Len(q) : r[k] = q[k])
      /\ r # <<>> /\ Head(r) = IF q = <<>> THEN d ELSE Head(q)
  BY <1>1
<1> HIDE DEF r
<1>3. /\ \A k \in DOMAIN q : k \in DOMAIN r /\ r[k] = q[k]
      /\ Len(q) + 1 \in DOMAIN r
      /\ \A k \in DOMAIN r : k \in DOMAIN q \/ k = Len(q) + 1
      /\ \A j, k \in DOMAIN r : j < k => j \in DOMAIN q
  BY <1>2
<1>4. Elems(r) = Elems(q) \cup {d}
  BY Zenon, <1>2, <1>3 DEF Elems
<1>5. ASSUME NEW j \in DOMAIN r, NEW k \in DOMAIN r, j < k PROVE Gap(r[j], r[k])
  BY Zenon, <1>2, <1>3, <1>5 DEF Lined, Elems
<1> QED BY Zenon, <1>2, <1>4, <1>5 DEF Lined, r

LEMMA LinedTail ==
    ASSUME NEW q \in Seq(Desc), q # <<>>, Lined(q)
    PROVE  /\ Lined(Tail(q)) /\ Elems(Tail(q)) \subseteq Elems(q) /\ Head(q) \in Elems(q)
           /\ \A a \in Elems(Tail(q)) : Gap(Head(q), a)
           /\ Tail(q) # <<>> => Head(Tail(q)) \in Elems(Tail(q))
           /\ Len(q) >= 2 => Tail(q) # <<>> /\ Head(Tail(q)) = q[2]
<1> DEFINE T == Desc
           r == Tail(q)
<1>1. q \in Seq(T)
  BY Zenon
<1> HIDE DEF T
<1>2. /\ 1 \in DOMAIN q /\ Head(q) = q[1]
      /\ r # <<>> => 1 \in DOMAIN r /\ Head(r) = r[1]
      /\ Len(q) >= 2 => r # <<>> /\ r[1] = q[2]
  <2>1. r \in Seq(T) /\ Len(q) \in Nat /\ Len(q) > 0 /\ Len(r) = Len(q) - 1 /\ \A k \in 1 .. Len(r) : r[k] = q[k + 1]
    BY <1>1
  <2> HIDE DEF r
  <2>2. 1 \in DOMAIN q /\ Head(q) = q[1] /\ (r # <<>> => 1 \in DOMAIN r /\ Head(r) = r[1])
    BY <1>1, <2>1
  <2>3. Len(q) >= 2 => r # <<>> /\ r[1] = q[2]
    BY <2>1
  <2> QED BY Zenon, <2>2, <2>3
<1>3. /\ \A k \in DOMAIN r : k + 1 \in DOMAIN q /\ r[k] = q[k + 1] /\ 1 < k + 1
      /\ \A j, k \in DOMAIN r : j < k => j + 1 < k + 1
  BY <1>1
<1> HIDE DEF r
<1>4. Elems(r) \subseteq Elems(q) /\ Head(q) \in Elems(q) /\ (r # <<>> => Head(r) \in Elems(r))
  BY Zenon, <1>2, <1>3 DEF Elems
<1>5. \A a \in Elems(r) : Gap(Head(q), a)
  BY Zenon, <1>2, <1>3 DEF Elems, Lined
<1>6. Lined(r)
  BY Zenon, <1>3 DEF Lined
<1> QED BY Zenon, <1>2, <1>4, <1>5, <1>6 DEF r

\* The same for the packets in a channel.
LEMMA SpacedAppend ==
    ASSUME NEW q \in Seq(Message), NEW m \in Message, Spaced(q),
           m.kind = "dataDescriptor" => \A a \in Data(q) : Gap(a, m)
    PROVE  Spaced(Append(q, m)) /\ Append(q, m) \in Seq(Message)
<1> DEFINE T == Message
           r == Append(q, m)
<1>1. q \in Seq(T) /\ m \in T
  BY Zenon
<1> HIDE DEF T
<1>2. /\ DOMAIN q = 1 .. Len(q) /\ Len(q) \in Nat /\ DOMAIN r = 1 .. Len(q) + 1
      /\ r[Len(q) + 1] = m /\ (\A k \in 1 .. Len(q) : r[k] = q[k]) /\ r \in Seq(T)
  BY <1>1
<1> HIDE DEF r
<1>3. /\ \A k \in DOMAIN q : r[k] = q[k]
      /\ \A k \in DOMAIN r : k \in DOMAIN q \/ k = Len(q) + 1
      /\ \A j, k \in DOMAIN r : j < k => j \in DOMAIN q
  BY <1>2
<1>4. ASSUME NEW j \in DOMAIN r, NEW k \in DOMAIN r, j < k, r[j].kind = "dataDescriptor", r[k].kind = "dataDescriptor"
      PROVE  Gap(r[j], r[k])
  BY Zenon, <1>2, <1>3, <1>4 DEF Spaced, Data, Msgs
<1> QED BY Zenon, <1>2, <1>4 DEF Spaced, r, T

LEMMA SpacedTail ==
    ASSUME NEW q \in Seq(Message), q # <<>>, Spaced(q)
    PROVE  /\ Spaced(Tail(q)) /\ Data(Tail(q)) \subseteq Data(q)
           /\ Head(q).kind = "dataDescriptor" => \A a \in Data(Tail(q)) : Gap(Head(q), a)
<1> DEFINE T == Message
           r == Tail(q)
<1>1. q \in Seq(T)
  BY Zenon
<1> HIDE DEF T
<1>2. 1 \in DOMAIN q /\ Head(q) = q[1]
  BY <1>1
<1>3. /\ \A k \in DOMAIN r : k + 1 \in DOMAIN q /\ r[k] = q[k + 1] /\ 1 < k + 1
      /\ \A j, k \in DOMAIN r : j < k => j + 1 < k + 1
  BY <1>1
<1> HIDE DEF r
<1>4. Data(r) \subseteq Data(q)
  BY Zenon, <1>3 DEF Data, Msgs
<1>5. Head(q).kind = "dataDescriptor" => \A a \in Data(r) : Gap(Head(q), a)
  BY Zenon, <1>2, <1>3 DEF Data, Msgs, Spaced
<1>6. Spaced(r)
  BY Zenon, <1>3 DEF Spaced
<1> QED BY Zenon, <1>4, <1>5, <1>6 DEF r


\* What a step does to the receive queues and the clocks.
Moves(p) ==
    /\ pc[p] \in {"run", "drain"} /\ tick' = [tick EXCEPT ![p] = @ + 1] /\ rx' = popAll(due(p, tick[p] + 1))
    /\ \/ txFree' = txFree
       \/ \E i \in ends(p), d \in SendDelay :
            txFree[i] <= tick[p] + 1 /\ txFree' = [txFree EXCEPT ![i] = tick[p] + 1 + d]

LEMMA Receive ==
    ASSUME Types, Regular, DueInv, [Next]_vars
    PROVE  \/ rx' = rx /\ txFree' = txFree /\ tick' = tick
           \/ \E p \in Proc : Moves(p)
           \/ \E i \in Iface : pushPacket(i)
<1>1. CASE \E p \in Proc : SimThread(p) \/ kill(p)
  <2>1. PICK p \in Proc : SimThread(p) \/ kill(p)
    BY Zenon, <1>1
  <2>2. ~ (setup.pseudoOp /\ p # Switch)
    BY Zenon DEF Regular
  <2>3. CASE simulate(p)
    BY Zenon, <2>3 DEF simulate, Moves
  <2>4. CASE startDone(p)
    <3>1. rx = [i \in Iface |-> rx[i]]
      BY Zenon DEF Types, LinkTypes
    <3>2. resumeRecvTicks(p) = [i \in Iface |-> rx[i]]
      BY Zenon DEF resumeRecvTicks, DueInv, DueAt
    <3> QED BY Zenon, <2>4, <3>1, <3>2 DEF startDone
  <2>5. ~ receiveResumed(p)
    <3> SUFFICES ASSUME pc[p] = "run", NEW i \in due(p, tick[p]) PROVE FALSE
      BY Zenon DEF receiveResumed
    <3>1. i \in Iface /\ Owner(i) = p /\ rx[i].descQueue # <<>> /\ rx[i].recvDone <= tick[p]
      BY Zenon DEF due, ends
    <3>2. rx[i].recvDone > tick[p]
      BY Zenon, <3>1 DEF DueInv, DueAt, gone, Stopped
    <3>3. rx[i].recvDone \in Nat /\ tick[p] \in Nat
      BY Zenon, <3>1 DEF Types, LinkTypes, SimTypes, Scheduler
    <3> QED BY <3>1, <3>2, <3>3
  <2>6. CASE startup(p) \/ process(p) \/ enterPeriodic(p) \/ drainComplete(p) \/ processDone(p) \/ ckptDone(p)
             \/ aborted(p) \/ leave(p) \/ kill(p)
    BY Zenon, <2>2, <2>6 DEF startup, process, enterPeriodic, drainComplete, processDone, ckptDone, aborted, leave, kill
  <2> QED BY Zenon, <2>1, <2>3, <2>4, <2>5, <2>6 DEF SimThread
<1>2. CASE acknowledge
  BY Zenon, <1>2 DEF acknowledge
<1>3. CASE \E i \in Iface : RecvThread(i)
  BY Zenon, <1>3 DEF RecvThread, connectionLost, simVars
<1>4. CASE \E n \in Node : nodeProgress(n) \/ switchProgress(n)
  BY Zenon, <1>4 DEF nodeProgress, switchProgress, simVars
<1>5. CASE \E n \in Node : Workload(n)
  BY Zenon, <1>5 DEF Workload, toggleSync, Regular, readyToCkpt, readyToExit, linkVars, simVars
<1>6. ~ restore
  BY Zenon DEF restore, Regular
<1>7. CASE UNCHANGED vars
  BY Zenon, <1>7 DEF vars, linkVars, simVars
<1> QED BY Zenon, <1>1, <1>2, <1>3, <1>4, <1>5, <1>6, <1>7 DEF Next

\* The same for one end.
LEMMA ReceiveEnd ==
    ASSUME Types, Regular, DueInv, [Next]_vars, NEW i \in Iface
    PROVE  \/ pushPacket(i)
           \/ /\ txFree'[Peer(i)] >= txFree[Peer(i)]
              /\ \/ /\ rx'[i] = rx[i]
                    /\ \/ tick'[Owner(i)] = tick[Owner(i)]
                       \/ /\ tick'[Owner(i)] = tick[Owner(i)] + 1
                          /\ rx[i].descQueue # <<>> => ~ (rx[i].recvDone <= tick[Owner(i)] + 1)
                 \/ /\ rx'[i] = popPacket(i) /\ rx[i].descQueue # <<>> /\ ~ gone(Owner(i))
                    /\ tick'[Owner(i)] = tick[Owner(i)] + 1 /\ rx[i].recvDone <= tick[Owner(i)] + 1
<1>0. /\ rx \in [Iface -> Scheduler] /\ txFree \in [Iface -> Nat] /\ tick \in [Proc -> Nat] /\ Owner(i) \in Proc
      /\ Peer(i) \in Iface
  BY Zenon, Ends DEF Types, LinkTypes, SimTypes
<1>t. txFree[Peer(i)] >= txFree[Peer(i)]
  <2>1. txFree[Peer(i)] \in Nat
    BY Zenon, <1>0
  <2> QED BY <2>1
<1>1. CASE rx' = rx /\ txFree' = txFree /\ tick' = tick
  BY Zenon, <1>t, <1>1
<1>2. ASSUME NEW k \in Iface, pushPacket(k), k # i
      PROVE  rx'[i] = rx[i] /\ txFree' = txFree /\ tick' = tick
  BY Zenon, <1>0, <1>2 DEF pushPacket, simVars
<1>3. ASSUME NEW p \in Proc, Moves(p)
      PROVE  /\ txFree'[Peer(i)] >= txFree[Peer(i)]
             /\ \/ /\ rx'[i] = rx[i]
                   /\ \/ tick'[Owner(i)] = tick[Owner(i)]
                      \/ /\ tick'[Owner(i)] = tick[Owner(i)] + 1
                         /\ rx[i].descQueue # <<>> => ~ (rx[i].recvDone <= tick[Owner(i)] + 1)
                \/ /\ rx'[i] = popPacket(i) /\ rx[i].descQueue # <<>> /\ ~ gone(Owner(i))
                   /\ tick'[Owner(i)] = tick[Owner(i)] + 1 /\ rx[i].recvDone <= tick[Owner(i)] + 1
  <2>1. txFree'[Peer(i)] >= txFree[Peer(i)]
    <3>1. ASSUME NEW j \in ends(p), NEW d \in SendDelay, txFree[j] <= tick[p] + 1,
                 txFree' = [txFree EXCEPT ![j] = tick[p] + 1 + d]
          PROVE  txFree'[Peer(i)] >= txFree[Peer(i)]
      <4>1. txFree'[Peer(i)] = IF Peer(i) = j THEN tick[p] + 1 + d ELSE txFree[Peer(i)]
        BY Zenon, <1>0, <3>1
      <4>2. d \in Nat /\ tick[p] \in Nat /\ txFree[Peer(i)] \in Nat
        BY Zenon, <1>0, TimeAssumption
      <4> QED BY <3>1, <4>1, <4>2
    <3> QED BY Zenon, <1>t, <1>3, <3>1 DEF Moves
  <2>2. rx'[i] = IF i \in due(p, tick[p] + 1) THEN popPacket(i) ELSE rx[i]
    BY Zenon, <1>3 DEF Moves, popAll
  <2>3. CASE Owner(i) = p
    <3>1. tick'[p] = tick[p] + 1 /\ ~ gone(p)
      BY Zenon, <1>0, <1>3 DEF Moves, gone, Stopped
    <3> QED BY Zenon, <2>1, <2>2, <2>3, <3>1 DEF due, ends
  <2>4. CASE Owner(i) # p
    <3>1. tick'[Owner(i)] = tick[Owner(i)] /\ i \notin due(p, tick[p] + 1)
      BY Zenon, <1>0, <1>3, <2>4 DEF Moves, due, ends
    <3> QED BY Zenon, <2>1, <2>2, <3>1
  <2> QED BY Zenon, <2>3, <2>4
<1> QED BY Zenon, <1>t, <1>1, <1>2, <1>3, Receive


LEMMA QueueFacts ==
    ASSUME Types, NEW i \in Iface
    PROVE  /\ rx[i].descQueue \in Seq(Desc) /\ rx[i].recvDone \in Nat /\ rx[i].prevRecvTick \in Nat
           /\ in[i] \in Seq(Message) /\ LinkDelay[i] \in Nat /\ txFree[Peer(i)] \in Nat
           /\ \A a \in Flow(i) : a.sendTick \in Nat /\ a.sendDelay \in Nat
<1>1. rx[i] \in Scheduler /\ in[i] \in Seq(Message) /\ LinkDelay[i] \in Nat /\ txFree[Peer(i)] \in Nat
  BY Zenon, TimeAssumption, Ends DEF Types, LinkTypes
<1>2. rx[i].descQueue \in Seq(Desc) /\ rx[i].recvDone \in Nat /\ rx[i].prevRecvTick \in Nat
  BY Zenon, <1>1 DEF Scheduler
<1>3. ASSUME NEW a \in Elems(rx[i].descQueue) PROVE a \in Desc
  <2> DEFINE T == Desc
             q == rx[i].descQueue
  <2>1. PICK k \in DOMAIN q : a = q[k]
    BY Zenon DEF Elems
  <2>2. q \in Seq(T)
    BY Zenon, <1>2
  <2> HIDE DEF T, q
  <2>3. q[k] \in T
    BY <2>2
  <2> QED BY Zenon, <2>1, <2>3 DEF T
<1>4. \A a \in Data(in[i]) : a.sendTick \in Nat /\ a.sendDelay \in Nat
  BY Zenon, <1>1, DataFacts
<1> QED BY Zenon, <1>1, <1>2, <1>3, <1>4 DEF Flow, Desc

LEMMA PushOrder ==
    ASSUME Orderly, Sound', NEW i \in Iface, pushPacket(i)
    PROVE  OrderAt(i)' /\ DueAt(i)'
<1> DEFINE m == Head(in[i])
           d == [sendTick |-> m.sendTick, sendDelay |-> m.sendDelay, epoch |-> m.epoch]
           q == rx[i].descQueue
           r == Owner(i)
<1>0. /\ Types /\ OrderAt(i) /\ DueAt(i) /\ Punctual /\ Sound /\ LocalInv(r) /\ r \in Proc /\ pushing(i) /\ rx \in [Iface -> Scheduler]
      /\ in \in [Iface -> Seq(Message)]
  BY Zenon, LinkEnds DEF Orderly, OrderInv, DueInv, Punctual, Sound, Ready, pushing, pushPacket, Types, LinkTypes
<1>1. m \in Data(in[i]) /\ in[i] # <<>> /\ m.kind = "dataDescriptor"
  BY Zenon, <1>0, Pushed DEF pushing, receives
<1>2. /\ q \in Seq(Desc) /\ in[i] \in Seq(Message) /\ m.sendTick \in Nat /\ m.sendDelay \in Nat /\ LinkDelay[i] \in Nat
      /\ \A a \in Flow(i) : a.sendTick \in Nat /\ a.sendDelay \in Nat
  BY Zenon, <1>0, <1>1, QueueFacts DEF Flow
<1>3. m \in DataMessage
  BY Zenon, <1>1, <1>2, DataFacts
<1>4. d \in Desc /\ d.sendTick = m.sendTick /\ d.sendDelay = m.sendDelay
  BY Zenon, <1>3 DEF DataMessage, Desc
<1>5. /\ in'[i] = Tail(in[i]) /\ tick' = tick /\ pc' = pc /\ txFree' = txFree
      /\ rx' = [rx EXCEPT ![i].descQueue = Append(@, d),
                          ![i].recvDone = IF rx[i].descQueue = <<>> THEN recvTick(i, d) ELSE @]
  BY Zenon, <1>0 DEF pushPacket, simVars
<1> HIDE DEF d, m
<1>6. /\ rx'[i].descQueue = Append(q, d) /\ rx'[i].prevRecvTick = rx[i].prevRecvTick
      /\ rx'[i].ckptRestore = rx[i].ckptRestore
      /\ rx'[i].recvDone = IF q = <<>> THEN recvTick(i, d) ELSE rx[i].recvDone
  BY Zenon, <1>0, <1>5 DEF Scheduler
<1>7. \A a \in Elems(q) : Gap(a, d)
  BY Zenon, <1>0, <1>1, <1>4 DEF OrderAt, Gap
<1>8. /\ Lined(Append(q, d)) /\ Elems(Append(q, d)) = Elems(q) \cup {d}
      /\ Append(q, d) # <<>> /\ Head(Append(q, d)) = IF q = <<>> THEN d ELSE Head(q)
  BY Zenon, <1>0, <1>2, <1>4, <1>7, LinedAppend DEF OrderAt
<1>9. /\ Spaced(in'[i]) /\ Data(in'[i]) \subseteq Data(in[i])
      /\ \A a \in Data(in'[i]) : Gap(d, a)
  <2>1. \A a \in Data(in'[i]) : Gap(m, a)
    BY Zenon, <1>0, <1>1, <1>2, <1>5, SpacedTail DEF OrderAt, m
  <2>2. Spaced(in'[i]) /\ Data(in'[i]) \subseteq Data(in[i])
    BY Zenon, <1>0, <1>1, <1>2, <1>5, SpacedTail DEF OrderAt
  <2> QED BY Zenon, <1>4, <2>1, <2>2 DEF Gap
<1>10. \A a \in Flow(i)' : a \in Flow(i) \/ a = d
  BY Zenon, <1>6, <1>8, <1>9 DEF Flow
<1>11. /\ d.sendDelay > 0 /\ d.sendTick + d.sendDelay <= txFree[Peer(i)] /\ rx[i].prevRecvTick <= d.sendTick + LinkDelay[i]
  BY Zenon, <1>0, <1>1, <1>4 DEF OrderAt, Flow
<1>12. OrderAt(i)'
  <2>1. \A a \in Elems(rx'[i].descQueue), b \in Data(in'[i]) : Gap(a, b)
    BY Zenon, <1>0, <1>6, <1>8, <1>9 DEF OrderAt
  <2>2. \A a \in Flow(i)' : /\ a.sendDelay > 0 /\ a.sendTick + a.sendDelay <= txFree'[Peer(i)]
                            /\ rx'[i].prevRecvTick <= a.sendTick + LinkDelay[i]
    BY Zenon, <1>0, <1>5, <1>6, <1>10, <1>11 DEF OrderAt
  <2> QED BY Zenon, <1>0, <1>5, <1>6, <1>8, <1>9, <2>1, <2>2 DEF OrderAt
<1>13. recvTick(i, d) > tick[r] /\ ~ gone(r)
  <2>1. ~ gone(r) /\ m.sendTick + m.sendDelay + LinkDelay[i] > When(r)
    BY Zenon, <1>0, Pushed, PunctualQuantum DEF SameQuantum, When, m
  <2>2. tick[r] \in Nat /\ When(r) \in Nat /\ tick[r] <= When(r)
    <3>1. tick[r] \in Nat /\ When(r) \in Nat
      BY Zenon, <1>0, Fields
    <3> QED BY <1>0, <3>1 DEF LocalInv
  <2>3. m.sendTick + m.sendDelay + LinkDelay[i] > tick[r]
    BY <1>2, <2>1, <2>2
  <2> QED BY Zenon, <1>4, <2>1, <2>3 DEF recvTick, calcReceiveTick
<1>14. DueAt(i)'
  <2>1. CASE q = <<>>
    BY Zenon, <1>0, <1>5, <1>6, <1>8, <1>13, <2>1 DEF DueAt, gone
  <2>2. CASE q # <<>>
    BY Zenon, <1>0, <1>5, <1>6, <1>8, <2>2 DEF DueAt, gone
  <2> QED BY Zenon, <2>1, <2>2
<1> QED BY Zenon, <1>12, <1>14


\* A packet is sent when those before it have left.
LEMMA SentGap ==
    ASSUME Types, NEW i \in Iface, OrderAt(i), NEW m, Sent(i, m)
    PROVE  /\ \A a \in Flow(i) : Gap(a, m)
           /\ m.sendTick \in Nat /\ m.sendDelay \in Nat /\ m.sendDelay > 0 /\ txFree[Peer(i)] <= m.sendTick
           /\ m.sendTick + m.sendDelay <= txFree'[Peer(i)]
<1>1. /\ m \in DataMessage /\ m.sendDelay \in SendDelay /\ txFree[Peer(i)] <= m.sendTick
      /\ txFree'[Peer(i)] = m.sendTick + m.sendDelay
  BY Zenon DEF Sent
<1>2. m.sendTick \in Nat /\ m.sendDelay \in Nat \ {0}
  BY Zenon, <1>1, TimeAssumption DEF DataMessage
<1>3. ASSUME NEW a \in Flow(i) PROVE Gap(a, m)
  <2>1. a.sendTick \in Nat /\ a.sendDelay \in Nat /\ txFree[Peer(i)] \in Nat
    BY Zenon, QueueFacts
  <2>2. a.sendTick + a.sendDelay <= txFree[Peer(i)]
    BY Zenon DEF OrderAt
  <2> QED BY <1>1, <1>2, <2>1, <2>2 DEF Gap
<1>4. m.sendDelay > 0 /\ m.sendTick + m.sendDelay <= txFree'[Peer(i)]
  BY <1>1, <1>2
<1> QED BY Zenon, <1>1, <1>2, <1>3, <1>4

LEMMA ChannelOrder ==
    ASSUME Types, Regular, [Next]_vars, NEW i \in Iface, OrderAt(i)
    PROVE  Spaced(in'[i])
<1>0. in[i] \in Seq(Message) /\ Spaced(in[i]) /\ LinkStep(i) /\ (\A a \in Data(in[i]) : a \in Flow(i))
  BY Zenon, QueueFacts, Link DEF OrderAt, Flow
<1>1. CASE in'[i] = in[i]
  BY Zenon, <1>0, <1>1
<1>2. ASSUME NEW m \in Message, in'[i] = Append(in[i], m), m.kind = "dataDescriptor" => Sent(i, m)
      PROVE  Spaced(in'[i])
  <2>1. m.kind = "dataDescriptor" => \A a \in Data(in[i]) : Gap(a, m)
    BY Zenon, <1>0, <1>2, SentGap
  <2> QED BY Zenon, <1>0, <1>2, <2>1, SpacedAppend
<1>3. ASSUME NEW m \in Message, m.kind # "dataDescriptor", in'[i] = Append(Append(in[i], m), [kind |-> "closed"])
      PROVE  Spaced(in'[i])
  <2> DEFINE c == [kind |-> "closed"]
             q == Append(in[i], m)
  <2>1. Spaced(q) /\ q \in Seq(Message)
    BY Zenon, <1>0, <1>3, SpacedAppend
  <2>2. c \in Message /\ c.kind # "dataDescriptor"
    BY Zenon DEF Message
  <2> HIDE DEF c, q
  <2>3. Spaced(Append(q, c))
    BY Zenon, <2>1, <2>2, SpacedAppend
  <2> QED BY Zenon, <1>3, <2>3 DEF c, q
<1>4. CASE in[i] # <<>> /\ in'[i] = Tail(in[i])
  BY Zenon, <1>0, <1>4, SpacedTail
<1> QED BY Zenon, <1>0, <1>1, <1>2, <1>3, <1>4 DEF LinkStep

LEMMA MoveOrder ==
    ASSUME Orderly, Sound', Step, [Next]_vars, NEW i \in Iface, ~ pushPacket(i)
    PROVE  OrderAt(i)' /\ DueAt(i)'
<1> DEFINE q == rx[i].descQueue
           r == Owner(i)
           tx == txFree[Peer(i)]
           h == Head(q)
<1>0. /\ Types /\ Types' /\ Regular /\ OrderAt(i) /\ DueAt(i) /\ DueInv /\ r \in Proc /\ rx[i] \in Scheduler /\ tick[r] \in Nat
  BY Zenon, LinkEnds DEF Orderly, OrderInv, DueInv, Punctual, Sound, Ready, Types, LinkTypes, SimTypes
<1>1. /\ q \in Seq(Desc) /\ rx[i].recvDone \in Nat /\ rx[i].prevRecvTick \in Nat /\ LinkDelay[i] \in Nat /\ tx \in Nat
      /\ \A a \in Flow(i) : a.sendTick \in Nat /\ a.sendDelay \in Nat
  BY Zenon, <1>0, QueueFacts
<1>2. /\ txFree'[Peer(i)] >= tx
      /\ \/ /\ rx'[i] = rx[i]
            /\ \/ tick'[r] = tick[r]
               \/ tick'[r] = tick[r] + 1 /\ (q # <<>> => ~ (rx[i].recvDone <= tick[r] + 1))
         \/ /\ rx'[i] = popPacket(i) /\ q # <<>> /\ ~ gone(r)
            /\ tick'[r] = tick[r] + 1 /\ rx[i].recvDone <= tick[r] + 1
  BY Zenon, <1>0, ReceiveEnd
<1>3. /\ Spaced(in'[i])
      /\ \A x \in Data(in'[i]) : x \in Data(in[i]) \/ Sent(i, x)
  BY Zenon, <1>0, ChannelOrder, PacketStep
<1>4. gone(r) => gone(r)'
  BY Zenon, <1>0 DEF Step, StayGone
<1>5. txFree'[Peer(i)] \in Nat
  BY Zenon, <1>0, Ends DEF Types, LinkTypes
<1> DEFINE Kept == /\ Lined(rx'[i].descQueue) /\ Elems(rx'[i].descQueue) \subseteq Elems(q)
                   /\ rx'[i].prevRecvTick \in Nat /\ rx'[i].prevRecvTick <= tx + LinkDelay[i]
                   /\ \A a \in Elems(rx'[i].descQueue) \cup Data(in[i]) : rx'[i].prevRecvTick <= a.sendTick + LinkDelay[i]
<1> HIDE DEF r, q, tx
<1>6. ASSUME rx'[i] = rx[i],
             \/ tick'[r] = tick[r]
             \/ tick'[r] = tick[r] + 1 /\ (q # <<>> => ~ (rx[i].recvDone <= tick[r] + 1))
      PROVE  Kept /\ DueAt(i)'
  <2>1. Kept
    BY Zenon, <1>0, <1>1, <1>6 DEF OrderAt, Flow, q, tx
  <2>2. DueAt(i)'
    <3>1. ASSUME q # <<>>, ~ gone(r)' PROVE rx[i].recvDone > tick'[r]
      <4>1. rx[i].recvDone > tick[r]
        BY Zenon, <1>0, <1>4, <3>1 DEF DueAt, q, r
      <4>2. CASE tick'[r] = tick[r]
        BY Zenon, <4>1, <4>2
      <4>3. CASE tick'[r] # tick[r]
        <5>1. tick'[r] = tick[r] + 1 /\ ~ (rx[i].recvDone <= tick[r] + 1)
          BY Zenon, <1>6, <3>1, <4>3
        <5> QED BY <1>0, <1>1, <5>1
      <4> QED BY Zenon, <4>2, <4>3
    <3> QED BY Zenon, <1>0, <1>6, <3>1 DEF DueAt, q, r
  <2> QED BY Zenon, <2>1, <2>2
<1>7. ASSUME rx'[i] = popPacket(i), q # <<>>, ~ gone(r), tick'[r] = tick[r] + 1, rx[i].recvDone <= tick[r] + 1
      PROVE  Kept /\ DueAt(i)'
  <2>1. /\ rx'[i].descQueue = Tail(q) /\ rx'[i].prevRecvTick = rx[i].recvDone
        /\ rx'[i].ckptRestore = rx[i].ckptRestore
        /\ rx'[i].recvDone = IF Tail(q) = <<>> THEN 0 ELSE recvTick(i, Head(Tail(q)))
    BY Zenon, <1>0, <1>7 DEF popPacket, Scheduler, q
  <2>2. /\ Lined(Tail(q)) /\ Elems(Tail(q)) \subseteq Elems(q) /\ h \in Elems(q)
        /\ \A a \in Elems(Tail(q)) : Gap(h, a)
        /\ Tail(q) # <<>> => Head(Tail(q)) \in Elems(Tail(q))
    BY Zenon, <1>0, <1>1, <1>7, LinedTail DEF OrderAt, q
  <2>3. /\ rx[i].recvDone = h.sendTick + h.sendDelay + LinkDelay[i] /\ rx[i].recvDone > tick[r]
        /\ \A a \in Elems(Tail(q)) \cup Data(in[i]) : Gap(h, a)
        /\ h.sendTick + h.sendDelay <= tx /\ h.sendTick \in Nat /\ h.sendDelay \in Nat
    BY Zenon, <1>0, <1>1, <1>7, <2>2 DEF DueAt, OrderAt, Flow, recvTick, calcReceiveTick, q, r, tx
  <2> HIDE DEF h
  <2>4. Kept
    <3>1. rx[i].recvDone <= tx + LinkDelay[i]
      BY <1>1, <2>3
    <3>2. ASSUME NEW a \in Elems(Tail(q)) \cup Data(in[i]) PROVE rx[i].recvDone <= a.sendTick + LinkDelay[i]
      <4>1. a.sendTick \in Nat
        BY Zenon, <1>1, <2>2 DEF Flow, q
      <4>2. h.sendTick + h.sendDelay <= a.sendTick
        BY Zenon, <2>3 DEF Gap
      <4> QED BY <1>1, <2>3, <4>1, <4>2
    <3> QED BY Zenon, <1>1, <2>1, <2>2, <3>1, <3>2
  <2>5. DueAt(i)'
    <3>1. ASSUME Tail(q) # <<>> PROVE recvTick(i, Head(Tail(q))) > tick'[r]
      <4> DEFINE g == Head(Tail(q))
      <4>1. Gap(h, g) /\ g \in Flow(i)
        BY Zenon, <2>2, <2>3, <3>1 DEF Flow, q
      <4>2. g.sendTick \in Nat /\ g.sendDelay \in Nat /\ g.sendDelay > 0
        BY Zenon, <1>0, <1>1, <4>1 DEF OrderAt
      <4> HIDE DEF g
      <4>3. g.sendTick + g.sendDelay + LinkDelay[i] > tick[r] + 1
        <5> DEFINE a == h.sendTick + h.sendDelay
                   L == LinkDelay[i]
        <5>1. a \in Nat /\ L \in Nat /\ a <= g.sendTick /\ tick[r] \in Nat
          BY <1>0, <1>1, <2>3, <4>1 DEF Gap
        <5>2. a + L > tick[r]
          BY <2>3
        <5> HIDE DEF a, L
        <5> QED BY <4>2, <5>1, <5>2 DEF L
      <4> QED BY Zenon, <1>7, <4>3 DEF recvTick, calcReceiveTick, g
    <3> QED BY Zenon, <1>0, <2>1, <3>1 DEF DueAt, r
  <2> QED BY Zenon, <2>4, <2>5
<1>8. Kept /\ DueAt(i)'
  BY Zenon, <1>2, <1>6, <1>7
<1> DEFINE P == rx'[i].prevRecvTick
           L == LinkDelay[i]
<1>9. ASSUME NEW a \in Flow(i)'
      PROVE  /\ a.sendDelay > 0 /\ a.sendTick + a.sendDelay <= txFree'[Peer(i)]
             /\ P <= a.sendTick + L
  <2>1. CASE a \in Elems(rx'[i].descQueue) \cup Data(in[i])
    <3>1. a \in Flow(i)
      BY Zenon, <1>8, <2>1 DEF Flow, q
    <3>2. a.sendDelay > 0 /\ a.sendTick + a.sendDelay <= tx /\ a.sendTick \in Nat /\ a.sendDelay \in Nat
      BY Zenon, <1>0, <1>1, <3>1 DEF OrderAt, tx
    <3>3. a.sendTick + a.sendDelay <= txFree'[Peer(i)]
      BY <1>1, <1>2, <1>5, <3>2
    <3> QED BY Zenon, <1>8, <2>1, <3>2, <3>3
  <2>2. CASE Sent(i, a)
    <3>1. a.sendTick \in Nat /\ a.sendDelay > 0 /\ tx <= a.sendTick /\ a.sendTick + a.sendDelay <= txFree'[Peer(i)]
      BY Zenon, <1>0, <2>2, SentGap DEF tx
    <3>2. P <= tx + L /\ P \in Nat /\ L \in Nat
      BY Zenon, <1>1, <1>8
    <3> HIDE DEF P, L
    <3>3. P <= a.sendTick + L
      BY <1>1, <3>1, <3>2
    <3> QED BY Zenon, <3>1, <3>3
  <2> QED BY Zenon, <1>3, <2>1, <2>2 DEF Flow
<1>10. \A a \in Elems(rx'[i].descQueue), b \in Data(in'[i]) : Gap(a, b)
  BY Zenon, <1>0, <1>3, <1>8, SentGap DEF OrderAt, Flow, q
<1>11. P <= txFree'[Peer(i)] + L
  <2>1. P <= tx + L /\ P \in Nat /\ L \in Nat
    BY Zenon, <1>1, <1>8
  <2> HIDE DEF P, L
  <2> QED BY <1>1, <1>2, <1>5, <2>1
<1>12. OrderAt(i)'
  BY Zenon, <1>3, <1>8, <1>9, <1>10, <1>11 DEF OrderAt
<1> QED BY Zenon, <1>8, <1>12

LEMMA OrderlyAlways == Orderly /\ [Next]_vars => Orderly'
<1> SUFFICES ASSUME Orderly, [Next]_vars PROVE Orderly'
  BY Zenon
<1>1. Sound' /\ Step
  BY Zenon, SoundStep DEF Orderly, Punctual
<1>2. Punctual'
  BY Zenon, PunctualAlways DEF Orderly
<1>3. ASSUME NEW i \in Iface PROVE OrderAt(i)' /\ DueAt(i)'
  BY Zenon, <1>1, PushOrder, MoveOrder
<1> QED BY Zenon, <1>2, <1>3 DEF Orderly, OrderInv, DueInv

LEMMA OrderlyInit == Punctual /\ Init => Orderly
<1> SUFFICES ASSUME Punctual, Init, NEW i \in Iface PROVE OrderAt(i) /\ DueAt(i)
  BY Zenon DEF Orderly, OrderInv, DueInv
<1>1. in[i] = <<>> /\ rx[i] = newRx /\ txFree[Peer(i)] = 0 /\ LinkDelay[i] \in Nat
  BY Zenon, TimeAssumption, Ends DEF Init
<1>2. rx[i].descQueue = <<>> /\ rx[i].prevRecvTick = 0 /\ ~ rx[i].ckptRestore
  BY <1>1 DEF newRx
<1>3. Data(in[i]) = {} /\ Elems(rx[i].descQueue) = {} /\ Spaced(in[i]) /\ Lined(rx[i].descQueue)
  BY <1>1, <1>2 DEF Data, Msgs, Elems, Spaced, Lined
<1>4. rx[i].prevRecvTick <= txFree[Peer(i)] + LinkDelay[i]
  BY <1>1, <1>2
<1> QED BY Zenon, <1>2, <1>3, <1>4 DEF OrderAt, DueAt, Flow

LEMMA OrderlySchedulable == Orderly => Schedulable
<1> SUFFICES ASSUME Orderly, NEW i \in Iface
             PROVE  LET p == Owner(i)
                        q == rx[i].descQueue
                        m == Head(in[i])
                        t == recvTick(i, m)
                    IN  /\ pushing(i) => /\ t > tick[p] /\ t >= rx[i].prevRecvTick + m.sendDelay
                                         /\ q # <<>> => Head(q).sendTick + Head(q).sendDelay <= t
                        /\ q # <<>> /\ ~ gone(p) /\ ~ rx[i].ckptRestore => rx[i].recvDone >= tick[p]
                        /\ Len(q) >= 2 /\ ~ rx[i].ckptRestore
                             => recvTick(i, q[2]) >= rx[i].recvDone + q[2].sendDelay
  BY Zenon DEF Schedulable
<1> DEFINE r == Owner(i)
           q == rx[i].descQueue
           m == Head(in[i])
           L == LinkDelay[i]
           P == rx[i].prevRecvTick
           h == Head(q)
<1>0. Types /\ OrderAt(i) /\ DueAt(i) /\ Punctual /\ r \in Proc /\ LocalInv(r)
  BY Zenon, LinkEnds DEF Orderly, OrderInv, DueInv, Punctual, Sound, Ready
<1>1. /\ q \in Seq(Desc) /\ rx[i].recvDone \in Nat /\ P \in Nat /\ L \in Nat
      /\ \A a \in Flow(i) : a.sendTick \in Nat /\ a.sendDelay \in Nat
  BY Zenon, <1>0, QueueFacts
<1>2. tick[r] \in Nat /\ When(r) \in Nat
  BY Zenon, <1>0, Fields
<1>3. q # <<>> => h \in Elems(q) /\ (Len(q) >= 2 => q[2] \in Flow(i) /\ Gap(h, q[2]))
  <2> SUFFICES ASSUME q # <<>> PROVE h \in Elems(q) /\ (Len(q) >= 2 => q[2] \in Flow(i) /\ Gap(h, q[2]))
    BY Zenon
  <2>1. Lined(q)
    BY Zenon, <1>0 DEF OrderAt
  <2>2. Elems(q) \subseteq Flow(i)
    BY Zenon DEF Flow
  <2> HIDE DEF q
  <2>3. /\ Elems(Tail(q)) \subseteq Elems(q) /\ Head(q) \in Elems(q) /\ (\A a \in Elems(Tail(q)) : Gap(Head(q), a))
        /\ Tail(q) # <<>> => Head(Tail(q)) \in Elems(Tail(q))
        /\ Len(q) >= 2 => Tail(q) # <<>> /\ Head(Tail(q)) = q[2]
    BY Zenon, <1>1, <2>1, LinedTail
  <2>4. Len(q) >= 2 => q[2] \in Elems(Tail(q))
    BY Zenon, <2>3
  <2> QED BY Zenon, <2>2, <2>3, <2>4
<1>4. ASSUME pushing(i)
      PROVE  /\ recvTick(i, m) > tick[r] /\ recvTick(i, m) >= P + m.sendDelay
             /\ q # <<>> => h.sendTick + h.sendDelay <= recvTick(i, m)
  <2>1. m \in Data(in[i]) /\ m.sendTick + m.sendDelay + L > When(r)
    BY Zenon, <1>0, <1>4, Pushed, PunctualQuantum DEF SameQuantum, When
  <2>2. m.sendTick \in Nat /\ m.sendDelay \in Nat /\ P <= m.sendTick + L
    BY Zenon, <1>0, <1>1, <2>1 DEF OrderAt, Flow
  <2>3. q # <<>> => h.sendTick \in Nat /\ h.sendDelay \in Nat /\ h.sendTick + h.sendDelay <= m.sendTick
    BY Zenon, <1>0, <1>1, <1>3, <2>1 DEF OrderAt, Flow, Gap
  <2>4. tick[r] <= When(r)
    BY <1>0, <1>2 DEF LocalInv
  <2> HIDE DEF r, q, m, L, P, h
  <2>5. /\ m.sendTick + m.sendDelay + L > tick[r] /\ m.sendTick + m.sendDelay + L >= P + m.sendDelay
        /\ q # <<>> => h.sendTick + h.sendDelay <= m.sendTick + m.sendDelay + L
    BY <1>1, <1>2, <2>1, <2>2, <2>3, <2>4
  <2> QED BY Zenon, <2>5 DEF recvTick, calcReceiveTick, L
<1>5. ASSUME q # <<>>, ~ gone(r) PROVE rx[i].recvDone >= tick[r]
  <2>1. rx[i].recvDone > tick[r]
    BY Zenon, <1>0, <1>5 DEF DueAt
  <2> QED BY <1>1, <1>2, <2>1
<1>6. ASSUME Len(q) >= 2 PROVE recvTick(i, q[2]) >= rx[i].recvDone + q[2].sendDelay
  <2>1. q # <<>>
    BY <1>6
  <2>2. rx[i].recvDone = h.sendTick + h.sendDelay + L /\ h.sendTick + h.sendDelay <= q[2].sendTick
    BY Zenon, <1>0, <1>3, <1>6, <2>1 DEF DueAt, recvTick, calcReceiveTick, Gap
  <2>3. q[2].sendTick \in Nat /\ q[2].sendDelay \in Nat /\ h.sendTick \in Nat /\ h.sendDelay \in Nat
    BY Zenon, <1>1, <1>3, <1>6, <2>1 DEF Flow
  <2> HIDE DEF q, L, h
  <2>4. q[2].sendTick + q[2].sendDelay + L >= rx[i].recvDone + q[2].sendDelay
    <3> DEFINE a == h.sendTick + h.sendDelay
               b == q[2].sendTick
               d == q[2].sendDelay
    <3>1. a \in Nat /\ b \in Nat /\ d \in Nat /\ a <= b /\ rx[i].recvDone = a + L /\ L \in Nat
      BY <1>1, <2>2, <2>3
    <3> HIDE DEF a, b, d
    <3>2. b + d + L >= rx[i].recvDone + d
      BY <3>1
    <3> QED BY Zenon, <3>2 DEF b, d
  <2> QED BY Zenon, <2>4 DEF recvTick, calcReceiveTick, L
<1> QED BY Zenon, <1>4, <1>5, <1>6

=============================================================================
