# The network path of the simulated machine, in TLA+

The repository runs DPDK applications on a simulated machine: gem5 models the
machine, with an Intel 8254x network card (`IGbE`), a load generator at the other
end of its Ethernet link, and a distributed mode that runs several simulators in
step; buildroot packages a DPDK whose `em` poll-mode driver drives the card. This
directory holds TLA+ models of that network path, TLC configurations that check
them on small instances, and TLAPS proofs for instances of every size.

## The system's parts

| part | source | model |
| --- | --- | --- |
| descriptor cache of a ring | `gem5/src/dev/net/i8254xGBe.{hh,cc}`, `DescCache` | `DescCache`, without `reset` and `areaChanged` |
| receive side of the card | `i8254xGBe.cc`: `ethRxPkt`, `rxStateMachine`, `RxDescCache` | `IGbERx`, legacy descriptors |
| em receive driver | DPDK `drivers/net/e1000/em_rxtx.c`: `eth_em_recv_pkts` | `IGbERx` |
| transmit side of the card | `i8254xGBe.cc`: `txStateMachine`, `TxDescCache`, `txWire`, `ethTxDone` | `IGbETx` |
| em transmit driver | `em_rxtx.c`: `eth_em_xmit_pkts`, `em_xmit_cleanup` | `IGbETx` |
| packet FIFO | `pktfifo.hh` | `PacketFifo`, used by `IGbETx` |
| drain, checkpoint, restore | `sim/drain.cc`, `dev/dma_device.cc`, `IGbE::drain`, `checkDrain`, `serialize`, `m5/simulate.py` | in `IGbERx` and `IGbETx`, for the card and its DMA port |
| Ethernet link | `etherlink.cc` | `EtherLink`, used by `LoadGenerator` |
| load generator | `load_generator.cc` | `LoadGenerator` |
| distributed simulation | `dist_iface.cc`, `tcp_iface.cc`, `dist_etherlink.cc` | `DistSync` |
| interrupts and delay timers, Ethernet switch, the rest of gem5 and DPDK | | not modelled, see the end |

How they interact. The driver gives the card descriptors by writing RDT or TDT; the
card fetches them into `unusedCache` by DMA. Receiving, it writes each frame of its
FIFO into the buffer of the first one; transmitting, it reads the buffers of one or
more into a frame, which waits in the transmit FIFO for the link. The descriptor
moves to `usedCache` and is written back with the DD bit; completing a writeback
moves RDH or TDH. The driver polls DD to take frames or to free buffers. Each DMA is
three events apart: a delay event issues it, the DMA port gets the response, a
completion event processes it. A checkpoint stops the card between any two of these.
In timing mode the response comes late and its event at once; in atomic mode, in which
the repository's scripts take their checkpoints, it is the other way round.
The load generator sends frames over the link and counts those that come back. In a
distributed simulation each machine is a process, and a periodic barrier through the
switch process keeps their clocks within a quantum, so that a packet can be
scheduled at its exact receive tick.

## Modules

- `FrameChannel`: abstract specification of a path of the network. What has been
  accepted comes out once and in order. The receive path, the transmit path and both
  directions of a link are shown to implement it.
- `Lockstep`: abstract specification of the barrier. Clocks meet at every barrier.
- `DescCache`: the cache of one ring as a record, and its methods (`writeback`,
  `fetchDescriptors`, `fetchComplete`, `wbComplete`, ...) as operators from a cache to
  a cache. The C++ methods call each other within one event, so the actions that
  compose them live in the modules that own a cache. `PacketFifo` and `EtherLink` are
  built the same way.
- `IGbERx`: `cache` is `rxDescCache` with RDH and RDT (`head`, `tail`); `rxFifo`,
  `pktPtr`, `pktDone`, `rxDmaPacket` are the variables of those names; `sm` holds
  `rxTick`, whether `tickEvent` is scheduled, and the card's drain state; `port` and
  `mgr` are the drain states of the `DmaPort` and the `DrainManager`; `ring` and `buf`
  are host memory; `drv` is the driver's queue.

  | action | code |
  | --- | --- |
  | `ethRxPkt` | frame from the link, dropped if the FIFO is full |
  | `tick` | `tick()` and `rxStateMachine()`, with its outcomes as disjuncts |
  | `fetchDescriptors1`, `writeback1` | delay events that issue the DMA |
  | `fetchResp`, `wbResp`, `pktResp` | `DmaPort::handleResp` |
  | `fetchEvent`, `wbEvent`, `pktComplete` | completion events |
  | `recvDesc`, `recvEnd` | one iteration of `eth_em_recv_pkts`, and its end with the RDT write |
  | `tryDrain`, `drainResume`, `restore` | checkpoint request or retry, continuing, continuing from the checkpoint in a new process |

- `IGbETx`: the same for the other direction. `tx` is the packet and segmentation
  state of `txDescCache`, `txPacket` the frame being put together, `pktEv` and `hdrEv`
  the stages of the data and header DMAs; `ring`, `sw_ring` and `txq` are the driver's.

  | action | code |
  | --- | --- |
  | `tick` | `tick()`: `txStateMachine()`, with its outcomes as disjuncts, then `txWire()` |
  | `fetchDescriptors1`, `writeback1`, `fetchResp`, `wbResp`, `pktResp`, `hdrResp`, `fetchEvent`, `wbEvent` | as above |
  | `pktComplete`, `headerComplete`, `ethTxDone` | completion of a data or header DMA, and of a transfer on the link |
  | `xmitStart`, `xmitClean`, `xmitPkt`, `xmitEnd` | `eth_em_xmit_pkts`: cleanup on entry, cleanup for room, one packet, the TDT write |

- `LoadGenerator`: `lg` is the generator, `link` the two directions, `dut` the card,
  its driver and the forwarding application, which are external and only assumed to
  lose frames on arrival or send them back in order within a time. Actions are the
  generator's two events (`sendPacket`, `checkLoss`), the link's two per direction
  (`transferDone`, `queueEvent`), `forward` (the card), `advance` (time) and `restore`.
- `DistSync`: one simulation thread per process and one receive thread per link end,
  sharing `Sync` and the event queue and its lock; messages on TCP connections; the
  m5 operations; killed processes; checkpoints and restores of all processes. The
  bodies of `run()` and `process()` are split where they wait or release a lock.
- `MCIGbERx`, `MCIGbETx`, `MCLoadGenerator`, `MCDistSync`: the root modules for TLC.
- `IGbERxProofs`, `IGbETxProofs`, `LoadGeneratorProofs`, `LoadLossProofs`,
  `LockstepProofs`, `DistSyncProofs`: the theorems. `DistSyncProofs` rests on
  `DistSyncSound` (what every action changes, and that the steps keep the invariant of
  the barrier) and `DistSyncData` (the same for the packets).

Abstractions. Received frames are numbers of one size, so that FIFO is counted in
frames; transmitted frames are sequences of `<<packet, byte number>>`, so that the
content of a frame shows where every byte came from. A descriptor is its slot, what
it is for, and its RS and DD bits. The C++ `descLeft < 32` is the constant `LowWater`;
the generator's 1000 frames, 10 losses and 100000000 ticks are constants too.
Registers are as `eth_em_rx_init` and `eth_em_tx_init` leave them for this card. Each
direction of the card is modelled with the other one idle. The em driver never asks
for segmentation (TSO); packets with a header length stand for those of another
driver and exercise the card's code for it. The bytes of a fetch are read in
`fetchEvent` and those of a writeback written in `wbResp`; the slots belong to the
card in between, so the moment does not matter. `restore` merges the checkpoint with
the state it was taken in, because no event runs while the system is drained.
Operators whose comment starts with "Fault" are mutated forms of the definition that
follows them, and no specification uses them: with each in place of the original, TLC
finds the property it is paired with in `PROJECT.json` violated.

Assumptions on the set-up, stated in the modules (`Setup`). Transmit: the RS and the
free threshold fit in the ring together; otherwise the DD bits the ring is initialised
with are taken for finished descriptors by the first cleanup. Load generator: only that
it is started at a rate other than 0. The rate may be lowered to 0, which `frequency()`
divides by: the infinite quotient has no defined conversion to a tick, and the model
takes the two results of the hosts gem5 runs on, 0 (x86-64: the frames of an interval are
sent within one tick) and the largest tick (aarch64: the sum with the time is in the past,
and `schedule()` asserts). The rate may wrap around at the range of its type (`RateWord`),
and the card may keep a frame longer than the loss check allows for.

## Runs

| run | instance | shows |
| --- | --- | --- |
| `rx_small` | ring 5, cache 3, FIFO 2, 7 frames, WTHRESH 2, `rx_free_thresh` 1, checkpoints | safety, refinement of `FrameChannel`, delivery, end of drains; the cache is smaller than the ring and fills up |
| `tx` | ring 6, cache 3, FIFO 5 bytes, five workloads, checkpoints | content and order on the wire, buffers, ring ownership, progress of card and driver |
| `loadgen` | nine configurations: three modes, link delays 0 to 3, a slow card, rates that become 0 or wrap, up to one restore | loss verdicts, the allowance, the link's assertions and order, the end of the test |
| `dist_barrier` | two nodes and the switch, one packet, a checkpoint; or exits and kills | assertions, the packet in its quantum, agreement, refinement of `Lockstep` |
| `dist_stop` | the same, fair threads; also a checkpoint, one packet and a restore | a lost peer stops everybody; a collective exit ends everybody; assertions |
| `rx_drain_hang`, `rx_forced_wb`, `tx_stall`, `tx_header_lost`, `rate_stops`, `dist_toggle_hang`, `dist_restore` | | the disagreements below |

Bounds. `MaxFrames` (receive) and the workloads (transmit) exceed the ring, so that
indices wrap and descriptors are reused. The transmit workloads contain multi-segment
packets, new and reused contexts, frames that cross descriptors, several frames from
one descriptor, a header in a descriptor of its own, and a writeback threshold; the
FIFO holds little more than one frame. The generator's runs pass several loss checks,
with rates that rise, fall, cannot be lowered, become 0 and wrap around; in one
configuration the card keeps a frame for 14 ticks, so that frames of one interval come
back in the next. `maxTick`, `maxPkts` and `MaxCkpts` leave room for several barriers and
a second checkpoint; the nodes ask for one, but the request is ignored, because the first
is still marked as pending (`dist_iface.cc:277`). With the one packet of `dist_barrier`,
the clauses of `Schedulable` about two queued packets are idle: with more packets and no
restore they rest on `SchedulableTheorem`, and `dist_restore` shows that they fail with
three packets and a restore. Deadlock is not checked: after the last frame, or at the
last tick, the models may stop.

What the less obvious properties say:

- `AssertsHold`, `SyncAsserts`: the C++ assertions, and that unsigned differences
  such as `free_cache` do not wrap.
- `DescriptorOwnership`, `RingOwnership`: driver and card own each slot once.
- `DDExact`: DD is set in exactly the slots that hold a frame for the driver.
- `FrameOrder`, `WireExact`: each frame is in one place, the places are in order, and
  on the wire every byte is the one asked for.
- `BuffersHeld`: the driver has freed no buffer the card has yet to read.
- `DmaFlags` (receive): the flags agree with the DMA, and none is out when the system is
  drained. `DmaFlags` (transmit): the state machine waits while a DMA is out, and of all
  that a drained system may leave behind, and a restored card wait for in vain
  (`headerLost`), there is only the completion of a TSO header not yet loaded.
- `NotStuck`: when the clock is stopped with frames waiting, something that restarts
  it is on its way.
- `DeliveredOrParked`, `Transmitted`, `DriverProgress`: progress once checkpoints
  stop. Each names the exceptions the code has: descriptors that stay in the card without
  a writeback (`stalled`: they fill its cache; `parked`: the driver waits for one of
  them) and, transmitting, a header whose completion a checkpoint has lost.
- `Conserved`, `LossVerdict`: each frame is lost, on its way or counted. The rate is
  raised exactly when the frames missing from this interval, less the late ones of
  earlier intervals counted in it, are fewer than tolerated, as an unsigned number: late
  frames can hide lost ones, and more late frames than missing ones are taken for a loss.
- `EnoughTime`: when is "enough time for any in flight packets" (`load_generator.cc:95`)
  enough? If the allowance is longer than the frames of an interval take one after the
  other (`ample`), no frame is in flight at the check and none was late. For 1000 frames
  and an allowance of 100 us this means that a frame takes less than 100 ns. A generator
  restored with frames in flight counts them too, because nothing of it is saved; the
  interval after such a restore is excepted.
- `SameQuantum`, `Schedulable`, `WithinQuantum`: why packets can be received on time.
- `CkptAgreement`, `NetworkDrained`: all processes take a checkpoint after the same
  barrier, with nothing in the network.

Fairness. For the card, `FairSpec` assumes weak fairness of every event handler (the
event queue runs what is scheduled), of memory responses and the link, of the
driver's polling or sending, and of the retry of `tryDrain` that `m5.drain` makes; it
assumes nothing of frame arrival, checkpoints or resumes. `UndisturbedSpec` of
`IGbERx` is the same without checkpoints. For the generator it is weak fairness of
events, time and the card. In `DistSync` every thread that can run does; no workload
has to call an m5 operation.

To repeat a run: `tlc -config Tx.cfg MCIGbETx`. To check proofs:
`tlapm IGbETxProofs.tla` (the larger modules take ten to twenty minutes each from nothing).

## Where code and comments disagree

1. `rx_drain_hang`: a writeback that completes while the card drains can start a
   follow-up (`moreToWb`). `wbComplete` then skips `checkDrain`, and the follow-up's
   delay event waits for the card to run again, so the drain never completes.
   `rx_small` and `tx` show that this is the only way (`DrainCompletesOrFollowUp`).
2. `rx_forced_wb`: "No descriptors left in ring, forcing writeback" asks for
   `writeback(0)`, which is dropped when another `writeback(0)` is out. With the
   whole ring on the card (a ring of at most 64 descriptors, `rx_desc_cache_size`) its
   last frames then stay there. On a longer ring the last frames of a burst can also
   stay parked until another arrives; `rx_small` shows that nothing worse happens.
3. `tx_stall`: "No descriptors available in cache, fetching and stopping ticking". If
   the cache is full of used descriptors and no writeback is out, nothing can be
   fetched and nothing is left that writes back.
4. `tx_header_lost`: a system that `tryDrain` finds drained is to be "in a consistent
   state and ready for checkpointing" (`drain.hh:96`). `TxDescCache::hasOutstandingEvents`
   leaves out `headerEvent`, which in atomic mode is scheduled the memory's latency after
   the header has been read (`dma_device.cc:324`). A checkpoint in between keeps
   `pktWaiting` and not the event. It takes a driver that asks for segmentation; `tx`
   shows that this and `tx_stall` are the only ways the transmitter stops with packets
   in the ring (`Transmitted`).
5. `dist_toggle_hang`: a process that enters the barrier from an m5 operation holds
   the event-queue lock that its receive thread takes before it aborts the barrier.
6. `dist_restore`: on a restore all pending packets of a link get the same send tick
   (`dist_iface.cc:479`). The first is received at once and the second a link delay and
   its length later; the third is then asked for at the tick of the second, which leaves
   it no receive window and trips the assertion at `:450`.
7. `rate_stops`: `README.md:44` says the rate stops incrementing once packet loss is
   encountered; `checkLoss` lowers it and raises it again, and does not count fewer than
   ten lost frames of an interval as loss.

Met while modelling, and violated in TLC under the set-up named, which no run uses:

- `RdmtsHonoured` (`IGbERx`, a ring of 5 and a cache of 4): `i8254xGBe.cc:2249`
  compares descriptors with RDLEN, a length in bytes, where the comment speaks of
  fractions of the ring.
- `RdtNeverRdh` (`IGbERx`, a ring of 3 and a cache of 2): the driver's comment
  (`em_rxtx.c:828`) says RDT never equals RDH. The card sets DD in memory one event before
  it moves RDH, so a write of RDT can equal the old RDH. `DescriptorOwnership` shows that
  no slot gets two owners by it.
- `DistSync`, the constants of `DistBarrier.cfg` with the requests named. These are
  disagreements too; the passing runs leave these set-ups out, so they show nothing of
  the hazards at these lines:
  - `CkptAgreement`, request `ckptNow`: a node that is already at the next barrier can
    set `doCkpt` before the switch has read it for this one (`dist_iface.cc:401`), so
    the processes take an immediate checkpoint after different barriers.
  - `CkptHonoured`, request `ckpt` made twice: `needCkpt` is still pending after the
    first collective checkpoint, so the second request is dropped (`:277`).
  - `SyncAsserts`, requests `toggle` and `ckpt` with `pseudoOp` true: a checkpoint
    request made before synchronisation is switched on trips the assertion at `:347`.
  - `SameQuantum`, `quiet` false: a packet sent before the first periodic barrier
    trips the assertion at `:509`.
  - `CleanSnapshot`, request `ckpt`: a peer that resumed first can put a packet into a
    checkpoint and will send it again when restored (`:760`).

## Proofs

For all values of the constants that meet the named assumptions:

- `IGbERxProofs`: `Invariance`, `Spec => []IInv`, where `IInv` is the conjunction of
  `TypeOK`, `AssertsHold`, `DescriptorOwnership`, `DDExact`, `FrameOrder` and
  `DmaFlags`; its parts by name; `ImplementsChannel`, `Spec => ChannelSpec`; and
  `NoLostWakeUp`, `Spec => []NotStuck`.
  No conjunct of `IInv` is inductive by itself. That a writeback sets the right DD
  bits needs the slots of the used descriptors (ownership); that a fetch reads
  re-armed descriptors needs `DDExact`; that a frame lands in its place needs both, and
  `DmaFlags` for a single frame being out; that a restore loses nothing needs the
  drained part of `DmaFlags`, which needs the manager's count in `AssertsHold`. The
  argument treats the cache operators, then ring arithmetic, then one lemma per
  action; steps that move no descriptor and no frame share `QuietIInv`. `NoLostWakeUp`
  adds `WakeInv`, which says of a stopped clock why it stopped, and that whatever it
  waits for is still to come.
- `IGbETxProofs`: `WaitsForDma`, `Spec => []DmaFlags`. `hasOutstandingEvents()` leaves
  out the header's completion event; the theorem shows that this is all a drained system
  can leave behind, and that a card restored without it has loaded no part of the header.
  `IInv` adds to `DmaFlags` only that the records have the fields it reads.
- `LoadGeneratorProofs`: `LinkTheorem`, `Spec => LinkSpec`. The assertions of
  `processTxQueue` follow from a stronger statement about a link (`LinkInv`): its
  queue is in strict order of time, none of it is overdue, and the frame being
  transferred will come behind it. On top of that, what a direction has taken is what it
  has delivered, followed by its queue, followed by the frame being transferred
  (`FlowInv`).
- `LoadLossProofs`: `TypeTheorem`, `AssertsTheorem`, `ConservedTheorem`,
  `LossVerdictTheorem` and `EnoughTimeTheorem`, from the inductive invariant `LossInv`.
  Its parts: every frame is in one of the places (`PlaceInv`); an event lies in the past
  only at rate 0 (`PastInv`); the counters are the frames sent since the last check and,
  modulo `Word`, those that have come back since, of whatever interval (`CountInv`), from
  which the verdict follows without any assumption on time; and, if the allowance is
  `ample` and no frame of before a restore is counted, every frame that is not lost is
  back before the loss check (`TimeInv`), because each of the frames ahead of it takes at
  most one turn of the card and its link.
- `LockstepProofs`: `WithinQuantumTheorem`, `Spec => []WithinQuantum` of `Lockstep`,
  from the inductive invariant `InStep`.
- `DistSyncProofs`: `SyncAssertsTheorem`, `CkptAgreementTheorem`, `LockstepTheorem`
  (the refinement of `Lockstep`), `QuantumTheorem` and `TypeTheorem`, each of the form
  `Spec /\ Regular => ...`: every process takes part in the barriers from the start,
  checkpoints and exits are collective, drains may be slow, and processes may be
  killed. The number of nodes, the periods and the delays are arbitrary. Outside these
  set-ups some of the properties are false (see the end of the last section), and what
  holds of the others is model-checked.

  The inductive invariant is `Sound`. Its core is `MainInv`: while the switch is there,
  it has received the requests of some set `C` of nodes; it waits for as many as are
  left; and every process is in, or comes next to, the same barrier (`Kind`) at the
  same tick (`Meet`). `Kind` and `Meet` look ahead through answers that are still on
  the way, which is why a node that has gone on and one that has not yet read its
  acknowledgement agree. The rest says what a process knows by itself (`LocalInv`),
  what a node waits for (`NodeInv`), that a connection carries one message of a barrier
  at a time (`ChanInv`), and that no process is past a barrier that another has not
  reached (`StepInv`, which also holds when the switch has gone). `Step` lists the ten
  kinds of steps by what they change of this state; every action is shown to be one of
  them, so that the preservation proofs do not see packets, schedulers or channels.

  Three more theorems are about packets. `DrainedTheorem`, `Spec /\ Regular =>
  NetworkDrained`: nothing is in the network when a process takes its part of a
  checkpoint, because a packet travels in front of the barrier's message on the same
  connection (`SendInv`) and all processes write the same checkpoint (`EpochInv`).
  `SameQuantumTheorem` and `SchedulableTheorem` have one more hypothesis, `Timely`,
  which says what the quantum is for: the workload is quiet before the first periodic
  barrier, that barrier is no earlier than any process's period, and no link is shorter
  than the quantum (`DistBarrier.cfg` is such a set-up; without it `SameQuantum` is
  false, see above). `Punctual` adds to the above that a process that may send has the
  second periodic barrier or a later one ahead (`BeyondInv`), and that a packet on its
  way was sent after the last barrier of its receiver (`FlightInv`); `Orderly` adds that
  the packets of a link, on their way and queued, are spaced by their transmission times
  (`OrderInv`) and that the receive event is that of the first one queued and lies ahead
  (`DueInv`).

Only model-checked: the invariants of `IGbETx` other than `DmaFlags` and its refinement,
and the liveness properties. Liveness under fairness and ENABLED are out of the prover's
reach, as are induction over data and RECURSIVE operators.

## Not modelled

- Interrupts and delay timers (`postInterrupt`, `cpuPostInt`): in poll mode the em
  driver leaves receive and transmit interrupts masked and writes a delay register
  only on an 82573, so they change no state the models have.
- `RCTL.RST`, `reset` and `areaChanged`: only the base code for the 82542 writes
  `RCTL.RST`; the others run when the driver starts the device, before the first
  modelled state. Stopping and starting a device again is left out.
- Split and one-buffer receive descriptors, `eth_em_recv_scattered_pkts`, advanced
  transmit descriptors, completion writeback and VLAN tags: the modelled driver
  configuration uses none of them.
- Packet contents: checksums, the header fields that segmentation rewrites, the
  generator's time stamps and latency statistics.
- `EtherSwitch`: forwarding inside the switch process; `DistSync` has its barrier only.
- TCP connection set-up, which ends before the first modelled state, and nodes with
  several links.
- The rest of gem5 and DPDK: only the drain protocol and the DMA port meet the card,
  and mbuf allocation, which may fail at any point of the receive model.
