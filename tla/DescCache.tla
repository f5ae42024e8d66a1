------------------------------ MODULE DescCache ------------------------------
(***************************************************************************)
(* The on-chip descriptor cache of the IGbE network card                   *)
(* (gem5/src/dev/net/i8254xGBe.{hh,cc}, template class IGbE::DescCache).   *)
(*                                                                         *)
(* The card keeps, for one descriptor ring in host memory, the descriptors *)
(* it has fetched and not yet filled (unusedCache) and the ones it has     *)
(* filled and not yet written back (usedCache).  Methods of the class call *)
(* each other inside one event handler, so they are modelled as operators  *)
(* from a cache state to the next one; the modules that own a cache        *)
(* compose them into one action per handler.                               *)
(*                                                                         *)
(* A DMA goes through three stages, and so do fetchEv and wbEv:            *)
(*   "delay"  the fetchDelayEvent / wbDelayEvent is scheduled,             *)
(*   "dma"    the request is in the DMA port,                              *)
(*   "comp"   the port has answered, the completion event (fetchEvent /    *)
(*            wbEvent) is scheduled and has not run yet.                   *)
(***************************************************************************)
EXTENDS Integers, Sequences

CONSTANTS
    RingLen,      \* descLen(): number of descriptors in the ring
    CacheSize     \* size: number of descriptors the card can hold

ASSUME RingAssumption == RingLen \in Nat \ {0}
ASSUME CacheAssumption == CacheSize \in Nat \ {0}

Slot == 0 .. RingLen - 1

Stage == {"idle", "delay", "dma", "comp"}

(***************************************************************************)
(* The alignment masks writeback() is called with.  cacheBlockSize() is 64 *)
(* and a descriptor has 16 bytes, so a full block is 4 descriptors (mask   *)
(* 3); a WTHRESH below 4 gives the mask WTHRESH - 1, a uint32_t, which for *)
(* WTHRESH = 0 wraps to 2^32 - 1.  AllOnes stands for that value: it is    *)
(* above every other mask and clears every count of descriptors.           *)
(***************************************************************************)
AllOnes == 1048575
BlockMask == 3
Mask == {0, 1, 2, BlockMask, AllOnes}

\* n & ~m, for the masks above
AndNot(n, m) ==
    CASE m = 0 -> n
      [] m = 1 -> n - (n % 2)
      [] m = 2 -> n - (IF n % 4 >= 2 THEN 2 ELSE 0)
      [] m = 3 -> n - (n % 4)
      [] OTHER -> 0

\* Fault: the free space of the cache does not limit a fetch.
MinOf_first(a, b) == a

MinOf(a, b) == IF a <= b THEN a ELSE b

\* Fault: the head is wrapped one step late.
Advance_late(i, n) == IF i + n > RingLen THEN i + n - RingLen ELSE i + n

\* The ring index n steps after index i (n at most RingLen).
Advance(i, n) == IF i + n >= RingLen THEN i + n - RingLen ELSE i + n

(***************************************************************************)
(* A cache: the two queues, the bookkeeping of the two transfers and the   *)
(* head and tail registers the queues are kept against.  A descriptor      *)
(* carries in slot the ring index it was fetched from.                     *)
(***************************************************************************)
EmptyCache ==
    [usedCache |-> <<>>, unusedCache |-> <<>>, cachePnt |-> 0,
     curFetching |-> 0, fetchEv |-> "idle",
     wbOut |-> 0, moreToWb |-> FALSE, wbAlignment |-> 0, wbEv |-> "idle",
     head |-> 0, tail |-> 0]

descUsed(c) == Len(c.usedCache)
descUnused(c) == Len(c.unusedCache)

\* Descriptors the card may still fill: cached ones, and those up to the tail.
descLeft(c) ==
    descUnused(c) + (IF c.cachePnt > c.tail
                     THEN RingLen - c.cachePnt + c.tail
                     ELSE c.tail - c.cachePnt)

(***************************************************************************)
(* Start writing back the used descriptors, up to the end of the ring or   *)
(* down to a multiple of the alignment.  A request made while a writeback  *)
(* is out is remembered only when it is less restrictive than the one out. *)
(***************************************************************************)
writeback(c, aMask) ==
    LET toEnd == descUsed(c) + c.head >= RingLen
        max_to_wb == IF toEnd THEN RingLen - c.head ELSE AndNot(descUsed(c), aMask)
        c1 == [c EXCEPT !.moreToWb = toEnd, !.wbAlignment = aMask]
    IN  IF c.wbOut # 0
        THEN IF aMask < c.wbAlignment
             THEN [c EXCEPT !.moreToWb = TRUE, !.wbAlignment = aMask]
             ELSE c
        ELSE IF max_to_wb <= 0
             THEN c1
             ELSE [c1 EXCEPT !.wbOut = max_to_wb, !.wbEv = "delay"]

\* Start fetching descriptors up to the tail or the end of the ring.
fetchDescriptors(c) ==
    LET toTail == IF c.tail >= c.cachePnt THEN c.tail - c.cachePnt
                                          ELSE RingLen - c.cachePnt
        free_cache == CacheSize - descUsed(c) - descUnused(c)
        max_to_fetch == MinOf(toTail, free_cache)
    IN  IF c.curFetching # 0 \/ max_to_fetch = 0
        THEN c
        ELSE [c EXCEPT !.curFetching = max_to_fetch, !.fetchEv = "delay"]

\* fetchComplete() up to enableSm(): newDesc are the descriptors fetched.
fetchComplete(c, newDesc) ==
    [c EXCEPT !.unusedCache = @ \o newDesc,
              !.cachePnt = IF @ + c.curFetching = RingLen THEN 0 ELSE @ + c.curFetching,
              !.curFetching = 0,
              !.fetchEv = "idle"]

\* wbComplete() up to checkDrain(): drop what was written, move the head, and
\* start the follow-up writeback if there is one.
wbComplete(c) ==
    LET c1 == [c EXCEPT !.usedCache = SubSeq(@, c.wbOut + 1, Len(@)),
                        !.head = Advance(@, c.wbOut),
                        !.wbOut = 0,
                        !.wbEv = "idle"]
    IN  IF c.moreToWb THEN writeback([c1 EXCEPT !.moreToWb = FALSE], c.wbAlignment)
                      ELSE c1

\* The descriptor at the front of unusedCache has been filled, as desc.
descDone(c, desc) ==
    [c EXCEPT !.unusedCache = Tail(@), !.usedCache = Append(@, desc)]

\* Host memory locations of the transfers that are out.
FetchSlots(c) == [i \in 1 .. c.curFetching |-> c.cachePnt + i - 1]
WbSlots(c) == [i \in 1 .. c.wbOut |-> c.head + i - 1]
=============================================================================
