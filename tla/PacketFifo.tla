------------------------------ MODULE PacketFifo ------------------------------
(***************************************************************************)
(* The byte-counted packet queue of the network devices                    *)
(* (gem5/src/dev/net/pktfifo.hh), as operators from a FIFO to the next.    *)
(* A packet is a sequence of bytes; length is Len.                         *)
(***************************************************************************)
EXTENDS Integers, Sequences

CONSTANT FifoSize     \* _maxsize, in bytes

ASSUME FifoAssumption == FifoSize \in Nat \ {0}

EmptyFifo == [packets |-> <<>>, size |-> 0, reserved |-> 0]

avail(f) == FifoSize - f.size - f.reserved

reserve(f, len) == [f EXCEPT !.reserved = @ + len]

\* Fault: the reservation outlives the packet it was made for.
push_keep(f, pkt) == [f EXCEPT !.packets = Append(@, pkt), !.size = @ + Len(pkt)]

push(f, pkt) ==
    [packets |-> Append(f.packets, pkt), size |-> f.size + Len(pkt), reserved |-> 0]

\* The assertions of push(), and the success its caller asserts.
pushable(f, pkt) ==
    /\ Len(pkt) > 0
    /\ f.reserved <= Len(pkt)
    /\ avail(f) >= Len(pkt) - f.reserved

pop(f) ==
    [f EXCEPT !.packets = Tail(@), !.size = @ - Len(Head(f.packets))]
=============================================================================
