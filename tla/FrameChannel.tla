---------------------------- MODULE FrameChannel -----------------------------
(***************************************************************************)
(* What a path of the network promises, whatever it is made of: a frame it *)
(* has accepted comes out exactly once and in the order of acceptance.     *)
(* The receive path (card and driver), the transmit path (driver and card) *)
(* and each direction of an Ethernet link implement it.  A frame may be    *)
(* lost only before it is accepted (a full rxFifo, a busy link), so losing *)
(* one is not a step of this channel.                                      *)
(***************************************************************************)
EXTENDS Naturals, Sequences

VARIABLES
    accepted,   \* number of frames accepted; they are the frames 1 .. accepted
    delivered   \* the frames delivered, in order

Init == accepted = 0 /\ delivered = <<>>

Accept == accepted' = accepted + 1 /\ UNCHANGED delivered

Deliver == /\ Len(delivered) < accepted
           /\ delivered' = Append(delivered, Len(delivered) + 1)
           /\ UNCHANGED accepted

Next == Accept \/ Deliver

Spec == Init /\ [][Next]_<<accepted, delivered>>
=============================================================================
