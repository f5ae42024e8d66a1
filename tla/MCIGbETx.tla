------------------------------ MODULE MCIGbETx -------------------------------
(* Instances of IGbETx for TLC. *)
EXTENDS IGbETx, TLC

plain(segs) == [segs |-> segs, offload |-> 0, hdr |-> 0, mss |-> 0]
csum(segs, ctx) == [segs |-> segs, offload |-> ctx, hdr |-> 0, mss |-> 0]
tso(segs, hdr, mss) == [segs |-> segs, offload |-> 9, hdr |-> hdr, mss |-> mss]

Queue(wthresh, rs, free, pkts) ==
    [wthresh |-> wthresh, tx_rs_thresh |-> rs, tx_free_thresh |-> free, load |-> pkts]

\* Multi-segment packets and reused contexts; segments that cross descriptors,
\* a header in a descriptor of its own, several frames from one descriptor; and
\* a writeback threshold.
MCSetups ==
    {Queue(0, 2, 2, <<plain(<<2>>), csum(<<1, 2>>, 1), csum(<<2>>, 1), plain(<<1>>), plain(<<1>>)>>),
     Queue(0, 2, 2, <<tso(<<2, 2, 1>>, 1, 3), plain(<<2>>), tso(<<1, 3>>, 1, 2)>>),
     Queue(0, 2, 2, <<tso(<<2, 1, 1>>, 1, 1), plain(<<1, 1>>), tso(<<1, 3>>, 1, 2)>>),
     Queue(0, 2, 2, <<tso(<<4>>, 1, 2), csum(<<1, 1>>, 1), csum(<<2>>, 2)>>),
     Queue(1, 1, 1, <<plain(<<1>>), plain(<<1, 1>>), plain(<<2>>), plain(<<1>>)>>)}
=============================================================================
