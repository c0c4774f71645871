--------------------------- MODULE MCTinyPBCoder ---------------------------
(* TinyPBCoder for TLC: packets with the bytes that could mislead the scan. *)
EXTENDS Outbound

Pkt(type, name, error, data) ==
    [type |-> type, id |-> <<>>, name |-> name, error |-> error, data |-> data]

\* A keepalive without a name; a call whose data looks like the beginning and
\* the end of packets; a reply with an error and no data; one with odd bytes in
\* name and error.
MCPackets ==
    {Pkt(1, <<>>, 0, <<>>),
     Pkt(0, <<79, 46>>, 0, <<3, 2, 0, 0, 0, 2, 3>>),
     Pkt(2, <<79>>, 10000008, <<>>),
     Pkt(0, <<3, 2>>, 515, <<2>>)}

MCNoise == {<<0, 3>>}

MCDefaultId == <<49, 50>>
=============================================================================
