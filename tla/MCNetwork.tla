------------------------------ MODULE MCNetwork ------------------------------
(***************************************************************************)
(* An instance of Network for TLC: addresses whose order differs from byte *)
(* to byte, two ports of one address, a connection and its reverse, IPv6;  *)
(* texts of even and odd length, one with a UDP checksum of zero and one   *)
(* whose carry carries.                                                    *)
(***************************************************************************)
EXTENDS Network

Low == <<10, 0, 0, 200>>
High == <<10, 0, 1, 200>>
Six(n) == <<32, 1>> \o Zeros(13) \o <<n>>

Tuple(src, srcPort, dst, dstPort) ==
    [SrcIP |-> src, SrcPort |-> srcPort, DstIP |-> dst, DstPort |-> dstPort]

MCConnections ==
    {Tuple(Low, 40000, High, 443), Tuple(High, 443, Low, 40000), Tuple(Low, 443, High, 443),
     Tuple(Low, 40000, Low, 443), Tuple(Low, 443, Low, 40000),
     Tuple(Six(1), 443, Six(2), 443), Tuple(Six(1), 443, Six(3), 443)}

MCTexts == {<<200>>, <<75, 79>>, <<223, 108>>}
MCOptionLists == {<<>>, <<1, 1, 1, 0>>}
MCMarks == {<<1, 216>>}   \* NS, CWR and ECE with ACK and PSH
MCFragments == {16384, 8192 + 8191}
MCTTLs == {1, 255}
=============================================================================
