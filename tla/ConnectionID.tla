---------------------------- MODULE ConnectionID ----------------------------
(***************************************************************************)
(* The name of a connection (pkg/network/connection.go) and where the      *)
(* client's handler gets the addresses for it (original_dst.go,            *)
(* handler.go).                                                            *)
(*                                                                         *)
(* An IP is the sequence of its bytes, 4 or 16 of them, as in net.IP;      *)
(* net.ParseIP gives 16 for either family, a packet 4.  A 16-bit integer   *)
(* on the wire is two bytes.  The hash is taken to be injective: an ID is  *)
(* what is hashed.                                                         *)
(***************************************************************************)
EXTENDS Integers, Sequences

CONSTANT LittleEndian   \* the machine stores integers low byte first

Byte == 0..255
TopWord == 65535         \* the largest 16-bit integer
Word == 0..TopWord
None == <<>>            \* a nil slice

PutUint16(w) == <<w \div 256, w % 256>>
Uint16(bytes, at) == 256 * bytes[at] + bytes[at + 1]
Zeros(n) == [i \in 1..n |-> 0]

(* The form in which an IPv4 address is a 16-byte one.                      *)
MappedPrefix == Zeros(10) \o <<255, 255>>
To16(ip) == IF Len(ip) = 4 THEN MappedPrefix \o ip ELSE ip

To4(ip) ==
    IF Len(ip) = 4 THEN ip
    ELSE IF Len(ip) = 16 /\ SubSeq(ip, 1, 12) = MappedPrefix THEN SubSeq(ip, 13, 16)
    ELSE None

-----------------------------------------------------------------------------
(***************************************************************************)
(* Connection IDs.                                                         *)
(***************************************************************************)
(* A shorter address first, then the first byte that differs decides.       *)
Before(a, b) ==
    \/ Len(a) < Len(b)
    \/ /\ Len(a) = Len(b)
       /\ \E i \in 1..Len(a) : a[i] < b[i] /\ \A j \in 1..(i - 1) : a[j] = b[j]

compareIPs(a, b) == IF Before(a, b) THEN -1 ELSE IF Before(b, a) THEN 1 ELSE 0

BugNoPortOrder(ip1, port1, ip2, port2) == compareIPs(ip1, ip2) > 0

(* The greater endpoint goes second, so that both directions agree.         *)
Swapped(ip1, port1, ip2, port2) ==
    LET cmp == compareIPs(ip1, ip2) IN cmp > 0 \/ (cmp = 0 /\ port1 > port2)

Hashed(ip1, port1, ip2, port2) == ip1 \o PutUint16(port1) \o ip2 \o PutUint16(port2)

BugOneForm(srcIP, srcPort, dstIP, dstPort) ==
    IF Swapped(srcIP, srcPort, dstIP, dstPort)
    THEN Hashed(dstIP, dstPort, srcIP, srcPort)
    ELSE Hashed(srcIP, srcPort, dstIP, dstPort)

GenerateConnectionID(srcIP, srcPort, dstIP, dstPort) ==
    LET both4 == To4(srcIP) # None /\ To4(dstIP) # None
        src == IF both4 THEN To4(srcIP) ELSE srcIP
        dst == IF both4 THEN To4(dstIP) ELSE dstIP
    IN  IF Swapped(src, srcPort, dst, dstPort)
        THEN Hashed(dst, dstPort, src, srcPort)
        ELSE Hashed(src, srcPort, dst, dstPort)

GenerateConnectionIDFromTuple(ft) ==
    GenerateConnectionID(ft.SrcIP, ft.SrcPort, ft.DstIP, ft.DstPort)

Reverse(ft) ==
    [SrcIP |-> ft.DstIP, SrcPort |-> ft.DstPort, DstIP |-> ft.SrcIP, DstPort |-> ft.SrcPort]

-----------------------------------------------------------------------------
(***************************************************************************)
(* The destination an application meant.  nat is what conntrack remembers  *)
(* of a redirected connection: family and destination.  A connection of    *)
(* IPv4 answers SO_ORIGINAL_DST at SOL_IP only, one of IPv6 at SOL_IPV6    *)
(* only, and one that was not redirected at neither.                       *)
(***************************************************************************)
(* The kernel stores the port high byte first; Go reads it as the machine   *)
(* does.                                                                    *)
RawPort(port) == IF LittleEndian THEN 256 * (port % 256) + (port \div 256) ELSE port

SwapBytes(raw) == (raw \div 256) + 256 * (raw % 256)

NoDest == [ip |-> None, port |-> 0]

getsockopt(nat, family) ==
    IF nat.family = family THEN [ip |-> nat.ip, port |-> RawPort(nat.port)] ELSE NoDest

GetOriginalDest(nat) ==
    LET addr == getsockopt(nat, "ip4")
    IN  IF addr = NoDest THEN NoDest ELSE [ip |-> To16(addr.ip), port |-> SwapBytes(addr.port)]

GetOriginalDestIPv6(nat) ==
    LET addr == getsockopt(nat, "ip6")
    IN  IF addr = NoDest THEN NoDest ELSE [ip |-> addr.ip, port |-> SwapBytes(addr.port)]

GetOriginalDestAuto(nat) ==
    IF GetOriginalDest(nat) # NoDest THEN GetOriginalDest(nat) ELSE GetOriginalDestIPv6(nat)

(* Handle: the ID of a connection accepted from src, or none when the       *)
(* original destination is not known.                                       *)
HandlerID(srcIP, srcPort, nat) ==
    LET dst == GetOriginalDestAuto(nat)
    IN  IF dst = NoDest THEN None
        ELSE GenerateConnectionID(To16(srcIP), srcPort, dst.ip, dst.port)
=============================================================================
