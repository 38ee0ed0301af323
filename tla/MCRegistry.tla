----------------------------- MODULE MCRegistry -----------------------------
(***************************************************************************)
(* Instances of Registry for TLC.                                          *)
(***************************************************************************)
EXTENDS Registry, TLC

CONSTANTS c1, d1, d2

(* One connection, to d1.                                                   *)
OneConn == {c1}
OneDest == [c \in Conns |-> d1]

(* Every proxy covers every destination.                                    *)
AllCover == [p \in Proxies |-> {Dests}]

(* The ManagedCIDR of a proxy covers everything or cannot be parsed.        *)
CoverOrNot == [p \in Proxies |-> {Dests, {}}]

(* One proxy ID, whose ManagedCIDR is configured anew between two streams.  *)
Reconfigured == [p \in Proxies |-> {{d1}, {d2}}]

Symmetry == Permutations(ClientStreams) \cup Permutations(ProxyStreams)
=============================================================================
