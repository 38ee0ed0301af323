---------------------------- MODULE MCServerLife -----------------------------
(***************************************************************************)
(* An instance of ServerLife for TLC: two clients of one ID and a proxy.   *)
(***************************************************************************)
EXTENDS ServerLife

CONSTANTS c1, c2, p1, a, b

MCClientStreams == {c1, c2}
MCProxyStreams == {p1}
MCIds == {a, b}
MCIdOf == [s \in {c1, c2, p1} |-> IF s = p1 THEN b ELSE a]
=============================================================================
