---------------------------- MODULE MCForwarder -----------------------------
(***************************************************************************)
(* Instances of Forwarder for TLC.                                         *)
(***************************************************************************)
EXTENDS Forwarder, TLC

Symmetry == Permutations(Socks) \cup Permutations(Conns)
=============================================================================
