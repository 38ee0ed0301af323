------------------------------ MODULE MCTunnel -------------------------------
(***************************************************************************)
(* Instances of Tunnel for TLC.                                            *)
(***************************************************************************)
EXTENDS Tunnel

MCLocals == {1, 2}
MCTargets == {11, 12}
=============================================================================
