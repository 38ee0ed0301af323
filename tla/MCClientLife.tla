---------------------------- MODULE MCClientLife ----------------------------
(***************************************************************************)
(* An instance of ClientLife for TLC: a network, a part of it, two ports,  *)
(* and settings that no rule can be built from.                            *)
(***************************************************************************)
EXTENDS ClientLife

CONSTANTS wide, narrow, garbled, here, there

MCCidrs == {wide, narrow}
MCTexts == MCCidrs \cup {garbled, ""}
MCCovers == [c \in MCCidrs |-> IF c = wide THEN {here, there} ELSE {here}]
MCDefaults == [cidr |-> wide, port |-> 9999]
MCSettings ==
    {[cidr |-> None, port |-> None], [cidr |-> "", port |-> 0],
     [cidr |-> narrow, port |-> 1234], [cidr |-> None, port |-> 1234],
     [cidr |-> garbled, port |-> 70000]}

Symmetry == Permutations(Procs)
=============================================================================
