---------------------------- MODULE MCKnownHosts ----------------------------
(***************************************************************************)
(* Instances of KnownHosts for TLC: one host with two servers, of which    *)
(* one answers with either of two keys, and the other with the first.      *)
(***************************************************************************)
EXTENDS KnownHosts, TLC

CONSTANTS gate, k1, k2

Front == [host |-> gate, port |-> 22]
Back == [host |-> gate, port |-> 2222]

Answers == [h \in {Front, Back} |-> IF h = Front THEN {k1, k2} ELSE {k1}]

Addresses == {Front, Back}

OneLine == <<[host |-> Back, key |-> k1]>>

Symmetry == Permutations(Conns)
=============================================================================
