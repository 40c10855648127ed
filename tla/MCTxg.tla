------------------------------- MODULE MCTxg -------------------------------
(* Instances of Txg for TLC.                                               *)
EXTENDS Txg, TLC

CONSTANTS c1, c2

Clients == {c1, c2}
ClientSymmetry == Permutations(Clients)
=============================================================================
