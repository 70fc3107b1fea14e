---------------------------- MODULE MCBlockchain ----------------------------
(***************************************************************************)
(* TLC instances of Blockchain: the servers are model values and           *)
(* interchangeable, since nothing in this part of the code compares them.  *)
(***************************************************************************)
EXTENDS Blockchain, TLC

Symmetry == Permutations(Server)
=============================================================================
