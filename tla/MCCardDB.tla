------------------------------ MODULE MCCardDB ------------------------------
(***************************************************************************)
(* TLC instance of CardDB: models are interchangeable.                     *)
(***************************************************************************)
EXTENDS CardDB, TLC

Symmetry == Permutations(Model)
=============================================================================
