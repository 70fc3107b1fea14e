-------------------------- MODULE MCPlayerRegistry --------------------------
(***************************************************************************)
(* TLC instances of PlayerRegistry.  Servers are numbers and not           *)
(* interchangeable: the lowest leads.  Players are.                        *)
(***************************************************************************)
EXTENDS PlayerRegistry, TLC

PlayersAlike == Permutations(Player)
=============================================================================
