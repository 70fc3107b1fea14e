---------------------------- MODULE MCPurchases -----------------------------
(***************************************************************************)
(* TLC instances of Purchases: two servers, two players, wherever they     *)
(* are.  Both at one server compete for its stock; one at each make the    *)
(* ledgers fork.                                                           *)
(***************************************************************************)
EXTENDS Purchases, TLC

Symmetry == Permutations(Server) \cup Permutations(Player)
=============================================================================
