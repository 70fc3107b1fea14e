---------------------------- MODULE MCLeadership ----------------------------
(* TLC instances of Leadership; the servers are ordered: no symmetry.      *)
EXTENDS Leadership
=============================================================================
