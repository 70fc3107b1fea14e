----------------------------- MODULE MCSessions -----------------------------
(***************************************************************************)
(* TLC instances of Sessions.  A byte is 0 or 1, and the numbers of a      *)
(* signature have one byte or two.                                         *)
(***************************************************************************)
EXTENDS Sessions

Short == <<1>>
Long == <<1, 0>>

SomeFit == { <<Short, Long>>, <<Long, Short>> }
AllFit == { <<Long, Long>> }
=============================================================================
