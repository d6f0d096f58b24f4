------------------------------ MODULE MCCaConn ------------------------------
(* Instances of CaConn for TLC. *)
EXTENDS CaConn, TLC

CONSTANTS c1, c2

\* One channel may be added again.
Adds == (c1 :> 2) @@ (c2 :> 1)
=============================================================================
