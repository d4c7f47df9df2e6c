--------------------------- MODULE MCSessionPool ---------------------------
(* Instances of SessionPool for TLC: see the configurations.               *)
EXTENDS SessionPool
=============================================================================
