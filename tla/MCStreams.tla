----------------------------- MODULE MCStreams -----------------------------
(* Instances of Streams for TLC: see the configurations.                   *)
EXTENDS Streams
=============================================================================
