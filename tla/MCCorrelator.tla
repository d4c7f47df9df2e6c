---------------------------- MODULE MCCorrelator ----------------------------
(* Two calls, one that waits in awaitQuery and one as WorkerTypes waits.    *)
EXTENDS Correlator
=============================================================================
