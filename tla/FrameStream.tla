---------------------------- MODULE FrameStream -----------------------------
(***************************************************************************)
(* The frames of one direction of a connection (Framing), with variables   *)
(* of their own names, to stand beside the layers above and below them.    *)
(***************************************************************************)
EXTENDS Naturals

CONSTANTS Writers, Sizes, MaxWrites, SeqnoBits, MinPayload, MaxPayload

VARIABLES fpc, size, calls, fMu, outSeqno, units, broken, inSeqno, reader, why, sent, delivered

F == INSTANCE Framing WITH pc <- fpc, writeMu <- fMu, wire <- units,
                           MinFrameSize <- MinPayload, MaxFrameSize <- MaxPayload

frameVars ==
  <<fpc, size, calls, fMu, outSeqno, units, broken, inSeqno, reader, why, sent, delivered>>

\* writeMu names its holder, or says that it has none.
ASSUME WritersAssumption == "free" \notin Writers

\* A frame carries at least its constructor id.
ASSUME PayloadAssumption == MinPayload \in Nat \ {0} /\ MaxPayload \in Nat

\* ReadFrame returns whole payloads in the order of their seqnos, none twice and
\* none left out, however writers interleave and wherever the connection breaks,
\* and never meets a wrong seqno or length.
DeliveredInOrder == F!DeliveredInOrder
=============================================================================
