------------------------------ MODULE Framing -------------------------------
(***************************************************************************)
(* The framing of a connection (pkg/tl/frame.go) under the lock that       *)
(* transport.WriteFrame holds: goroutines of one side (queries, packets,   *)
(* pongs from the read loop, keepalive pings) write frames, the other side *)
(* runs ReadFrame in a loop.  The wire carries units: one for a header,    *)
(* one for every byte of a payload.  A connection breaks once, with part   *)
(* of what was written lost, and every write after that fails (TCP and     *)
(* crypto/tls keep a write error).                                         *)
(***************************************************************************)
EXTENDS Integers, Sequences

CONSTANTS Writers,       \* goroutines that write
          Sizes,         \* payload sizes they ask for
          MaxWrites,     \* bound on the calls of each
          SeqnoBits,     \* 32 in the code
          MinFrameSize,  \* 4 in the code
          MaxFrameSize   \* 16 MiB in the code

VARIABLES
  pc,        \* writer -> "idle", "locked", "header" (header written)
  size,      \* writer -> size of its payload
  calls,     \* writer -> WriteFrame calls so far
  writeMu,   \* the writer that holds writeMu, or "free"
  outSeqno,
  wire,      \* units written and not read
  broken,
  inSeqno,
  reader,    \* length of the payload to read, 0 for a header, -1 after an error
  why,       \* error of the reader
  sent,      \* history: frames that took a seqno, as <<writer, call, size>>
  delivered  \* payloads that ReadFrame returned

vars == <<pc, size, calls, writeMu, outSeqno, wire, broken, inSeqno, reader, why, sent, delivered>>

\* Add on an atomic int32.
Wrap(n) == IF n > 2 ^ (SeqnoBits - 1) - 1 THEN n - 2 ^ SeqnoBits ELSE n

Init ==
  /\ pc = [w \in Writers |-> "idle"]
  /\ size = [w \in Writers |-> 0]
  /\ calls = [w \in Writers |-> 0]
  /\ writeMu = "free"
  /\ outSeqno = 0
  /\ wire = <<>>
  /\ broken = FALSE
  /\ inSeqno = 0
  /\ reader = 0
  /\ why = "none"
  /\ sent = <<>>
  /\ delivered = <<>>

----------------------------------------------------------------------------
\* Mutant: the lock is not taken.
Lock_None(w) ==
  /\ pc[w] = "idle" /\ calls[w] < MaxWrites
  /\ \E n \in Sizes : size' = [size EXCEPT ![w] = n]
  /\ calls' = [calls EXCEPT ![w] = @ + 1]
  /\ pc' = [pc EXCEPT ![w] = "locked"]
  /\ UNCHANGED <<writeMu, outSeqno, wire, broken, inSeqno, reader, why, sent, delivered>>

Lock(w) ==
  /\ pc[w] = "idle" /\ calls[w] < MaxWrites
  /\ writeMu = "free"
  /\ writeMu' = w
  /\ \E n \in Sizes : size' = [size EXCEPT ![w] = n]
  /\ calls' = [calls EXCEPT ![w] = @ + 1]
  /\ pc' = [pc EXCEPT ![w] = "locked"]
  /\ UNCHANGED <<outSeqno, wire, broken, inSeqno, reader, why, sent, delivered>>

Unlock(w) ==
  /\ pc' = [pc EXCEPT ![w] = "idle"]
  /\ writeMu' = "free"

Refuse(w) ==
  /\ pc[w] = "locked" /\ size[w] \notin MinFrameSize .. MaxFrameSize
  /\ Unlock(w)
  /\ UNCHANGED <<size, calls, outSeqno, wire, broken, inSeqno, reader, why, sent, delivered>>

\* The seqno is taken, then the header is written, or the write fails.
WriteHeader(w) ==
  /\ pc[w] = "locked" /\ size[w] \in MinFrameSize .. MaxFrameSize
  /\ outSeqno' = Wrap(outSeqno + 1)
  /\ IF broken
     THEN Unlock(w) /\ UNCHANGED <<wire, sent>>
     ELSE /\ wire' = Append(wire, [kind |-> "header", len |-> size[w], seqno |-> outSeqno])
          /\ sent' = Append(sent, <<w, calls[w], size[w]>>)
          /\ pc' = [pc EXCEPT ![w] = "header"]
          /\ UNCHANGED writeMu
  /\ UNCHANGED <<size, calls, broken, inSeqno, reader, why, delivered>>

WritePayload(w) ==
  /\ pc[w] = "header"
  /\ wire' = IF broken THEN wire
             ELSE wire \o [i \in 1 .. size[w] |-> [kind |-> "byte", of |-> <<w, calls[w], size[w]>>]]
  /\ Unlock(w)
  /\ UNCHANGED <<size, calls, outSeqno, broken, inSeqno, reader, why, sent, delivered>>

----------------------------------------------------------------------------
ReadFails(cause) ==
  /\ reader' = -1
  /\ why' = cause
  /\ UNCHANGED <<pc, size, calls, writeMu, outSeqno, wire, broken, sent, delivered>>

\* A byte taken for a header has some length and some seqno: an error, or
\* a frame of other bytes, which DeliveredInOrder forbids as well.
ReadHeader ==
  /\ reader = 0 /\ wire # <<>>
  /\ LET h == Head(wire)
     IN  \/ /\ h.kind = "byte" \/ h.len \notin MinFrameSize .. MaxFrameSize
            /\ ReadFails("length")
            /\ UNCHANGED inSeqno
         \/ /\ h.kind = "header" /\ h.len \in MinFrameSize .. MaxFrameSize
            /\ inSeqno' = Wrap(inSeqno + 1)
            /\ IF h.seqno # inSeqno
               THEN ReadFails("seqno mismatch")
               ELSE /\ reader' = h.len
                    /\ wire' = Tail(wire)
                    /\ UNCHANGED <<pc, size, calls, writeMu, outSeqno, broken, why, sent, delivered>>

ReadPayload ==
  /\ reader > 0 /\ Len(wire) >= reader
  /\ delivered' = Append(delivered, SubSeq(wire, 1, reader))
  /\ wire' = SubSeq(wire, reader + 1, Len(wire))
  /\ reader' = 0
  /\ UNCHANGED <<pc, size, calls, writeMu, outSeqno, broken, inSeqno, why, sent>>

\* ReadFull meets the end of a broken connection.
ReadEOF ==
  /\ broken /\ reader # -1
  /\ IF reader = 0 THEN wire = <<>> ELSE Len(wire) < reader
  /\ ReadFails("eof")
  /\ UNCHANGED inSeqno

\* External: the connection breaks and loses the end of what was written.
Break ==
  /\ ~broken
  /\ broken' = TRUE
  /\ \E n \in 0 .. Len(wire) : wire' = SubSeq(wire, 1, n)
  /\ UNCHANGED <<pc, size, calls, writeMu, outSeqno, inSeqno, reader, why, sent, delivered>>

Next ==
  \/ \E w \in Writers : Lock(w) \/ Refuse(w) \/ WriteHeader(w) \/ WritePayload(w)
  \/ ReadHeader \/ ReadPayload \/ ReadEOF
  \/ Break

Spec == Init /\ [][Next]_vars

----------------------------------------------------------------------------
\* ReadFrame returns whole payloads, each as one WriteFrame call wrote it,
\* in the order of their seqnos, none twice and none left out, however the
\* writers interleave and wherever the connection breaks.  It never meets a
\* wrong seqno or length: also after a payload WriteFrame refused and after
\* the counters wrapped.
DeliveredInOrder ==
  /\ Len(delivered) <= Len(sent)
  /\ \A i \in DOMAIN delivered :
       LET f == sent[i]
       IN  delivered[i] = [j \in 1 .. f[3] |-> [kind |-> "byte", of |-> f]]
  /\ why \in {"none", "eof"}
=============================================================================
