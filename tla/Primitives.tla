----------------------------- MODULE Primitives -----------------------------
(***************************************************************************)
(* The TL primitives of pkg/tl/primitives.go over byte sequences, for      *)
(* bytes of any Base.  The code has Base = 256: the short length form is   *)
(* below 0xfe = Base - 2, 0xff = Base - 1 is reserved, and the long form   *)
(* has three length bytes.  A small Base puts every boundary within TLC's  *)
(* reach.                                                                  *)
(*                                                                         *)
(* A read at position p of a buffer returns [ok, v, pos]: whether there    *)
(* were enough bytes, the value, and the position after it.                *)
(***************************************************************************)
EXTENDS Naturals, Sequences

CONSTANT Base

ASSUME PrimitivesAssumption == Base \in Nat /\ Base >= 4

Err == [ok |-> FALSE, v |-> <<>>, pos |-> 0]

Got(v, pos) == [ok |-> TRUE, v |-> v, pos |-> pos]

\* pos counts from 1 here and from 0 in the code.
need(buf, pos, n) == pos + n <= Len(buf) + 1

ReadRaw(buf, pos, n) ==
  IF need(buf, pos, n) THEN Got(SubSeq(buf, pos, pos + n - 1), pos + n) ELSE Err

----------------------------------------------------------------------------
\* Little endian integers of w bytes.
WriteUint(v, w) == [i \in 1 .. w |-> (v \div Base ^ (i - 1)) % Base]

UintOf(b) ==
  LET sum[i \in 0 .. Len(b)] == IF i = 0 THEN 0 ELSE sum[i - 1] + b[i] * Base ^ (i - 1)
  IN  sum[Len(b)]

ReadUint(buf, pos, w) ==
  LET r == ReadRaw(buf, pos, w)
  IN  IF r.ok THEN Got(UintOf(r.v), r.pos) ELSE Err

----------------------------------------------------------------------------
LengthPrefix(n) ==
  IF n < Base - 2
  THEN <<n>>
  ELSE <<Base - 2, n % Base, (n \div Base) % Base, (n \div (Base * Base)) % Base>>

Pad(total) == (4 - (total % 4)) % 4

WriteBytes(b) ==
  LET head == LengthPrefix(Len(b))
  IN  head \o b \o [i \in 1 .. Pad(Len(head) + Len(b)) |-> 0]

\* v is the length; the caller takes the header's size from the positions.
readLengthPrefix(buf, pos) ==
  IF ~need(buf, pos, 1) \/ buf[pos] = Base - 1 THEN Err
  ELSE IF buf[pos] < Base - 2 THEN Got(buf[pos], pos + 1)
  ELSE IF ~need(buf, pos, 4) THEN Err
  ELSE Got(buf[pos + 1] + buf[pos + 2] * Base + buf[pos + 3] * (Base * Base), pos + 4)

ReadBytes(buf, pos) ==
  LET len == readLengthPrefix(buf, pos)
      body == ReadRaw(buf, len.pos, len.v)
      pad == Pad((len.pos - pos) + len.v)
  IN  IF len.ok /\ body.ok /\ need(buf, body.pos, pad)
      THEN Got(body.v, body.pos + pad)
      ELSE Err
=============================================================================
