----------------------------- MODULE BytesProofs ----------------------------
(***************************************************************************)
(* For bytes of any base: a byte string of any content and any length that *)
(* its prefix can say is read back as it was written (module Primitives).  *)
(***************************************************************************)
EXTENDS Primitives, Integers, Sequences, SequenceTheorems, TLAPS

\* The bytes.
Bytes == 0 .. Base - 1

\* Division with a remainder.
LEMMA Divides ==
  ASSUME NEW d \in Nat \ {0}, NEW n \in Nat
  PROVE  /\ n \div d \in Nat /\ n % d \in 0 .. d - 1
         /\ n = d * (n \div d) + (n % d)
  BY SMTT(60)

\* A product is not less than a factor.
LEMMA Grows ==
  ASSUME NEW d \in Nat, NEW x \in Int, x >= 1
  PROVE  d * x >= d
  BY SMTT(60)

\* Quotient and remainder are determined.
LEMMA Unique ==
  ASSUME NEW d \in Nat \ {0}, NEW q \in Nat, NEW r \in 0 .. d - 1,
         NEW p \in Nat, NEW s \in 0 .. d - 1, d * q + r = d * p + s
  PROVE  q = p /\ r = s
<1>1. d * (q - p) = s - r
  BY SMTT(60)
<1>2. d * (p - q) = r - s
  BY SMTT(60)
<1>3. ~(q - p >= 1)
  BY SMTT(60), <1>1, Grows
<1>4. ~(p - q >= 1)
  BY SMTT(60), <1>2, Grows
<1>5. q = p
  BY SMTT(60), <1>3, <1>4
<1> QED BY SMTT(60), <1>5

\* The three length bytes of the long form are the digits of the length.
LEMMA Digits ==
  ASSUME NEW n \in Nat, n < Base * Base * Base
  PROVE  /\ n % Base \in Bytes /\ (n \div Base) % Base \in Bytes
         /\ (n \div (Base * Base)) % Base \in Bytes
         /\ (n % Base) + ((n \div Base) % Base) * Base
              + ((n \div (Base * Base)) % Base) * (Base * Base) = n
<1> USE PrimitivesAssumption
<1> DEFINE S == Base * Base
<1>1. PICK q \in Nat : q = n \div Base
  BY Divides
<1>2. PICK r \in 0 .. Base - 1 : r = n % Base
  BY Divides
<1>3. n = Base * q + r
  BY <1>1, <1>2, Divides
<1>4. PICK t \in Nat : t = q \div Base
  BY Divides
<1>5. PICK u \in 0 .. Base - 1 : u = q % Base
  BY Divides
<1>6. q = Base * t + u
  BY <1>4, <1>5, Divides
<1>7. S \in Nat \ {0}
  BY SMTT(60)
<1>8. PICK v \in Nat : v = n \div S
  BY <1>7, Divides
<1>9. PICK w \in 0 .. S - 1 : w = n % S
  BY <1>7, Divides
<1>10. n = S * v + w
  BY ZenonT(60), <1>7, <1>8, <1>9, Divides
<1>11. n = S * t + (Base * u + r)
  BY SMTT(60), <1>3, <1>6
<1>12. Base * u <= Base * (Base - 1)
  BY SMTT(60)
<1>13. Base * u + r \in 0 .. S - 1
  BY SMTT(60), <1>12
<1> HIDE DEF S
<1>14. v = t
  BY <1>7, <1>10, <1>11, <1>13, Unique
<1>15. t < Base
  <2> SUFFICES ASSUME t - Base >= 0 PROVE FALSE
    BY SMTT(60)
  <2>1. S * (t - Base) >= 0
    BY SMTT(60), <1>7
  <2>2. S * t = S * Base + S * (t - Base)
    BY SMTT(60), <1>7
  <2>3. S * Base > n
    BY DEF S
  <2> QED BY SMTT(60), <1>7, <1>11, <1>13, <2>1, <2>2, <2>3
<1>16. t % Base = t
  <2>1. PICK a \in Nat : a = t \div Base
    BY Divides
  <2>2. PICK c \in 0 .. Base - 1 : c = t % Base
    BY Divides
  <2>3. t = Base * a + c
    BY <2>1, <2>2, Divides
  <2>4. Base * 0 + t = Base * a + c /\ t \in 0 .. Base - 1
    BY SMTT(60), <1>15, <2>3
  <2>5. t = c
    BY <2>4, Unique
  <2> QED BY <2>2, <2>5
<1>17. r + u * Base + t * S = n
  BY SMTT(60), <1>7, <1>11
<1>18. (n \div (Base * Base)) % Base = t
  BY <1>8, <1>14, <1>16 DEF S
<1>19. (n \div Base) % Base = u /\ n % Base = r
  BY <1>1, <1>2, <1>5
<1>20. r \in Bytes /\ u \in Bytes /\ t \in Bytes
  BY <1>15 DEF Bytes
<1> QED BY <1>17, <1>18, <1>19, <1>20 DEF S

\* What is left of s in buf from position pos on is as s says.
Holds(buf, pos, s) == \A i \in 1 .. Len(s) : pos + i - 1 <= Len(buf) => buf[pos + i - 1] = s[i]

\* The padding fills up to a multiple of four.
LEMMA PadRange ==
  ASSUME NEW n \in Nat
  PROVE  Pad(n) \in 0 .. 3 /\ (n + Pad(n)) % 4 = 0
  BY SMTT(60) DEF Pad

\* The length prefix has one byte or four.
LEMMA Prefix ==
  ASSUME NEW n \in Nat, n < Base * Base * Base
  PROVE  LengthPrefix(n) \in Seq(Bytes) /\ Len(LengthPrefix(n)) \in {1, 4}
<1>1. CASE n < Base - 2
  <2>1. LengthPrefix(n) = <<n>> /\ n \in Bytes
    BY <1>1, PrimitivesAssumption DEF LengthPrefix, Bytes
  <2> QED BY <2>1
<1>2. CASE ~(n < Base - 2)
  <2>1. LengthPrefix(n) = <<Base - 2, n % Base, (n \div Base) % Base, (n \div (Base * Base)) % Base>>
    BY <1>2 DEF LengthPrefix
  <2>2. Base - 2 \in Bytes
    BY PrimitivesAssumption DEF Bytes
  <2> QED BY <2>1, <2>2, Digits
<1> QED BY <1>1, <1>2

\* The bytes written: the prefix, the string, the padding.
LEMMA Written ==
  ASSUME NEW b \in Seq(Bytes), Len(b) < Base * Base * Base
  PROVE  LET h == LengthPrefix(Len(b))
             k == Len(h)
             s == WriteBytes(b)
         IN  /\ Len(s) = k + Len(b) + Pad(k + Len(b))
             /\ \A i \in 1 .. k : s[i] = h[i]
             /\ \A i \in 1 .. Len(b) : s[k + i] = b[i]
<1> DEFINE h == LengthPrefix(Len(b))
           k == Len(h)
           m == Pad(k + Len(b))
           z == [i \in 1 .. m |-> 0]
<1>1. h \in Seq(Bytes) /\ k \in Nat /\ Len(b) \in Nat
  BY Prefix
<1>2. m \in Nat
  BY <1>1, PadRange
<1>3. 0 \in Bytes
  BY PrimitivesAssumption DEF Bytes
<1>4. z \in Seq(Bytes) /\ Len(z) = m
  BY <1>2, <1>3
<1>5. WriteBytes(b) = (h \o b) \o z
  BY DEF WriteBytes
<1> HIDE DEF h, z, m
<1>6. /\ h \o b \in Seq(Bytes) /\ Len(h \o b) = k + Len(b)
      /\ \A i \in 1 .. k : (h \o b)[i] = h[i]
      /\ \A i \in 1 .. Len(b) : (h \o b)[k + i] = b[i]
  BY <1>1
<1>7. PICK g \in Seq(Bytes) : g = h \o b
  BY ZenonT(60), <1>6
<1>8. /\ Len(g \o z) = Len(g) + m
      /\ \A i \in 1 .. Len(g) : (g \o z)[i] = g[i]
  BY SMTT(60), <1>4
<1>9. /\ \A i \in 1 .. k : i \in 1 .. Len(g)
      /\ \A i \in 1 .. Len(b) : k + i \in 1 .. Len(g)
  BY <1>1, <1>6, <1>7
<1> QED BY <1>5, <1>6, <1>7, <1>8, <1>9 DEF h, m

\* readLengthPrefix returns the length that was written, or an error when the buffer
\* ends in the prefix.
LEMMA PrefixReads ==
  ASSUME NEW n \in Nat, n < Base * Base * Base,
         NEW buf \in Seq(Bytes), NEW pos \in Nat \ {0}, Holds(buf, pos, LengthPrefix(n))
  PROVE  readLengthPrefix(buf, pos) =
           IF need(buf, pos, Len(LengthPrefix(n))) THEN Got(n, pos + Len(LengthPrefix(n))) ELSE Err
<1> USE PrimitivesAssumption
<1> DEFINE h == LengthPrefix(n)
<1>1. CASE n < Base - 2
  <2>1. h = <<n>>
    BY <1>1 DEF LengthPrefix
  <2>2. need(buf, pos, 1) => buf[pos] = n
    BY <2>1 DEF Holds, need
  <2> QED BY <1>1, <2>1, <2>2 DEF readLengthPrefix
<1>2. CASE ~(n < Base - 2)
  <2>1. PICK d \in Bytes : d = n % Base
    BY ZenonT(60), Digits
  <2>2. PICK e \in Bytes : e = (n \div Base) % Base
    BY ZenonT(60), Digits
  <2>3. PICK f \in Bytes : f = (n \div (Base * Base)) % Base
    BY Digits
  <2>4. h = <<Base - 2, d, e, f>>
    BY <1>2, <2>1, <2>2, <2>3 DEF LengthPrefix
  <2>5. d + e * Base + f * (Base * Base) = n
    BY <2>1, <2>2, <2>3, Digits
  <2>6. need(buf, pos, 1) => buf[pos] = Base - 2
    BY <2>4 DEF Holds, need
  <2>7. need(buf, pos, 4) => /\ need(buf, pos, 1)
                             /\ buf[pos + 1] = d /\ buf[pos + 2] = e /\ buf[pos + 3] = f
    <3> SUFFICES ASSUME need(buf, pos, 4)
                 PROVE  /\ need(buf, pos, 1)
                        /\ buf[pos + 1] = d /\ buf[pos + 2] = e /\ buf[pos + 3] = f
      OBVIOUS
    <3>1. Len(h) = 4 /\ h[2] = d /\ h[3] = e /\ h[4] = f
      BY <2>4
    <3>2. need(buf, pos, 1) /\ pos + 1 <= Len(buf) /\ pos + 2 <= Len(buf) /\ pos + 3 <= Len(buf)
      BY DEF need
    <3>3. \A i \in 1 .. 4 : pos + i - 1 <= Len(buf) => buf[pos + i - 1] = h[i]
      BY <3>1 DEF Holds
    <3>4. /\ pos + 2 - 1 = pos + 1 /\ pos + 3 - 1 = pos + 2 /\ pos + 4 - 1 = pos + 3
          /\ 2 \in 1 .. 4 /\ 3 \in 1 .. 4 /\ 4 \in 1 .. 4
      OBVIOUS
    <3> HIDE DEF h
    <3>5. buf[pos + 1] = h[2] /\ buf[pos + 2] = h[3] /\ buf[pos + 3] = h[4]
      BY <3>2, <3>3, <3>4
    <3> QED BY <3>1, <3>2, <3>5
  <2>8. Len(h) = 4
    BY <2>4
  <2>9. CASE ~need(buf, pos, 1)
    <3>1. ~need(buf, pos, 4)
      BY <2>7, <2>9
    <3> QED BY <2>8, <2>9, <3>1 DEF readLengthPrefix
  <2>10. CASE need(buf, pos, 1)
    <3>1. buf[pos] # Base - 1 /\ ~(buf[pos] < Base - 2)
      BY <2>6, <2>10
    <3>2. readLengthPrefix(buf, pos) =
            IF ~need(buf, pos, 4) THEN Err
            ELSE Got(buf[pos + 1] + buf[pos + 2] * Base + buf[pos + 3] * (Base * Base), pos + 4)
      BY <2>10, <3>1 DEF readLengthPrefix
    <3> QED BY <2>5, <2>7, <2>8, <3>2
  <2> QED BY <2>9, <2>10
<1> QED BY <1>1, <1>2

\* Enough bytes for a whole are enough for its first part.
LEMMA NeedPart ==
  ASSUME NEW buf \in Seq(Bytes), NEW pos \in Nat \ {0}, NEW i \in Nat, NEW j \in Nat,
         need(buf, pos, i + j)
  PROVE  need(buf, pos, i)
BY DEF need

\* And they are enough for the second part behind the first.
LEMMA NeedRest ==
  ASSUME NEW buf \in Seq(Bytes), NEW pos \in Nat \ {0}, NEW i \in Nat, NEW j \in Nat
  PROVE  need(buf, pos, i + j) <=> need(buf, pos + i, j)
BY DEF need

\* ReadBytes returns what WriteBytes wrote, for every string whose length has at
\* most three digits, whatever bytes stand before and after it; and when the buffer ends before
\* the last byte of the padding, it returns an error and no string.
THEOREM BytesReadBack ==
  ASSUME NEW b \in Seq(Bytes), Len(b) < Base * Base * Base,
         NEW buf \in Seq(Bytes), NEW pos \in Nat \ {0}, Holds(buf, pos, WriteBytes(b))
  PROVE  ReadBytes(buf, pos) =
           IF need(buf, pos, Len(WriteBytes(b))) THEN Got(b, pos + Len(WriteBytes(b))) ELSE Err
<1> DEFINE h == LengthPrefix(Len(b))
           s == WriteBytes(b)
           l == readLengthPrefix(buf, pos)
<1>1. PICK n \in Nat : n = Len(b)
  OBVIOUS
<1>2. PICK k \in {1, 4} : k = Len(h)
  BY Prefix
<1>3. PICK m \in 0 .. 3 : m = Pad(k + n)
  BY <1>2, PadRange
<1>4. /\ Len(s) = k + n + m
      /\ \A i \in 1 .. k : s[i] = h[i]
      /\ \A i \in 1 .. n : s[k + i] = b[i]
  BY <1>1, <1>2, <1>3, Written
<1> HIDE DEF h, s
<1>5. Len(s) = k + n + m
  BY ZenonT(60), <1>4
<1>6. Holds(buf, pos, h)
  <2>1. \A i \in 1 .. k : i \in 1 .. k + n + m
    BY <1>2
  <2>2. \A i \in 1 .. Len(s) : pos + i - 1 <= Len(buf) => buf[pos + i - 1] = s[i]
    BY DEF Holds, s
  <2> QED BY ZenonT(60), <1>2, <1>4, <1>5, <2>1, <2>2 DEF Holds
<1>7. l = IF need(buf, pos, k) THEN Got(n, pos + k) ELSE Err
  BY <1>1, <1>2, <1>6, PrefixReads DEF h
<1> HIDE DEF l
<1>8. ReadBytes(buf, pos) =
        LET body == ReadRaw(buf, l.pos, l.v)
            pad == Pad((l.pos - pos) + l.v)
        IN  IF l.ok /\ body.ok /\ need(buf, body.pos, pad)
            THEN Got(body.v, body.pos + pad)
            ELSE Err
  BY DEF ReadBytes, l
<1>9. CASE ~need(buf, pos, k)
  <2>1. ~l.ok
    BY <1>7, <1>9 DEF Err
  <2>2. ~need(buf, pos, Len(s))
    <3>1. Len(s) = k + n + m /\ k \in Nat /\ k + n \in Nat /\ m \in Nat
      BY <1>2, <1>5
    <3>2. ~need(buf, pos, k + n + m)
      BY ZenonT(60), <1>9, <3>1, NeedPart
    <3> QED BY ZenonT(60), <3>1, <3>2
  <2> QED BY <1>8, <2>1, <2>2 DEF s
<1>10. CASE need(buf, pos, k)
  <2>1. l.ok /\ l.v = n /\ l.pos = pos + k
    BY <1>7, <1>10 DEF Got
  <2>2. (l.pos - pos) + l.v = k + n
    BY <2>1
  <2>3. ReadBytes(buf, pos) =
          LET body == ReadRaw(buf, pos + k, n)
          IN  IF body.ok /\ need(buf, body.pos, m) THEN Got(body.v, body.pos + m) ELSE Err
    BY <1>3, <1>8, <2>1, <2>2
  <2>4. CASE ~need(buf, pos + k, n)
    <3>1. ~ReadRaw(buf, pos + k, n).ok
      BY <2>4 DEF ReadRaw, Err
    <3>2. ~need(buf, pos, Len(s))
      <4>1. Len(s) = k + n + m /\ k \in Nat /\ k + n \in Nat /\ m \in Nat
        BY <1>2, <1>5
      <4>2. ~need(buf, pos, k + n)
        BY ZenonT(60), <2>4, <4>1, NeedRest
      <4>3. ~need(buf, pos, k + n + m)
        BY ZenonT(60), <4>1, <4>2, NeedPart
      <4> QED BY ZenonT(60), <4>1, <4>3
    <3> QED BY <2>3, <3>1, <3>2 DEF s
  <2>5. CASE need(buf, pos + k, n)
    <3> DEFINE c == SubSeq(buf, pos + k, pos + k + n - 1)
    <3>1. ReadRaw(buf, pos + k, n) = Got(c, pos + k + n)
      BY <2>5 DEF ReadRaw
    <3>2. c = b
      <4>1. c \in Seq(Bytes) /\ Len(c) = n /\ \A i \in 1 .. n : c[i] = buf[pos + k + i - 1]
        <5>1. pos + k \in 1 .. Len(buf) + 1 /\ pos + k + n - 1 \in (pos + k) - 1 .. Len(buf)
          BY <2>5 DEF need
        <5>2. (pos + k + n - 1) - (pos + k) + 1 = n
          OBVIOUS
        <5>3. c \in Seq(Bytes)
          BY <5>1
        <5>4. Len(c) = n
          BY <5>1, <5>2
        <5>5. \A i \in 1 .. n : c[i] = buf[pos + k + i - 1]
          BY <5>1, <5>2
        <5> QED BY ZenonT(60), <5>3, <5>4, <5>5
      <4>2. \A i \in 1 .. n : buf[pos + k + i - 1] = b[i]
        <5> SUFFICES ASSUME NEW i \in 1 .. n PROVE buf[pos + k + i - 1] = b[i]
          OBVIOUS
        <5>1. /\ k + i \in 1 .. Len(s) /\ pos + (k + i) - 1 <= Len(buf)
              /\ pos + (k + i) - 1 = pos + k + i - 1
          <6>1. (pos + k) + n <= Len(buf) + 1
            BY ZenonT(60), <2>5 DEF need
          <6>2. PICK len \in Nat : len = Len(buf)
            OBVIOUS
          <6>3. (pos + k) + n <= len + 1
            BY ZenonT(60), <6>1, <6>2
          <6>4. k \in Nat
            BY <1>2
          <6>5. /\ k + i \in 1 .. k + n + m /\ pos + (k + i) - 1 <= len
                /\ pos + (k + i) - 1 = pos + k + i - 1
            BY <6>3, <6>4
          <6> QED BY ZenonT(60), <1>5, <6>2, <6>5
        <5>2. buf[pos + (k + i) - 1] = s[k + i]
          BY ZenonT(60), <5>1 DEF Holds, s
        <5> QED BY <1>4, <5>1, <5>2
      <4> HIDE DEF c
      <4>3. Len(c) = Len(b) /\ \A i \in 1 .. Len(c) : c[i] = b[i]
        BY ZenonT(60), <1>1, <4>1, <4>2
      <4> QED BY ZenonT(60), <4>1, <4>3, SeqEqual
    <3>3. ReadBytes(buf, pos) = IF need(buf, pos + k + n, m) THEN Got(b, pos + k + n + m) ELSE Err
      <4>1. ReadRaw(buf, pos + k, n) = Got(b, pos + k + n)
        BY ZenonT(60), <3>1, <3>2
      <4>2. /\ ReadRaw(buf, pos + k, n).ok /\ ReadRaw(buf, pos + k, n).v = b
            /\ ReadRaw(buf, pos + k, n).pos = pos + k + n
        BY <4>1 DEF Got
      <4> QED BY SMTT(60), <2>3, <4>2
    <3>4. need(buf, pos + k + n, m) <=> need(buf, pos, Len(s))
      <4>1. Len(s) = (k + n) + m /\ k + n \in Nat /\ m \in Nat /\ pos + (k + n) = pos + k + n
        BY <1>2, <1>5
      <4> QED BY ZenonT(60), <4>1, NeedRest
    <3>5. pos + k + n + m = pos + Len(s)
      BY <1>5
    <3>6. CASE need(buf, pos, Len(s))
      <4>1. ReadBytes(buf, pos) = Got(b, pos + Len(s))
        BY ZenonT(60), <3>3, <3>4, <3>5, <3>6
      <4> QED BY ZenonT(60), <3>6, <4>1 DEF s
    <3>7. CASE ~need(buf, pos, Len(s))
      <4>1. ReadBytes(buf, pos) = Err
        BY ZenonT(60), <3>3, <3>4, <3>7
      <4> QED BY ZenonT(60), <3>7, <4>1 DEF s
    <3> QED BY ZenonT(60), <3>6, <3>7
  <2> QED BY <2>4, <2>5
<1> QED BY <1>9, <1>10

\* Whatever bytes it meets, ReadBytes moves the cursor forward by a multiple of four
\* and not beyond the end of the buffer, or returns an error.
THEOREM ReadStaysInside ==
  ASSUME NEW buf \in Seq(Bytes), NEW pos \in Nat \ {0}
  PROVE  LET r == ReadBytes(buf, pos)
         IN  r = Err \/ /\ r.ok /\ r.pos \in pos + 1 .. Len(buf) + 1
                        /\ (r.pos - pos) % 4 = 0
                        /\ r.v \in Seq(Bytes)
<1> DEFINE l == readLengthPrefix(buf, pos)
           body == ReadRaw(buf, l.pos, l.v)
           pad == Pad((l.pos - pos) + l.v)
<1> SUFFICES ASSUME ReadBytes(buf, pos) # Err
             PROVE  LET r == ReadBytes(buf, pos)
                    IN  /\ r.ok /\ r.pos \in pos + 1 .. Len(buf) + 1
                        /\ (r.pos - pos) % 4 = 0
                        /\ r.v \in Seq(Bytes)
  OBVIOUS
<1>1. l.ok /\ body.ok /\ need(buf, body.pos, pad) /\ ReadBytes(buf, pos) = Got(body.v, body.pos + pad)
  BY DEF ReadBytes
<1>2. PICK k \in {1, 4}, n \in Nat : l = Got(n, pos + k)
  <2>1. need(buf, pos, 1) /\ buf[pos] # Base - 1
    BY ZenonT(60), <1>1 DEF readLengthPrefix, Err
  <2>2. buf[pos] \in Bytes
    BY <2>1 DEF need
  <2>3. CASE buf[pos] < Base - 2
    <3>1. l = Got(buf[pos], pos + 1)
      BY <2>1, <2>3 DEF readLengthPrefix
    <3> QED BY <2>2, <3>1 DEF Bytes
  <2>4. CASE ~(buf[pos] < Base - 2)
    <3>1. need(buf, pos, 4)
      BY ZenonT(60), <1>1, <2>1, <2>4 DEF readLengthPrefix, Err
    <3>2. PICK d \in Bytes, e \in Bytes, f \in Bytes :
            d = buf[pos + 1] /\ e = buf[pos + 2] /\ f = buf[pos + 3]
      BY <3>1 DEF need
    <3>3. l = Got(d + e * Base + f * (Base * Base), pos + 4)
      BY <2>1, <2>4, <3>1, <3>2 DEF readLengthPrefix
    <3>4. d + e * Base + f * (Base * Base) \in Nat
      BY PrimitivesAssumption DEF Bytes
    <3> QED BY SMTT(60), <3>3, <3>4
  <2> QED BY SMTT(60), <2>3, <2>4
<1>3. l.v = n /\ l.pos = pos + k
  BY <1>2 DEF Got
<1> HIDE DEF l
<1>4. need(buf, pos + k, n)
  BY <1>1, <1>3 DEF ReadRaw, Err
<1>5. body = Got(SubSeq(buf, pos + k, pos + k + n - 1), pos + k + n)
  BY <1>3, <1>4 DEF ReadRaw
<1>6. body.v = SubSeq(buf, pos + k, pos + k + n - 1) /\ body.pos = pos + k + n
  BY <1>5 DEF Got
<1>7. body.v \in Seq(Bytes)
  BY <1>4, <1>6 DEF need
<1>8. (l.pos - pos) + l.v = k + n
  BY <1>3
<1>9. PICK m \in 0 .. 3 : m = pad /\ (k + n + m) % 4 = 0
  BY <1>8, PadRange
<1> HIDE DEF body, pad
<1>10. pos + k + n + m <= Len(buf) + 1
  BY <1>1, <1>6, <1>9 DEF need
<1>11. (pos + k + n + m) - pos = k + n + m
  OBVIOUS
<1>12. /\ ReadBytes(buf, pos).ok /\ ReadBytes(buf, pos).v = body.v
       /\ ReadBytes(buf, pos).pos = pos + k + n + m
  BY <1>1, <1>6, <1>9 DEF Got
<1>13. pos + k + n + m \in pos + 1 .. Len(buf) + 1
  BY <1>10
<1> QED BY <1>7, <1>9, <1>11, <1>12, <1>13
=============================================================================
