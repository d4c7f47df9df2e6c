-------------------------------- MODULE Wire --------------------------------
(***************************************************************************)
(* The messages on the wire (pkg/tl/tcp.go, types.go, vector.go and the    *)
(* encoders and decoders of pkg/cocoon): for each constructor the fields   *)
(* its encoder writes and the fields its decoder reads, in order.          *)
(*                                                                         *)
(* An encoder the proxy has, or a decoder only it has, is external and     *)
(* follows the TL schema quoted in the code.  A message travels as one     *)
(* frame payload: encoded, accepted or refused by WriteFrame, possibly cut *)
(* short by a peer that leaves fields out, and decoded.                    *)
(***************************************************************************)
EXTENDS Primitives, SequencesExt

CONSTANTS Messages,        \* messages to encode, <<name, field values>>
          Responses        \* the HTTP responses that answers carry

VARIABLES msg, payload, got

vars == <<msg, payload, got>>

----------------------------------------------------------------------------
(* A field has a type, the flag bit that makes it present (0 for always),  *)
(* and, if it is soft, a value the decoder skips and may find missing.     *)
Field(t, sub) == [t |-> t, sub |-> sub, bit |-> 0, soft |-> FALSE]
Int32 == Field("int", <<>>)
Long == Field("long", <<>>)         \* doubles too
Int256 == Field("int256", <<>>)
Bool == Field("bool", <<>>)
Bytes == Field("bytes", <<>>)       \* strings too
Flags == Field("flags", <<>>)
Struct(fields) == Field("struct", fields)
Vector(fields) == Field("vector", fields)
Boxed(names) == Field("boxed", names)
If(bit, f) == [f EXCEPT !.bit = bit]
Soft(f) == [f EXCEPT !.soft = TRUE]

\* The value of a field that is absent.
Zero(f) ==
  CASE f.t \in {"int", "long", "flags"} -> 0
    [] f.t = "bool" -> FALSE
    [] OTHER -> <<>>

FlagsOf(fields, vals) ==
  IF \E i \in DOMAIN vals : fields[i].t = "flags"
  THEN vals[CHOOSE i \in DOMAIN vals : fields[i].t = "flags"]
  ELSE 0

Has(flags, bit) == bit = 0 \/ (flags \div 2 ^ (bit - 1)) % 2 = 1

----------------------------------------------------------------------------
(* What the encoders write.                                                *)
Auth == {"authShort", "authLong"}
Payment == {"signedPayment", "signedPaymentEmpty"}
tokensUsed == <<Long, Long, Long, Long, Long>>
finalInfo == <<Flags, Struct(tokensUsed), If(1, Bytes), If(1, Bytes),
               If(2, Long), If(2, Long), If(2, Long), If(2, Long)>>

EncodeTCP ==
  [ping |-> <<Long>>, pong |-> <<Long>>, connect |-> <<Long>>, connected |-> <<Long>>,
   packet |-> <<Bytes>>, query |-> <<Long, Bytes>>]

clientParams == <<Flags, Bytes, If(1, Bool), If(2, Int32), If(2, Int32)>>

proxyParams == <<Flags, Int256, Bytes, Bytes, If(1, Bool), If(2, Int32)>>

encodeClientConnectToProxy == <<Flags, Bytes, Bool, Int32, Int32, Int32>>

encodeRunQueryEx == <<Bytes, Bytes, Int32, Int32, Long, Int256, Int32, Flags, If(1, Bool)>>

encodeHTTPRequest == <<Bytes, Bytes, Bytes, Vector(<<Bytes, Bytes>>), Bytes>>

\* External: what the proxy writes, by the schemas in the comments.
EncodeProxy ==
  [queryAnswer |-> <<Long, Bytes>>, queryError |-> <<Long, Int32, Bytes>>,
   connectedToProxy |-> <<Struct(proxyParams), Bytes, Boxed(Auth), Boxed(Payment)>>,
   authShort |-> <<Int256, Long>>, authLong |-> <<Long>>,
   signedPayment |-> <<Bytes>>, signedPaymentEmpty |-> <<>>,
   authSuccess |-> <<Boxed(Payment), Long, Long>>, authFailed |-> <<Int32, Bytes>>,
   paymentStatus |-> <<Boxed(Payment), Long, Long>>,
   answer |-> <<Bytes, Bool, Int256, Struct(tokensUsed)>>,
   answerEx |-> <<Int256, Bytes, Flags, If(1, Struct(finalInfo))>>,
   answerPartEx |-> <<Int256, Bytes, Flags, If(1, Struct(finalInfo))>>,
   answerError |-> <<Int32, Bytes, Int256, Struct(tokensUsed)>>,
   answerErrorEx |-> <<Int256, Int32, Bytes, Flags, If(1, Struct(finalInfo))>>,
   httpResponse |-> <<Bytes, Int32, Bytes, Vector(<<Bytes, Bytes>>), Bytes>>,
   workerTypes |-> <<Vector(<<Bytes, Vector(<<Flags, Int32, Int32, Int32>>)>>)>>]

Encoded ==
  EncodeTCP @@ EncodeProxy @@
  [clientParams |-> clientParams, proxyParams |-> proxyParams,
   connectToProxy |-> encodeClientConnectToProxy, authorizeShort |-> <<Bytes>>,
   authorizeLong |-> <<>>, runQueryEx |-> encodeRunQueryEx, httpRequest |-> encodeHTTPRequest]

----------------------------------------------------------------------------
(* What the decoders read.                                                 *)

DecodeTCPPacket ==
  [ping |-> <<Long>>, pong |-> <<Long>>, connect |-> <<Long>>, connected |-> <<Long>>,
   packet |-> <<Bytes>>, query |-> <<Long, Bytes>>, queryAnswer |-> <<Long, Bytes>>,
   queryError |-> <<Long, Int32, Bytes>>]

DecodeClientParamsBody == <<Flags, Bytes, If(1, Bool), If(2, Int32), If(2, Int32)>>

DecodeProxyParamsBody == <<Flags, Int256, Bytes, Bytes, If(1, Bool), If(2, Int32)>>

decodeConnectedToProxy == <<Struct(DecodeProxyParamsBody), Bytes, Boxed(Auth), Boxed(Payment)>>

\* The constructors that decoders accept inside a message.
DecodeBoxed ==
  [authShort |-> <<Int256, Long>>, authLong |-> <<Long>>,
   signedPayment |-> <<Bytes>>, signedPaymentEmpty |-> <<>>]

decodeAuthorizationWithProxy ==
  [authSuccess |-> <<Boxed(Payment), Long, Long>>, authFailed |-> <<Int32, Bytes>>]

decodePaymentStatus == <<Boxed(Payment), Long, Long>>

DecodeTokensUsed == <<Long, Long, Long, Long, Long>>

skipClientQueryFinalInfo ==
  Soft(Struct(<<Flags, Struct(DecodeTokensUsed), If(1, Bytes), If(1, Bytes),
                If(2, Long), If(2, Long), If(2, Long), If(2, Long)>>))

tryDecodeQueryPart ==
  [answer |-> <<Bytes, Bool, Int256, Struct(DecodeTokensUsed)>>,
   answerEx |-> <<Int256, Bytes, Flags, If(1, skipClientQueryFinalInfo)>>,
   answerPartEx |-> <<Int256, Bytes, Flags, If(1, skipClientQueryFinalInfo)>>,
   answerError |-> <<Int32, Bytes, Int256, Soft(Struct(DecodeTokensUsed))>>,
   answerErrorEx |-> <<Int256, Int32, Bytes, Flags, If(1, skipClientQueryFinalInfo)>>]

decodeHTTPResponsePayload == <<Bytes, Int32, Bytes, Vector(<<Bytes, Bytes>>), Bytes>>

decodeWorkerTypesV2 == <<Vector(<<Bytes, Vector(<<Flags, Int32, Int32, Int32>>)>>)>>

\* External: what the proxy reads, by the schemas in the comments.
DecodeProxy ==
  [connectToProxy |-> DecodeClientParamsBody \o <<Int32>>, authorizeShort |-> <<Bytes>>,
   authorizeLong |-> <<>>,
   runQueryEx |-> <<Bytes, Bytes, Int32, Int32, Long, Int256, Int32, Flags, If(1, Bool)>>,
   httpRequest |-> <<Bytes, Bytes, Bytes, Vector(<<Bytes, Bytes>>), Bytes>>]

Decoded ==
  DecodeTCPPacket @@ DecodeBoxed @@ decodeAuthorizationWithProxy @@
  tryDecodeQueryPart @@ DecodeProxy @@
  [connectedToProxy |-> decodeConnectedToProxy, paymentStatus |-> decodePaymentStatus, httpResponse |-> decodeHTTPResponsePayload,
   workerTypes |-> decodeWorkerTypesV2, clientParams |-> DecodeClientParamsBody,
   proxyParams |-> DecodeProxyParamsBody]

\* The constructors that the decoder of a message tells apart.
Decoder(name) ==
  LET groups == {DOMAIN DecodeTCPPacket, DOMAIN decodeAuthorizationWithProxy,
                 DOMAIN tryDecodeQueryPart, DOMAIN DecodeProxy}
  IN  IF \E g \in groups : name \in g THEN CHOOSE g \in groups : name \in g ELSE {name}

\* Constructor ids, all different.
Names == <<"ping", "pong", "connect", "connected", "packet", "query", "queryAnswer",
  "queryError", "clientParams", "proxyParams", "connectToProxy", "authorizeShort",
  "authorizeLong", "runQueryEx", "httpRequest", "connectedToProxy", "authShort",
  "authLong", "signedPayment", "signedPaymentEmpty", "authSuccess", "authFailed",
  "paymentStatus", "answer", "answerEx", "answerPartEx", "answerError",
  "answerErrorEx", "httpResponse", "workerTypes">>
ID(name) == CHOOSE i \in DOMAIN Names : Names[i] = name
TrueID == Len(Names) + 1
FalseID == Len(Names) + 2

----------------------------------------------------------------------------
RECURSIVE Write(_, _)
WriteFields(fields, vals) ==
  FlattenSeq([i \in DOMAIN fields |->
    IF Has(FlagsOf(fields, vals), fields[i].bit) THEN Write(fields[i], vals[i]) ELSE <<>>])

Write(f, v) ==
  CASE f.t \in {"int", "flags"} -> WriteUint(v, 4)
    [] f.t = "long" -> WriteUint(v, 8)
    [] f.t = "int256" -> v
    [] f.t = "bool" -> WriteUint(IF v THEN TrueID ELSE FalseID, 4)
    [] f.t = "bytes" -> WriteBytes(v)
    [] f.t = "struct" -> WriteFields(f.sub, v)
    [] f.t = "vector" ->
         WriteUint(Len(v), 4) \o FlattenSeq([i \in DOMAIN v |-> WriteFields(f.sub, v[i])])
    [] f.t = "boxed" -> WriteUint(ID(v[1]), 4) \o WriteFields(Encoded[v[1]], v[2])

RECURSIVE Read(_, _, _)
\* A soft field yields no value, and no error either.
ReadFields(fields, buf, start) ==
  LET upTo[i \in 0 .. Len(fields)] ==
        IF i = 0 THEN Got(<<>>, start)
        ELSE LET prev == upTo[i - 1]
                 f == fields[i]
                 r == Read(f, buf, prev.pos)
             IN  IF ~prev.ok THEN Err
                 ELSE IF ~Has(FlagsOf(fields, prev.v), f.bit)
                 THEN Got(Append(prev.v, Zero(f)), prev.pos)
                 ELSE IF f.soft
                 THEN Got(Append(prev.v, Zero(f)), IF r.ok THEN r.pos ELSE prev.pos)
                 ELSE IF r.ok THEN Got(Append(prev.v, r.v), r.pos) ELSE Err
  IN  upTo[Len(fields)]

ReadVector(fields, buf, pos) ==
  LET n == ReadUint(buf, pos, 4)
      item[i \in 0 .. n.v] ==
        IF i = 0 THEN Got(<<>>, n.pos)
        ELSE LET prev == item[i - 1]
                 r == ReadFields(fields, buf, prev.pos)
             IN  IF prev.ok /\ r.ok THEN Got(Append(prev.v, r.v), r.pos) ELSE Err
  IN  IF n.ok THEN item[n.v] ELSE Err

ReadBool(buf, pos) ==
  LET r == ReadUint(buf, pos, 4)
  IN  IF r.ok /\ r.v \in {TrueID, FalseID} THEN Got(r.v = TrueID, r.pos) ELSE Err

ReadBoxed(names, buf, pos) ==
  LET id == ReadUint(buf, pos, 4)
      name == Names[id.v]
      r == ReadFields(Decoded[name], buf, id.pos)
  IN  IF id.ok /\ id.v \in DOMAIN Names /\ name \in names /\ r.ok
      THEN Got(<<name, r.v>>, r.pos)
      ELSE Err

Read(f, buf, pos) ==
  CASE f.t \in {"int", "flags"} -> ReadUint(buf, pos, 4)
    [] f.t = "long" -> ReadUint(buf, pos, 8)
    [] f.t = "int256" -> ReadRaw(buf, pos, 32)
    [] f.t = "bool" -> ReadBool(buf, pos)
    [] f.t = "bytes" -> ReadBytes(buf, pos)
    [] f.t = "struct" -> ReadFields(f.sub, buf, pos)
    [] f.t = "vector" -> ReadVector(f.sub, buf, pos)
    [] f.t = "boxed" -> ReadBoxed(f.sub, buf, pos)

----------------------------------------------------------------------------
NotYet == [ok |-> FALSE, v |-> <<"not yet">>, pos |-> 0]

NoModels == <<"workerTypes", <<<<>>>>>>

MinFrameSize == 4

\* Mutant: a frame may be twice as long.
MaxFrameSize_Double == 2 * Base ^ 3

MaxFrameSize == Base ^ 3        \* 16 MiB

Init ==
  /\ msg \in Messages
  /\ payload = <<>>
  /\ got = NotYet

Send ==
  /\ payload = <<>>
  /\ LET p == Write(Boxed({msg[1]}), msg)
     IN  Len(p) \in MinFrameSize .. MaxFrameSize /\ payload' = p
  /\ UNCHANGED <<msg, got>>

\* External: the peer leaves out the end of the message.
Cut ==
  /\ payload # <<>> /\ got = NotYet
  /\ \E n \in MinFrameSize .. Len(payload) - 1 : payload' = SubSeq(payload, 1, n)
  /\ UNCHANGED <<msg, got>>

\* The chunk of an answerEx is the body of the HTTP response it carries.
Unwrap(v) ==
  LET h == Read(Boxed({"httpResponse"}), v[2][2], 1)
  IN  IF v[1] = "answerEx" /\ h.ok THEN [v EXCEPT ![2][2] = h.v[2][5]] ELSE v

\* A list of no models is an error.
Receive ==
  /\ payload # <<>> /\ got = NotYet
  /\ LET r == Read(Boxed(Decoder(msg[1])), payload, 1)
     IN  got' = IF ~r.ok \/ r.v = NoModels THEN Err ELSE Got(Unwrap(r.v), r.pos)
  /\ UNCHANGED <<msg, payload>>

Next == Send \/ Cut \/ Receive

Spec == Init /\ [][Next]_vars

----------------------------------------------------------------------------
\* What the caller of the decoder is to see of a message: not what the
\* decoder skips, and of an HTTP response its body.
Visible(m) ==
  LET of(h) == m[1] = "answerEx" /\ m[2][2] = Write(Boxed({"httpResponse"}), h)
      seen == [i \in DOMAIN m[2] |->
                 IF Decoded[m[1]][i].soft THEN Zero(Decoded[m[1]][i]) ELSE m[2][i]]
  IN  IF \E h \in Responses : of(h)
      THEN <<m[1], [seen EXCEPT ![2] = (CHOOSE h \in Responses : of(h))[2][5]]>>
      ELSE <<m[1], seen>>

\* A payload that WriteFrame accepts is decoded as the message it encodes, up to
\* and including the longest one, whatever optional fields it has: the 24-bit
\* length of WriteBytes never wraps in a frame.  Only a message that was cut, or
\* an empty list of models, is refused; one cut in the middle of an optional or
\* skipped field is refused or reads the same.
RoundTrips ==
  /\ got.ok => got.v = Visible(msg)
  /\ got = Err /\ msg # NoModels => Len(payload) < Len(Write(Boxed({msg[1]}), msg))
=============================================================================
