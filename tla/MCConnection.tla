---------------------------- MODULE MCConnection ----------------------------
(***************************************************************************)
(* The layers of a connection: the bytes of a message (Wire), the frames   *)
(* of one direction (FrameStream), and the goroutines of both directions   *)
(* (Duplex).  Each describes the connection at its own grain, so they are  *)
(* run one at a time: layer says which, and the others stay as they begin. *)
(*                                                                         *)
(* Bytes have base 6: the short length form ends at length 3, the long one *)
(* at 215, and a frame has up to 216 bytes.                                *)
(***************************************************************************)
EXTENDS Wire, FrameStream

CONSTANTS Reader, Free, Window, MaxPings

VARIABLES
  layer,
  pc, pong, writeMu, out, in, closed, peer, answered

D == INSTANCE Duplex

duplexVars == <<pc, pong, writeMu, out, in, closed, peer, answered>>

B(n) == [i \in 1 .. n |-> i % Base]
K == [i \in 1 .. 32 |-> (i + 1) % Base]

Lengths == 0 .. 6 \cup {196, 197} \cup 206 .. 216

TCPMessages ==
  {<<k, <<n>>>> : k \in {"ping", "pong", "connect", "connected"}, n \in {0, 255, Base ^ 8 - 1}}
  \cup {<<"packet", <<B(n)>>>> : n \in Lengths}
  \cup {<<k, <<7, B(n)>>>> : k \in {"query", "queryAnswer"}, n \in Lengths}
  \cup {<<"queryError", <<9, 200, B(n)>>>> : n \in 0 .. 6}

HTTPResponses == {<<"httpResponse", <<B(1), 200, B(2), hs, B(9)>>>> : hs \in {<<>>, <<<<B(1), B(7)>>>>}}

tokens == <<1, 2, 3, 4, 6>>
Infos ==
  {<<0, tokens, <<>>, <<>>, 0, 0, 0, 0>>, <<1, tokens, B(3), B(6), 0, 0, 0, 0>>,
   <<2, tokens, <<>>, <<>>, 1, 2, 3, 4>>, <<3, tokens, B(1), B(1), 1, 2, 3, 4>>}
Opt == {<<0, <<>>>>} \cup {<<1, i>> : i \in Infos}

Proxy == {<<0, K, B(2), B(5), FALSE, 0>>, <<1, K, B(2), B(5), TRUE, 0>>,
          <<2, K, B(2), B(5), FALSE, 4>>, <<3, K, B(2), B(5), TRUE, 4>>}
Auths == {<<"authShort", <<K, 77>>>>, <<"authLong", <<77>>>>}
Payments == {<<"signedPayment", <<B(7)>>>>, <<"signedPaymentEmpty", <<>>>>}

AppMessages ==
  {<<"connectToProxy", <<3, B(5), FALSE, 1, 4, 9>>>>, <<"authorizeShort", <<B(6)>>>>,
   <<"authorizeLong", <<>>>>, <<"authFailed", <<5, B(3)>>>>}
  \cup {<<"clientParams", p>> : p \in {<<0, B(5), FALSE, 0, 0>>, <<1, B(5), TRUE, 0, 0>>,
                                       <<2, B(5), FALSE, 1, 4>>, <<3, B(5), TRUE, 1, 4>>}}
  \cup {<<"proxyParams", p>> : p \in Proxy}
  \cup {<<"connectedToProxy", <<p, B(3), a, s>>>> : p \in Proxy, a \in Auths, s \in Payments}
  \cup {<<k, <<s, 10, 20>>>> : k \in {"authSuccess", "paymentStatus"}, s \in Payments}
  \cup {<<"runQueryEx", <<B(2), B(9), 3, 5, 17, K, 1, f[1], f[2]>>>> : f \in {<<0, FALSE>>, <<1, TRUE>>}}
  \cup {<<"httpRequest", <<B(4), B(2), B(3), hs, B(6)>>>> : hs \in {<<>>, <<<<B(1), B(2)>>, <<B(3), B(4)>>>>}}
  \cup {<<"answer", <<B(n), c, K, tokens>>>> : n \in {0, 6}, c \in BOOLEAN}
  \cup {<<k, <<K, B(4), o[1], o[2]>>>> : k \in {"answerEx", "answerPartEx"}, o \in Opt}
  \cup {<<"answerEx", <<K, Write(Boxed({"httpResponse"}), h), o[1], o[2]>>>> :
          h \in HTTPResponses, o \in Opt}
  \cup {<<"answerError", <<4, B(2), K, tokens>>>>}
  \cup {<<"answerErrorEx", <<K, 4, B(2), o[1], o[2]>>>> : o \in Opt}
  \cup {<<"workerTypes", <<ts>>>> :
          ts \in {<<>>, <<<<B(3), <<>>>>>>, <<<<B(3), <<<<1, 2, 3, 4>>, <<0, 5, 6, 7>>>>>>, <<B(4), <<>>>>>>}}

MCMessages == TCPMessages \cup AppMessages

\* One too short, the longest and one too long, for MinPayload = 2 and MaxPayload = 3.
MCSizes == {1, 3, 4}

----------------------------------------------------------------------------
MCInit ==
  /\ layer \in {"bytes", "frames", "goroutines"}
  /\ Init /\ F!Init /\ D!Init
  /\ layer # "bytes" => msg = CHOOSE m \in Messages : TRUE

MCNext ==
  \/ layer = "bytes" /\ Next /\ UNCHANGED <<layer, frameVars, duplexVars>>
  \/ layer = "frames" /\ F!Next /\ UNCHANGED <<layer, vars, duplexVars>>
  \/ layer = "goroutines" /\ D!Next /\ UNCHANGED <<layer, vars, frameVars>>

\* In the initial state of Duplex nothing that is fair is enabled, so a connection
\* whose goroutines do not run meets their fairness.
MCSpec == MCInit /\ [][MCNext]_<<layer, vars, frameVars, duplexVars>> /\ D!Fairness

----------------------------------------------------------------------------
(* The properties of Duplex; those of Wire and FrameStream are there.      *)

\* Close releases a read loop stuck in a pong and all writers behind writeMu.
CloseFreesAll == D!CloseFreesAll

\* A peer that goes on reading gets a pong for each of its pings, and none of its
\* answers is held up by the pings before it.
Served == D!Served
=============================================================================
