---------------------------- MODULE SessionProofs ---------------------------
(***************************************************************************)
(* What DialProxy returns, for every width of a difficulty, every cap,     *)
(* every hash function and whatever the peer sends (module Router); what   *)
(* runHandshake and the keepalive keep true, whatever the proxy answers    *)
(* and when (module Handshake); and the safety of the session pool, for    *)
(* any number of calls and addresses (module SessionPool).                 *)
(*                                                                         *)
(* The connection is open at every stage between the TCP dial and the      *)
(* return, and the work the peer asked for is done before TLS; the nonces  *)
(* below the one being tried are known to be too weak.                     *)
(***************************************************************************)
EXTENDS MCBringUp, SessionPool, TLAPS

Challenges == [magic : BOOLEAN, raw : Int]

Types ==
  /\ pc \in {"tcp", "deadline", "read", "search", "respond", "cert", "tls", "clear", "done"}
  /\ deadline \in BOOLEAN
  /\ nonce \in Nat
  /\ zeros \in [0 .. MaxNonce -> 0 .. Bits]
  /\ challenge \in Challenges
  /\ peer \in [sent : Seq(Challenges), up : BOOLEAN, got : Int]

\* n is the first nonce with the zero bits the peer asked for.
Least(n) ==
  /\ Acceptable(challenge) /\ n \in 0 .. MaxNonce
  /\ VerifyPoWResponse(Signed(challenge.raw), n)
  /\ \A m \in 0 .. MaxNonce : VerifyPoWResponse(Signed(challenge.raw), m) => n <= m

\* What has been done at each stage.
Stages ==
  /\ pc = "tcp" => conn = "none"
  /\ pc \in {"deadline", "read", "search", "respond", "cert", "tls", "clear"} => conn = "open"
  /\ pc # "done" => result = "none"
  /\ pc \in {"tcp", "deadline", "read", "search", "respond"} => peer.got = None
  /\ pc \in {"tcp", "deadline", "read"} => nonce = 0
  /\ pc = "clear" => Satisfied

\* The search goes up, and stops at the first nonce that will do.
Searched ==
  /\ pc = "search" =>
       \A m \in 0 .. MaxNonce : m < nonce => ~VerifyPoWResponse(Signed(challenge.raw), m)
  /\ pc = "respond" => Least(nonce)
  /\ peer.got # None => Least(peer.got)

IInv == Types /\ Stages /\ Searched /\ NoLeak /\ ReturnedReady

\* A difficulty as read from the wire is an integer.
LEMMA SignedInt == \A raw \in Int : Signed(raw) \in Int
<1>1. 2 ^ Width \in Int /\ 2 ^ (Width - 1) \in Int
      BY RouterAssumption
<1>2. QED
      BY <1>1 DEF Signed

\* DialProxy begins without a connection.
LEMMA InitIInv == Init => IInv
<1> SUFFICES ASSUME Init PROVE IInv
    OBVIOUS
<1>1. Types
  <2>1. NoChallenge \in Challenges
        BY DEF NoChallenge, Challenges
  <2>2. peer \in [sent : Seq(Challenges), up : BOOLEAN, got : Int]
        BY DEF Init, None
  <2>3. QED
        BY ZenonT(60), <2>1, <2>2 DEF Init, Types
<1>2. peer.got = None /\ pc = "tcp" /\ conn = "none" /\ nonce = 0 /\ result = "none"
      BY DEF Init
<1>3. QED
      BY <1>1, <1>2 DEF IInv, Stages, Searched, NoLeak, ReturnedReady

\* Giving up, at whichever stage, closes the connection.
LEMMA AbandonKeeps ==
  ASSUME IInv, Abandon, UNCHANGED <<challenge, nonce, skip, zeros, peer>>, deadline' \in BOOLEAN
  PROVE  IInv'
<1> USE DEF IInv
<1>1. pc' = "done" /\ result' = "error" /\ conn' = "closed"
      BY DEF Abandon, Fails
<1>2. Types'
      BY <1>1 DEF Types
<1>3. Stages' /\ NoLeak' /\ ReturnedReady'
      BY <1>1 DEF Stages, NoLeak, ReturnedReady
<1>4. Searched'
      BY <1>1 DEF Searched, Least, Acceptable, VerifyPoWResponse
<1>5. QED
      BY <1>2, <1>3, <1>4

\* The stages before the challenge.
LEMMA ConnectKeeps ==
  ASSUME IInv, DialContext \/ SetDeadline
  PROVE  IInv'
<1> USE DEF IInv
<1>1. UNCHANGED <<challenge, nonce, skip, zeros, peer>>
      BY DEF DialContext, SetDeadline, world
<1>2. pc \in {"tcp", "deadline"} /\ peer.got = None /\ nonce = 0 /\ result = "none"
      BY DEF DialContext, SetDeadline, Stages
<1>3. CASE DialContext
  <2>1. deadline' = deadline
        BY <1>3 DEF DialContext
  <2>2. \/ pc' = "done" /\ result' = "error" /\ conn' = "none"
        \/ pc' = "deadline" /\ result' = "none" /\ conn' = "open"
        BY <1>2, <1>3 DEF DialContext, Fails, Stages
  <2>3. Types' /\ Stages' /\ NoLeak' /\ ReturnedReady' /\ Searched'
        BY <1>1, <1>2, <2>1, <2>2 DEF Types, Stages, NoLeak, ReturnedReady, Searched
  <2>4. QED
        BY <2>3
<1>4. CASE SetDeadline
  <2>1. CASE Abandon /\ UNCHANGED deadline
        BY <1>1, <2>1, AbandonKeeps DEF Types
  <2>2. CASE pc' \in {"cert", "read"} /\ UNCHANGED <<result, conn>> /\ deadline' = TRUE
    <3>1. conn' = "open" /\ result' = "none"
          BY <1>2, <1>4, <2>2 DEF SetDeadline, Stages
    <3>2. QED
          BY <1>1, <1>2, <2>2, <3>1 DEF Types, Stages, NoLeak, ReturnedReady, Searched
  <2>3. QED
        BY ZenonT(60), <1>4, <2>1, <2>2 DEF SetDeadline, Goes
<1>5. QED
      BY <1>3, <1>4

\* The challenge is read, and nothing has been tried yet.
LEMMA ReadKeeps ==
  ASSUME IInv, ReadChallenge
  PROVE  IInv'
<1> USE DEF IInv
<1>1. UNCHANGED <<deadline, nonce, ctx, skip, zeros>> /\ pc = "read"
      BY DEF ReadChallenge
<1>2. peer.got = None /\ nonce = 0 /\ conn = "open" /\ result = "none"
      BY <1>1 DEF Stages
<1>3. CASE Abandon /\ UNCHANGED <<challenge, peer>>
      BY <1>1, <1>3, AbandonKeeps DEF Types
<1>4. CASE /\ peer.sent # <<>>
           /\ challenge' = Head(peer.sent)
           /\ peer' = [peer EXCEPT !.sent = Tail(@)]
           /\ Goes("search")
  <2>1. peer.sent \in Seq(Challenges)
        BY DEF Types
  <2>2. challenge' \in Challenges /\ Tail(peer.sent) \in Seq(Challenges)
        BY <1>4, <2>1
  <2>3. peer' \in [sent : Seq(Challenges), up : BOOLEAN, got : Int] /\ peer'.got = None
        BY ZenonT(60), <1>2, <1>4, <2>2 DEF Types
  <2>4. pc' = "search" /\ conn' = "open" /\ result' = "none"
        BY <1>2, <1>4 DEF Goes
  <2>5. Types'
        BY <1>1, <2>2, <2>3, <2>4 DEF Types
  <2>6. Stages' /\ NoLeak' /\ ReturnedReady'
        BY <2>3, <2>4 DEF Stages, NoLeak, ReturnedReady, None
  <2>7. Searched'
        BY <1>1, <1>2, <2>3, <2>4 DEF Searched, None
  <2>8. QED
        BY <2>5, <2>6, <2>7
<1>5. QED
      BY <1>3, <1>4 DEF ReadChallenge

\* A round of the search excludes a nonce or finds the first.
LEMMA SearchKeeps ==
  ASSUME IInv, FindNonce
  PROVE  IInv'
<1> USE DEF IInv
<1>1. UNCHANGED <<deadline, challenge, ctx, skip, zeros, peer>> /\ pc = "search"
      BY DEF FindNonce, world
<1>2. peer.got = None /\ conn = "open" /\ result = "none"
      BY <1>1 DEF Stages
<1> DEFINE d == Signed(challenge.raw)
<1>3. d \in Int /\ nonce \in Nat /\ MaxNonce \in Nat
      BY SignedInt, RouterAssumption DEF Types, Challenges
<1>4. \A m \in 0 .. MaxNonce : zeros[m] \in Nat
      BY SMTT(60), RouterAssumption DEF Types
<1>5. \A m \in 0 .. MaxNonce : m < nonce => ~VerifyPoWResponse(d, m)
      BY <1>1 DEF Searched
<1>6. CASE Abandon /\ UNCHANGED nonce
      BY <1>1, <1>6, AbandonKeeps DEF Types
<1>7. CASE Acceptable(challenge) /\ nonce <= MaxNonce /\ Solves(d, nonce) /\ Goes("respond") /\ UNCHANGED nonce
  <2>1. nonce \in 0 .. MaxNonce
        BY <1>3, <1>7
  <2>2. VerifyPoWResponse(d, nonce)
        BY <1>3, <1>4, <1>7, <2>1 DEF VerifyPoWResponse, Solves
  <2>3. ASSUME NEW m \in 0 .. MaxNonce, VerifyPoWResponse(d, m) PROVE nonce <= m
    <3>1. ~(m < nonce)
          BY <1>5, <2>3
    <3>2. QED
          BY <1>3, <3>1
  <2>4. Least(nonce)
        BY <1>7, <2>1, <2>2, <2>3 DEF Least
  <2>5. Least(nonce)'
        BY <1>1, <1>7, <2>4 DEF Least, Acceptable, VerifyPoWResponse
  <2>6. pc' = "respond" /\ conn' = "open" /\ result' = "none"
        BY <1>2, <1>7 DEF Goes
  <2>7. QED
        BY <1>1, <1>2, <1>7, <2>5, <2>6 DEF Types, Stages, NoLeak, ReturnedReady, Searched, None
<1>8. CASE nonce <= MaxNonce /\ ~Solves(d, nonce) /\ nonce' = nonce + 1 /\ Goes("search")
  <2>1. ~VerifyPoWResponse(d, nonce)
        BY <1>8 DEF VerifyPoWResponse, Solves
  <2>2. ASSUME NEW m \in 0 .. MaxNonce, m < nonce + 1 PROVE ~VerifyPoWResponse(d, m)
    <3>1. m < nonce \/ m = nonce
          BY <1>3, <2>2
    <3>2. QED
          BY <1>5, <2>1, <3>1
  <2>3. \A m \in 0 .. MaxNonce : m < nonce' => ~VerifyPoWResponse(d, m)'
        BY <1>1, <1>8, <2>2 DEF VerifyPoWResponse
  <2>4. pc' = "search" /\ conn' = "open" /\ result' = "none" /\ nonce' \in Nat
        BY <1>2, <1>3, <1>8 DEF Goes
  <2>5. Searched'
        BY <1>1, <1>2, <2>3, <2>4 DEF Searched, None
  <2>6. QED
        BY <1>1, <1>2, <2>4, <2>5 DEF Types, Stages, NoLeak, ReturnedReady, None
<1>9. QED
  <2>1. nonce > MaxNonce \/ nonce <= MaxNonce
        BY <1>3
  <2>2. QED
        BY <1>3, <1>6, <1>7, <1>8, <2>1 DEF FindNonce

\* The nonce goes to the peer.
LEMMA RespondKeeps ==
  ASSUME IInv, WriteResponse
  PROVE  IInv'
<1> USE DEF IInv
<1>1. UNCHANGED <<deadline, challenge, nonce, ctx, skip, zeros>> /\ pc = "respond"
      BY DEF WriteResponse
<1>2. conn = "open" /\ result = "none" /\ Least(nonce)
      BY <1>1 DEF Stages, Searched
<1>3. CASE Abandon /\ UNCHANGED peer
      BY <1>1, <1>3, AbandonKeeps DEF Types
<1>4. CASE Goes("cert") /\ peer' = [peer EXCEPT !.got = nonce]
  <2>1. peer' \in [sent : Seq(Challenges), up : BOOLEAN, got : Int] /\ peer'.got = nonce
        BY <1>4 DEF Types
  <2>2. pc' = "cert" /\ conn' = "open" /\ result' = "none"
        BY <1>2, <1>4 DEF Goes
  <2>3. Types' /\ Stages' /\ NoLeak' /\ ReturnedReady'
        BY <1>1, <2>1, <2>2 DEF Types, Stages, NoLeak, ReturnedReady
  <2>4. Least(peer.got)'
        BY <1>1, <1>2, <2>1 DEF Least, Acceptable, VerifyPoWResponse
  <2>5. Searched'
        BY <2>2, <2>4 DEF Searched
  <2>6. QED
        BY <2>3, <2>5
<1>5. QED
      BY <1>3, <1>4 DEF WriteResponse

\* The certificate, TLS, and the return.
LEMMA SecureKeeps ==
  ASSUME IInv, GenerateRATLSClientCert \/ HandshakeContext \/ ClearDeadline
  PROVE  IInv'
<1> USE DEF IInv
<1>1. UNCHANGED <<challenge, nonce, skip, zeros, peer>>
      BY DEF GenerateRATLSClientCert, HandshakeContext, ClearDeadline, world
<1>2. pc \in {"cert", "tls", "clear"} /\ conn = "open" /\ result = "none"
      BY DEF GenerateRATLSClientCert, HandshakeContext, ClearDeadline, Stages
<1>3. deadline' \in BOOLEAN
      BY ZenonT(60) DEF GenerateRATLSClientCert, HandshakeContext, ClearDeadline, Types
<1>4. CASE Abandon
      BY <1>1, <1>3, <1>4, AbandonKeeps
<1>5. CASE ~Abandon
  <2>1. \/ pc' = "tls" /\ conn' = "open" /\ result' = "none"
        \/ pc' = "clear" /\ conn' = "open" /\ result' = "none" /\ Satisfied
        \/ pc' = "done" /\ conn' = "open" /\ result' = "conn" /\ deadline' = FALSE /\ Satisfied
        BY <1>2, <1>5 DEF GenerateRATLSClientCert, HandshakeContext, ClearDeadline, Goes, Stages
  <2>2. Satisfied => Satisfied'
        BY <1>1 DEF Satisfied, VerifyPoWResponse
  <2>3. Types'
        BY <1>1, <1>3, <2>1 DEF Types
  <2>4. Stages' /\ NoLeak' /\ ReturnedReady'
        BY ZenonT(60), <2>1, <2>2 DEF Stages, NoLeak, ReturnedReady
  <2>5. Searched'
        BY <1>1, <2>1 DEF Searched, Least, Acceptable, VerifyPoWResponse
  <2>6. QED
        BY <2>3, <2>4, <2>5
<1>6. QED
      BY <1>4, <1>5

\* Nothing the peer or the caller does disturbs what the dial relies on.
LEMMA EnvironmentKeeps ==
  ASSUME IInv, PeerSends \/ PeerHangsUp \/ Cancel
  PROVE  IInv'
<1> USE DEF IInv
<1>1. UNCHANGED <<pc, result, conn, deadline, challenge, nonce, skip, zeros>>
      BY DEF PeerSends, PeerHangsUp, Cancel
<1>2. peer' \in [sent : Seq(Challenges), up : BOOLEAN, got : Int] /\ peer'.got = peer.got
  <2>1. CASE PeerSends
    <3>1. PICK m \in BOOLEAN, r \in Raw : peer' = [peer EXCEPT !.sent = <<[magic |-> m, raw |-> r]>>]
          BY <2>1 DEF PeerSends
    <3>2. [magic |-> m, raw |-> r] \in Challenges
          BY DEF Challenges, Raw
    <3>3. <<[magic |-> m, raw |-> r]>> \in Seq(Challenges)
          BY <3>2
    <3>4. QED
          BY ZenonT(60), <3>1, <3>3 DEF Types
  <2>2. CASE PeerHangsUp
        BY ZenonT(60), <2>2 DEF PeerHangsUp, Types
  <2>3. CASE Cancel
        BY <2>3 DEF Cancel, Types
  <2>4. QED
        BY <2>1, <2>2, <2>3
<1>3. Satisfied' <=> Satisfied
      BY ZenonT(60), <1>1, <1>2 DEF Satisfied, VerifyPoWResponse
<1>4. Types'
      BY <1>1, <1>2 DEF Types
<1>5. Stages' /\ NoLeak' /\ ReturnedReady'
      BY ZenonT(60), <1>1, <1>2, <1>3 DEF Stages, NoLeak, ReturnedReady
<1>6. Searched'
      BY <1>1, <1>2 DEF Searched, Least, Acceptable, VerifyPoWResponse
<1>7. QED
      BY <1>4, <1>5, <1>6

\* Every stage of the dial, every move of the peer and the deadline.
LEMMA NextIInv == IInv /\ [Next]_vars => IInv'
<1> SUFFICES ASSUME IInv, [Next]_vars PROVE IInv'
    BY SMTT(60)
<1>1. CASE UNCHANGED vars
      BY <1>1 DEF vars, IInv, Types, Stages, Searched, NoLeak, ReturnedReady, Satisfied, Least,
                  Acceptable, VerifyPoWResponse
<1>2. CASE Next
      BY <1>2, ConnectKeeps, ReadKeeps, SearchKeeps, RespondKeeps, SecureKeeps, EnvironmentKeeps
         DEF Next, DialProxy
<1>3. QED
      BY <1>1, <1>2

\* DialProxy returns no error with an open connection, whichever stage fails.
THEOREM LeaksNever == Spec => []NoLeak
<1>1. IInv => NoLeak
      BY DEF IInv
<1>2. QED
      BY <1>1, InitIInv, NextIInv, PTL DEF Spec

\* A connection DialProxy returns is open, without a deadline, and the peer has
\* the proof of work it asked for.
THEOREM ReadyWhenReturned == Spec => []ReturnedReady
<1>1. IInv => ReturnedReady
      BY DEF IInv
<1>2. QED
      BY <1>1, InitIInv, NextIInv, PTL DEF Spec

\* findNonce sends the least nonce that answers the challenge, for a difficulty
\* between zero and the cap, whatever the hash function.
THEOREM LeastAnswer == Spec => []AnswerIsLeast
<1>1. IInv => AnswerIsLeast
  <2> SUFFICES ASSUME IInv, peer.got # None PROVE AnswerIsLeast
      BY DEF AnswerIsLeast
  <2> DEFINE d == Signed(challenge.raw)
             good == {n \in 0 .. MaxNonce : VerifyPoWResponse(d, n)}
  <2>1. Least(peer.got)
        BY DEF IInv, Searched
  <2>2. d \in Int /\ d \in 0 .. MaxDifficulty
        BY <2>1, SignedInt, RouterAssumption DEF Least, Acceptable, IInv, Types, Challenges
  <2>3. peer.got \in good /\ \A m \in good : peer.got <= m
        BY <2>1 DEF Least
  <2>4. \A x \in good : x \in Int
        OBVIOUS
  <2>5. ASSUME NEW x \in good, \A y \in good : x <= y PROVE x = peer.got
    <3>1. x <= peer.got /\ peer.got <= x /\ x \in Int /\ peer.got \in Int
          BY <2>3, <2>4, <2>5
    <3>2. QED
          BY <3>1
  <2>6. peer.got = Min(good)
        BY <2>3, <2>5 DEF Min
  <2>7. QED
        BY <2>2, <2>6 DEF AnswerIsLeast
<1>2. QED
      BY <1>1, InitIInv, NextIInv, PTL DEF Spec

----------------------------------------------------------------------------
(* The handshake.  Each step of runHandshake is reached only through the   *)
(* one before: the answer of one query is used up before the next is sent, *)
(* so an "ok" during the authorization is the proxy's to that query.       *)

Steps == {"connect", "connected", "params", "register", "long", "auth", "ready", "failed"}

Reached ==
  /\ step \in Steps
  /\ step \in {"long", "auth", "ready"} => onchain
  /\ step \in {"register", "long", "auth", "ready"} => H!validateConnectedToProxy(offer)
  /\ step \in {"connect", "connected", "register", "long"} => answer = "none"
  /\ step = "auth" /\ answer = "ok" => authorized
  /\ step = "ready" => authorized

\* A handshake begins with nothing asked.
LEMMA InitReached == H!Init => Reached
BY DEF H!Init, Reached, Steps

\* Only these touch what Reached is about.
ReachedVars == <<step, answer, offer, onchain, authorized>>

\* Every step either leaves those variables alone or is one of these.
LEMMA HandshakeSteps ==
  H!Next => \/ H!SendConnect \/ H!waitForInited \/ H!awaitQueryFails \/ H!ContextDone
            \/ H!PickAuth \/ H!RegisterOnChain \/ H!sendAuthorize \/ H!Authorized
            \/ H!ProxyAnswers \/ UNCHANGED ReachedVars
<1> SUFFICES ASSUME H!Ping \/ H!KeepaliveEnds \/ H!ReadFails \/ H!DispatchConnected \/ H!Close
                      \/ H!Break \/ H!IdleDrop \/ H!Tick
             PROVE  UNCHANGED ReachedVars
    BY DEF H!Next, H!Handle
<1> USE DEF ReachedVars, H!hsVars, H!proxyVars
<1>1. CASE H!Ping \/ H!KeepaliveEnds
      BY <1>1 DEF H!Ping, H!KeepaliveEnds
<1>2. CASE H!ReadFails \/ H!DispatchConnected \/ H!Close
      BY ZenonT(60), <1>2 DEF H!ReadFails, H!DispatchConnected, H!Close
<1>3. CASE H!Break \/ H!IdleDrop \/ H!Tick
      BY ZenonT(60), <1>3 DEF H!Break, H!IdleDrop, H!Tick
<1>4. QED
      BY <1>1, <1>2, <1>3

\* Every step of the handshake, of the proxy and of the clock.
LEMMA NextReached == Reached /\ [H!Next]_(H!vars) => Reached'
<1> SUFFICES ASSUME Reached, [H!Next]_(H!vars) PROVE Reached'
    OBVIOUS
<1> USE DEF Reached, Steps, H!proxyVars, H!Go, H!Fail
<1>1. CASE UNCHANGED ReachedVars
      BY ZenonT(60), <1>1 DEF ReachedVars, H!validateConnectedToProxy
<1>2. CASE H!SendConnect
      BY ZenonT(60), <1>2 DEF H!SendConnect, H!Send, H!validateConnectedToProxy
<1>3. CASE H!waitForInited
      BY ZenonT(60), <1>3 DEF H!waitForInited, H!Send, H!validateConnectedToProxy
<1>4. CASE H!awaitQueryFails \/ H!ContextDone
      BY ZenonT(60), <1>4 DEF H!awaitQueryFails, H!ContextDone, H!validateConnectedToProxy
<1>5. CASE H!PickAuth
      BY ZenonT(60), <1>5 DEF H!PickAuth, H!AuthSecretHashOK, H!validateConnectedToProxy
<1>6. CASE H!RegisterOnChain
      BY ZenonT(60), <1>6 DEF H!RegisterOnChain, H!validateConnectedToProxy
<1>7. CASE H!sendAuthorize
      BY <1>7 DEF H!sendAuthorize, H!Send, H!validateConnectedToProxy
<1>8. CASE H!Authorized
      BY ZenonT(60), <1>8 DEF H!Authorized, H!validateConnectedToProxy
<1>9. CASE H!ProxyAnswers
      BY <1>9 DEF H!ProxyAnswers, H!validateConnectedToProxy
<1>10. CASE UNCHANGED H!vars
      BY <1>1, <1>10 DEF H!vars, H!hsVars, ReachedVars
<1>11. QED
      BY ZenonT(60), <1>1, <1>2, <1>3, <1>4, <1>5, <1>6, <1>7, <1>8, <1>9, <1>10, HandshakeSteps

\* A session that is Ready was accepted by the proxy it validated, and the
\* authorization is asked for only after the register message was executed
\* (runHandshake), whatever the proxy answers and however long it takes.
THEOREM AcceptedWhenReady == H!Spec => []ReadyMeansAccepted
<1>1. Reached => ReadyMeansAccepted
      BY DEF Reached, ReadyMeansAccepted, H!ReadyMeansAccepted, H!validateConnectedToProxy
<1>2. QED
      BY <1>1, InitReached, NextReached, PTL DEF H!Spec

----------------------------------------------------------------------------
(* The keepalive.  Once it has sent a ping, a session that can write is    *)
(* idle for at most the interval in which the next ping is due: nothing    *)
(* but a lost connection stops the goroutine, and the clock does not pass  *)
(* a ping that is due.                                                     *)

Beating ==
  open /\ writable /\ pinged =>
    /\ proxy /\ inited /\ keepalive = "on"
    /\ idle = 0 \/ (due /\ idle = 1)

Kept ==
  /\ idle \in Nat
  /\ pinged => keepalive # "off"
  /\ keepalive # "off" => step = "ready"
  /\ Beating

\* No ping has been sent.
LEMMA InitKept == H!Init => Kept
BY SMTT(60) DEF H!Init, Kept, Beating

\* Every step of the handshake, of the proxy and of the clock.
LEMMA NextKept == Kept /\ [H!Next]_(H!vars) => Kept'
<1> SUFFICES ASSUME Kept, [H!Next]_(H!vars) PROVE Kept'
    OBVIOUS
<1> USE IdleAssumption DEF Kept, Beating, H!hsVars, H!proxyVars, H!kaVars, H!Go, H!Fail
<1>1. CASE H!SendConnect
      BY <1>1 DEF H!SendConnect, H!Send
<1>2. CASE H!waitForInited
      BY <1>2 DEF H!waitForInited, H!Send
<1>3. CASE H!awaitQueryFails \/ H!ContextDone
      BY <1>3 DEF H!awaitQueryFails, H!ContextDone
<1>4. CASE H!PickAuth
      BY <1>4 DEF H!PickAuth
<1>5. CASE H!RegisterOnChain
      BY <1>5 DEF H!RegisterOnChain
<1>6. CASE H!sendAuthorize
      BY <1>6 DEF H!sendAuthorize, H!Send
<1>7. CASE H!Authorized
      BY ZenonT(60), <1>7 DEF H!Authorized
<1>8. CASE H!Ping
      BY ZenonT(60), <1>8 DEF H!Ping
<1>9. CASE H!KeepaliveEnds
      BY <1>9 DEF H!KeepaliveEnds
<1>10. CASE H!ReadFails \/ H!Close
      BY <1>10 DEF H!ReadFails, H!Close
<1>11. CASE H!DispatchConnected
      BY <1>11 DEF H!DispatchConnected
<1>12. CASE H!ProxyAnswers
      BY <1>12 DEF H!ProxyAnswers
<1>13. CASE H!Break
      BY <1>13 DEF H!Break
<1>14. CASE H!IdleDrop
      BY <1>14 DEF H!IdleDrop
<1>15. CASE H!Tick
  <2>1. ~due /\ idle' = idle + 1 /\ UNCHANGED <<open, writable, pinged, proxy, inited, keepalive, step>>
        BY <1>15 DEF H!Tick
  <2>2. keepalive = "on" => due'
        BY <1>15, Zenon DEF H!Tick
  <2>3. QED
        BY <2>1, <2>2
<1>16. CASE UNCHANGED H!vars
      BY <1>16 DEF H!vars
<1>17. QED
      BY ZenonT(60), <1>1, <1>2, <1>3, <1>4, <1>5, <1>6, <1>7, <1>8, <1>9, <1>10, <1>11, <1>12, <1>13, <1>14,
         <1>15, <1>16 DEF H!Next, H!Handle

\* From its first ping on, a session whose writes succeed never reaches the
\* proxy's idle limit (StartKeepalive), for every limit longer than the
\* keepalive's interval.
THEOREM AliveOncePinged == H!Spec => []KeptAlive
<1>1. Kept => KeptAlive
      BY IdleAssumption DEF Kept, Beating, KeptAlive, H!KeptAlive
<1>2. QED
      BY <1>1, InitKept, NextKept, PTL DEF H!Spec

----------------------------------------------------------------------------
(* The session pool.  The invariant adds to the properties when a call has *)
(* created its session: until then the session is nowhere, and from then   *)
(* on it is in the map, doomed or lost, whatever the dial and the          *)
(* handshake do.                                                           *)

Created(s) == status[s] # "none"

\* A created session is registered, doomed or lost; one not created is none
\* of these and has no transport.
Ledger ==
  \A s \in Calls :
    /\ Created(s) => s \in Mapped \cup doomed \cup lost
    /\ ~Created(s) => s \notin Mapped \cup doomed \cup lost /\ tr[s] = "none"

\* Which calls have created their session.
PoolStages ==
  \A c \in Calls :
    /\ cpc[c] \in {"idle", "evicting"} => ~Created(c)
    /\ cpc[c] \in {"dialing", "shaking", "readying"} => Created(c)
    /\ returned[c] # NoSession => Created(returned[c])
    /\ closing[c] # "no" => Created(c)

PoolInv == TypeOK /\ ClosedStaysEmpty /\ MapHoldsLive /\ Ledger /\ PoolStages

\* What the steps of a call and of Session.Close have in common: they leave
\* the map alone, create no session, and only a call past its dial gets a
\* transport.
Local ==
  /\ UNCHANGED <<poolVars, addr, doomed, dropped>>
  /\ \A c \in Calls : Created(c)' <=> Created(c)
  /\ \A c \in Calls : ~Created(c) => tr'[c] = tr[c]

\* A step that leaves the map and the ledger of dooms alone keeps both in
\* order.
LEMMA LocalKeeps ==
  ASSUME PoolInv, TypeOK', Local
  PROVE  ClosedStaysEmpty' /\ MapHoldsLive' /\ Ledger'
<1>1. ClosedStaysEmpty'
  BY SMTT(60) DEF PoolInv, Local, poolVars, ClosedStaysEmpty
<1>2. MapHoldsLive'
  BY SMTT(60) DEF PoolInv, Local, poolVars, MapHoldsLive
<1>3. Mapped' = Mapped
  BY DEF Local, poolVars, Mapped
<1>4. Ledger'
  BY SMTT(60), <1>3 DEF PoolInv, Local, poolVars, Ledger
<1> QED BY <1>1, <1>2, <1>4

\* The steps of ConnectProxy that only return or go on connecting.
LEMMA ConnectInv ==
  ASSUME PoolInv, NEW c \in Calls,
         \/ ConnectRefused(c) \/ ConnectExisting(c) \/ Dial(c) \/ DialFails(c)
         \/ HandshakeOK(c) \/ SetReady(c) \/ HandshakeFails(c) \/ ConnectFails(c)
  PROVE  PoolInv'
<1> USE PoolAssumption DEF PoolInv
<1>1. CASE ConnectRefused(c)
  <2>1. TypeOK' BY SMTT(60), <1>1 DEF ConnectRefused, Return, TypeOK, poolVars, closeVars
  <2>2. Local BY ZenonT(60), <1>1 DEF ConnectRefused, Local, Created, closeVars
  <2>3. PoolStages' BY SMTT(60), <1>1 DEF ConnectRefused, Return, PoolStages, Created, TypeOK, closeVars
  <2> QED BY SMTT(60), <2>1, <2>2, <2>3, LocalKeeps
<1>2. CASE ConnectExisting(c)
  <2>0. sessions[addr[c]] \in Calls BY SMTT(60), <1>2 DEF ConnectExisting, TypeOK
  <2>1. TypeOK' BY SMTT(60), <1>2, <2>0 DEF ConnectExisting, Return, TypeOK, poolVars, closeVars
  <2>2. Local BY ZenonT(60), <1>2 DEF ConnectExisting, Local, Created, closeVars
  <2>3. Created(sessions[addr[c]]) BY ZenonT(60), <1>2 DEF ConnectExisting, isUsable, Created
  <2>4. PoolStages' BY SMTT(60), <1>2, <2>0, <2>3 DEF ConnectExisting, Return, PoolStages, Created, TypeOK, closeVars
  <2> QED BY <2>1, <2>2, <2>4, LocalKeeps
<1>3. CASE Dial(c)
  <2>0. Created(c) BY ZenonT(60), <1>3 DEF Dial, PoolStages
  <2>1. TypeOK' BY SMTT(60), <1>3 DEF Dial, TypeOK, poolVars, closeVars
  <2>2. Local BY SMTT(60), <1>3, <2>0 DEF Dial, Local, Created, closeVars, TypeOK
  <2>3. PoolStages' BY SMTT(60), <1>3, <2>0 DEF Dial, PoolStages, Created, TypeOK, closeVars
  <2> QED BY <2>1, <2>2, <2>3, LocalKeeps
<1>4. CASE DialFails(c)
  <2>0. Created(c) BY ZenonT(60), <1>4 DEF DialFails, PoolStages
  <2>1. TypeOK' BY SMTT(60), <1>4 DEF DialFails, TypeOK, poolVars, closeVars
  <2>2. Local BY SMTT(60), <1>4, <2>0 DEF DialFails, Local, Created, closeVars, TypeOK
  <2>3. PoolStages' BY SMTT(60), <1>4, <2>0 DEF DialFails, PoolStages, Created, TypeOK, closeVars
  <2> QED BY <2>1, <2>2, <2>3, LocalKeeps
<1>5. CASE HandshakeOK(c)
  <2>0. Created(c) BY ZenonT(60), <1>5 DEF HandshakeOK, PoolStages
  <2>1. TypeOK' BY ZenonT(60), <1>5 DEF HandshakeOK, TypeOK, poolVars, closeVars
  <2>2. Local BY ZenonT(60), <1>5 DEF HandshakeOK, Local, Created, closeVars
  <2>3. PoolStages' BY SMTT(60), <1>5, <2>0 DEF HandshakeOK, PoolStages, Created, TypeOK, closeVars
  <2> QED BY <2>1, <2>2, <2>3, LocalKeeps
<1>6. CASE SetReady(c)
  <2>0. Created(c) BY ZenonT(60), <1>6 DEF SetReady, PoolStages
  <2>1. TypeOK' BY SMTT(60), <1>6 DEF SetReady, Return, TypeOK, poolVars, closeVars
  <2>2. Local BY SMTT(60), <1>6, <2>0 DEF SetReady, Local, Created, closeVars, TypeOK
  <2>3. PoolStages' BY SMTT(60), <1>6, <2>0 DEF SetReady, Return, PoolStages, Created, TypeOK, closeVars
  <2> QED BY <2>1, <2>2, <2>3, LocalKeeps
<1>7. CASE HandshakeFails(c)
  <2>0. Created(c) BY SMTT(60), <1>7 DEF HandshakeFails, PoolStages
  <2>1. TypeOK' BY SMTT(60), <1>7 DEF HandshakeFails, TypeOK, poolVars, closeVars
  <2>2. Local BY SMTT(60), <1>7, <2>0 DEF HandshakeFails, Local, Created, closeVars, TypeOK
  <2>3. PoolStages' BY <1>7, <2>0 DEF HandshakeFails, PoolStages, Created, TypeOK, closeVars
  <2> QED BY <2>1, <2>2, <2>3, LocalKeeps
<1>8. CASE ConnectFails(c)
  <2>1. TypeOK' BY ZenonT(60), <1>8 DEF ConnectFails, Return, TypeOK, poolVars, closeVars
  <2>2. Local BY ZenonT(60), <1>8 DEF ConnectFails, Local, Created, closeVars
  <2>3. PoolStages' BY <1>8 DEF ConnectFails, Return, PoolStages, Created, TypeOK, closeVars
  <2> QED BY <2>1, <2>2, <2>3, LocalKeeps
<1> QED BY <1>1, <1>2, <1>3, <1>4, <1>5, <1>6, <1>7, <1>8

\* Session.Close, the end of a connection and the watcher's check.
LEMMA SessionInv ==
  ASSUME PoolInv, NEW s \in Calls,
         \/ CloseBegin(s) \/ CloseEnd(s) \/ TransportDies(s) \/ RunCancelled(s)
         \/ WatchCheck(s)
  PROVE  PoolInv'
<1> USE PoolAssumption DEF PoolInv
<1>1. CASE CloseBegin(s)
  <2>0. Created(s) BY SMTT(60), <1>1 DEF CloseBegin, Ledger
  <2>1. TypeOK' BY SMTT(60), <1>1 DEF CloseBegin, TypeOK, poolVars, callVars
  <2>2. Local BY SMTT(60), <1>1, <2>0 DEF CloseBegin, Local, Created, callVars, TypeOK
  <2>3. PoolStages' BY SMTT(60), <1>1, <2>0 DEF CloseBegin, PoolStages, Created, callVars, TypeOK
  <2> QED BY SMTT(60), <2>1, <2>2, <2>3, LocalKeeps
<1>2. CASE CloseEnd(s)
  <2>0. Created(s) BY ZenonT(60), <1>2 DEF CloseEnd, PoolStages
  <2>1. TypeOK' BY SMTT(60), <1>2 DEF CloseEnd, TypeOK, poolVars, callVars
  <2>2. Local BY SMTT(60), <1>2, <2>0 DEF CloseEnd, Local, Created, callVars, TypeOK
  <2>3. PoolStages' BY SMTT(60), <1>2, <2>0 DEF CloseEnd, PoolStages, Created, callVars, TypeOK
  <2> QED BY <2>1, <2>2, <2>3, LocalKeeps
<1>3. CASE TransportDies(s) \/ RunCancelled(s)
  <2>0. tr[s] # "none" /\ tr' = [tr EXCEPT ![s] = "closed"]
    BY <1>3 DEF TransportDies, RunCancelled
  <2>a. UNCHANGED <<poolVars, callVars, status, ref, closeVars, watch>>
    BY SMTT(60), <1>3 DEF TransportDies, RunCancelled
  <2>1. TypeOK' BY SMTT(60), <2>0, <2>a DEF TypeOK, poolVars, callVars, closeVars
  <2>2. Local BY SMTT(60), <2>0, <2>a DEF Local, Ledger, Created, callVars, closeVars, TypeOK
  <2>3. PoolStages' BY ZenonT(60), <2>a DEF PoolStages, Created, callVars, closeVars
  <2> QED BY <2>1, <2>2, <2>3, LocalKeeps
<1>4. CASE WatchCheck(s)
  <2>1. TypeOK' BY SMTT(60), <1>4 DEF WatchCheck, TypeOK, poolVars, callVars, closeVars
  <2>2. Local BY ZenonT(60), <1>4 DEF WatchCheck, Local, Created, callVars, closeVars
  <2>3. PoolStages' BY <1>4 DEF WatchCheck, PoolStages, Created, callVars, closeVars
  <2> QED BY <2>1, <2>2, <2>3, LocalKeeps
<1> QED BY <1>1, <1>2, <1>3, <1>4

\* removeSession takes what it removes from the map onto the list of the
\* doomed, and touches no other session.
LEMMA RemoveKeeps ==
  ASSUME PoolInv, NEW a \in Addrs, removeSession(a),
         UNCHANGED <<closed, lost, addr, dropped, status, tr>>
  PROVE  ClosedStaysEmpty' /\ MapHoldsLive' /\ Ledger'
<1> USE PoolAssumption DEF PoolInv
<1>0. /\ sessions' = [sessions EXCEPT ![a] = NoSession]
      /\ doomed' = doomed \cup ({sessions[a]} \ {NoSession})
  BY DEF removeSession
<1>1. sessions \in [Addrs -> Calls \cup {NoSession}]
  BY DEF TypeOK
<1>2. ClosedStaysEmpty'
  BY <1>0, <1>1 DEF ClosedStaysEmpty
<1>3. MapHoldsLive'
  BY <1>0, <1>1 DEF MapHoldsLive
<1>4. Mapped' \cup doomed' = Mapped \cup doomed
  <2>1. \A s \in Mapped : s \in Mapped' \/ s = sessions[a]
    BY <1>0, <1>1 DEF Mapped
  <2>2. Mapped' \subseteq Mapped
    BY <1>0, <1>1 DEF Mapped
  <2>3. sessions[a] # NoSession => sessions[a] \in Mapped
    BY <1>1 DEF Mapped
  <2>4. NoSession \notin Mapped
    BY DEF Mapped
  <2> QED BY <1>0, <2>1, <2>2, <2>3, <2>4
<1>5. Ledger'
  <2> SUFFICES ASSUME NEW s \in Calls
               PROVE  (s \in Mapped' \cup doomed' \cup lost') <=> (s \in Mapped \cup doomed \cup lost)
    BY DEF Ledger, Created
  <2> QED BY SMTT(60), <1>4
<1> QED BY <1>2, <1>3, <1>5

\* The four callers of removeSession.
LEMMA RemoveInv ==
  ASSUME PoolInv,
         \/ \E c \in Calls : ConnectEvict(c) \/ Cleanup(c) \/ WatchRemove(c)
         \/ \E a \in Addrs : DisconnectProxy(a)
  PROVE  PoolInv'
<1> USE PoolAssumption DEF PoolInv
<1>1. ASSUME NEW c \in Calls, ConnectEvict(c) PROVE PoolInv'
  <2>1. addr[c] \in Addrs /\ sessions[addr[c]] \in Calls \cup {NoSession}
    BY ZenonT(60) DEF TypeOK
  <2>2. TypeOK' BY <1>1, <2>1 DEF ConnectEvict, removeSession, TypeOK
  <2>3. PoolStages' BY ZenonT(60), <1>1 DEF ConnectEvict, PoolStages, Created, TypeOK
  <2> QED BY ZenonT(60), <1>1, <2>1, <2>2, <2>3, RemoveKeeps DEF ConnectEvict
<1>2. ASSUME NEW c \in Calls, Cleanup(c) PROVE PoolInv'
  <2>1. addr[c] \in Addrs /\ sessions[addr[c]] \in Calls \cup {NoSession}
    BY SMTT(60) DEF TypeOK
  <2>2. TypeOK' BY <1>2, <2>1 DEF Cleanup, removeSession, TypeOK
  <2>3. PoolStages' BY ZenonT(60), <1>2 DEF Cleanup, PoolStages, Created, TypeOK
  <2> QED BY SMTT(60), <1>2, <2>1, <2>2, <2>3, RemoveKeeps DEF Cleanup
<1>3. ASSUME NEW c \in Calls, WatchRemove(c) PROVE PoolInv'
  <2>1. addr[c] \in Addrs /\ sessions[addr[c]] \in Calls \cup {NoSession}
    BY DEF TypeOK
  <2>2. TypeOK' BY ZenonT(60), <1>3, <2>1 DEF WatchRemove, removeSession, TypeOK, callVars
  <2>3. PoolStages' BY <1>3 DEF WatchRemove, PoolStages, Created, callVars
  <2> QED BY <1>3, <2>1, <2>2, <2>3, RemoveKeeps DEF WatchRemove, callVars
<1>4. ASSUME NEW a \in Addrs, DisconnectProxy(a) PROVE PoolInv'
  <2>1. TypeOK' BY SMTT(60), <1>4 DEF DisconnectProxy, removeSession, TypeOK, callVars
  <2>2. PoolStages' BY ZenonT(60), <1>4 DEF DisconnectProxy, PoolStages, Created, callVars
  <2> QED BY SMTT(60), <1>4, <2>1, <2>2, RemoveKeeps DEF DisconnectProxy, callVars
<1> QED BY SMTT(60), <1>1, <1>2, <1>3, <1>4

\* A call that stores its new session in the map of an open Client.
LEMMA InsertInv ==
  ASSUME PoolInv, NEW c \in Calls, cpc[c] \in {"idle", "evicting"}, ~closed, Insert(c),
         target' \in {target, [target EXCEPT ![c] = NoSession]},
         UNCHANGED <<closed, addr, returned, ref, tr, closeVars, watch>>
  PROVE  PoolInv'
<1> USE PoolAssumption DEF PoolInv
<1>0. /\ sessions' = [sessions EXCEPT ![addr[c]] = c]
      /\ lost' = lost \cup ({sessions[addr[c]]} \ {NoSession})
      /\ status' = [status EXCEPT ![c] = "connecting"]
      /\ cpc' = [cpc EXCEPT ![c] = "dialing"]
  BY ZenonT(60) DEF Insert
<1>1. /\ sessions \in [Addrs -> Calls \cup {NoSession}]
      /\ addr \in [Calls -> Addrs]
      /\ status \in [Calls -> {"none", "connecting", "ready", "disconnected", "crashed"}]
  BY SMTT(60) DEF TypeOK
<1>2. c \notin Mapped \cup doomed \cup lost
  BY SMTT(60) DEF PoolStages, Ledger
<1>3. TypeOK'
  BY SMTT(60), <1>0, <1>1 DEF TypeOK, closeVars
<1>4. ClosedStaysEmpty'
  BY ZenonT(60) DEF ClosedStaysEmpty
<1>5. MapHoldsLive'
  BY SMTT(60), <1>0, <1>1, <1>2 DEF MapHoldsLive, closeVars
<1>6. Mapped' \cup lost' = Mapped \cup lost \cup {c}
  <2>1. \A s \in Mapped : s \in Mapped' \/ s = sessions[addr[c]]
    BY SMTT(60), <1>0, <1>1 DEF Mapped
  <2>2. c \in Mapped' /\ Mapped' \subseteq Mapped \cup {c}
    BY <1>0, <1>1 DEF Mapped
  <2>3. sessions[addr[c]] # NoSession => sessions[addr[c]] \in Mapped
    BY <1>1 DEF Mapped
  <2>4. NoSession \notin Mapped
    BY SMTT(60) DEF Mapped
  <2> QED BY ZenonT(60), <1>0, <2>1, <2>2, <2>3, <2>4
<1>7. \A s \in Calls : Created(s)' <=> Created(s) \/ s = c
  BY <1>0, <1>1 DEF Created
<1>8. Ledger'
  <2> SUFFICES ASSUME NEW s \in Calls
               PROVE  (s \in Mapped' \cup doomed' \cup lost')
                        <=> (s \in Mapped \cup doomed \cup lost \/ s = c)
    BY SMTT(60), <1>7 DEF Ledger
  <2> QED BY SMTT(60), <1>6 DEF closeVars
<1>9. PoolStages'
  <2>1. \A d \in Calls : returned[d] \in Calls \cup {NoSession} BY DEF TypeOK
  <2> QED BY SMTT(60), <1>0, <1>7, <2>1 DEF PoolStages, TypeOK, closeVars
<1> QED BY SMTT(60), <1>3, <1>4, <1>5, <1>8, <1>9

\* ConnectProxy without and with an eviction.
LEMMA CreateInv ==
  ASSUME PoolInv, NEW c \in Calls, ConnectNew(c) \/ ConnectRelock(c)
  PROVE  PoolInv'
<1>1. CASE ConnectNew(c)
  BY ZenonT(60), <1>1, InsertInv DEF ConnectNew
<1>2. CASE ConnectRelock(c) /\ ~closed
  BY ZenonT(60), <1>2, InsertInv DEF ConnectRelock
<1>3. CASE ConnectRelock(c) /\ closed
  <2> USE PoolAssumption DEF PoolInv
  <2>0. /\ Return(c, NoSession) /\ target' = [target EXCEPT ![c] = NoSession]
        /\ UNCHANGED <<sessions, lost, status, closed, addr, ref, tr, closeVars, watch>>
    BY ZenonT(60), <1>3 DEF ConnectRelock
  <2>1. TypeOK' BY SMTT(60), <2>0 DEF Return, TypeOK, closeVars
  <2>2. Local BY ZenonT(60), <2>0 DEF Local, Created, poolVars, closeVars
  <2>3. PoolStages' BY <2>0 DEF Return, PoolStages, Created, TypeOK, closeVars
  <2> QED BY SMTT(60), <2>1, <2>2, <2>3, LocalKeeps
<1> QED BY SMTT(60), <1>1, <1>2, <1>3

\* Session.Close called by the session's user: the session was created, and
\* it may stay in the map.
LEMMA UserInv ==
  ASSUME PoolInv, NEW s \in Calls, SessionClose(s)
  PROVE  PoolInv'
<1> USE PoolAssumption DEF PoolInv
<1>1. Created(s)
  BY ZenonT(60) DEF SessionClose, PoolStages
<1>2. TypeOK' BY DEF SessionClose, TypeOK, poolVars, callVars
<1>3. ClosedStaysEmpty' BY ZenonT(60) DEF SessionClose, ClosedStaysEmpty, poolVars
<1>4. MapHoldsLive' BY DEF SessionClose, MapHoldsLive, poolVars, callVars
<1>5. Mapped' = Mapped BY SMTT(60) DEF SessionClose, Mapped, poolVars
<1>6. Ledger' BY SMTT(60), <1>1, <1>5 DEF SessionClose, Ledger, Created, poolVars
<1>7. PoolStages' BY DEF SessionClose, PoolStages, Created, callVars
<1> QED BY SMTT(60), <1>2, <1>3, <1>4, <1>6, <1>7

\* Client.Close dooms every registered session.
LEMMA CloseInv ==
  ASSUME PoolInv, ClientClose
  PROVE  PoolInv'
<1> USE PoolAssumption DEF PoolInv
<1>1. /\ closed' = TRUE
      /\ doomed' = doomed \cup Mapped
      /\ sessions' = [a \in Addrs |-> NoSession]
      /\ UNCHANGED <<lost, callVars, status, ref, tr, dropped, closing, held, watch>>
  BY SMTT(60) DEF ClientClose
<1>2. TypeOK' BY <1>1 DEF TypeOK, callVars, Mapped
<1>3. ClosedStaysEmpty' BY <1>1 DEF ClosedStaysEmpty
<1>4. MapHoldsLive' BY <1>1 DEF MapHoldsLive
<1>5. Mapped' = {} BY SMTT(60), <1>1 DEF Mapped
<1>6. Ledger' BY SMTT(60), <1>1, <1>5 DEF Ledger, Created
<1>7. PoolStages' BY <1>1 DEF PoolStages, Created, callVars
<1> QED BY <1>2, <1>3, <1>4, <1>6, <1>7

\* The empty pool satisfies the invariant.
LEMMA InitInv == PoolInit => PoolInv
<1> SUFFICES ASSUME PoolInit PROVE PoolInv
  OBVIOUS
<1> USE PoolAssumption
<1>1. TypeOK BY ZenonT(60) DEF PoolInit, TypeOK
<1>2. ClosedStaysEmpty /\ MapHoldsLive BY DEF PoolInit, ClosedStaysEmpty, MapHoldsLive
<1>3. Mapped = {} BY DEF PoolInit, Mapped
<1>4. Ledger BY <1>3 DEF PoolInit, Ledger, Created
<1>5. PoolStages BY ZenonT(60) DEF PoolInit, PoolStages, Created
<1> QED BY <1>1, <1>2, <1>4, <1>5 DEF PoolInv

\* Every step, a stuttering one included, keeps the invariant.
LEMMA NextInv == PoolInv /\ [PoolNext]_clientVars => PoolInv'
<1> SUFFICES ASSUME PoolInv, [PoolNext]_clientVars PROVE PoolInv'
  OBVIOUS
<1>1. ASSUME NEW c \in Calls, Healthy(c) PROVE PoolInv'
  BY <1>1, ConnectInv, SessionInv, RemoveInv, CreateInv DEF Healthy
<1>2. ASSUME NEW c \in Calls, DialFails(c) \/ HandshakeFails(c) \/ TransportDies(c)
      PROVE  PoolInv'
  BY <1>2, ConnectInv, SessionInv
<1>3. CASE UNCHANGED clientVars
  <2>1. TypeOK' BY SMTT(60), <1>3 DEF PoolInv, TypeOK, clientVars, poolVars, callVars, closeVars
  <2>2. Local BY ZenonT(60), <1>3 DEF Local, Created, clientVars, callVars, closeVars
  <2>3. PoolStages' BY <1>3 DEF PoolInv, PoolStages, Created, clientVars, callVars, closeVars
  <2> QED BY SMTT(60), <2>1, <2>2, <2>3, LocalKeeps DEF PoolInv
<1> QED BY SMTT(60), <1>1, <1>2, <1>3, UserInv, RemoveInv, CloseInv DEF PoolNext

\* The inductive invariant holds in every reachable state.
THEOREM Invariance == PoolSpec => []PoolInv
  BY InitInv, NextInv, PTL DEF PoolSpec

\* Every variable keeps its type; in particular no nil session is closed.
THEOREM TypeCorrect == PoolSpec => []TypeOK
<1>1. PoolInv => TypeOK BY DEF PoolInv
<1> QED BY <1>1, Invariance, PTL

\* ConnectProxy never stores a session in the nil map of a closed Client,
\* although it gives Client.mu up while it closes a stale session.
THEOREM NoStoreAfterClose == PoolSpec => []ClosedStaysEmpty
<1>1. PoolInv => ClosedStaysEmpty BY DEF PoolInv
<1> QED BY <1>1, Invariance, PTL

\* The map holds no session that the pool itself has removed.
THEOREM RemovedForGood == PoolSpec => []MapHoldsLive
<1>1. PoolInv => MapHoldsLive BY DEF PoolInv
<1> QED BY <1>1, Invariance, PTL

\* No connection is forgotten other than by the overwrite in ConnectProxy.
THEOREM NoOtherLeak == PoolSpec => []Accounted
<1>1. PoolInv => Accounted BY DEF PoolInv, Accounted, Ledger
<1> QED BY <1>1, Invariance, PTL
=============================================================================
