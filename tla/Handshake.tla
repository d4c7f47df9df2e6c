----------------------------- MODULE Handshake -----------------------------
(***************************************************************************)
(* The bring-up of one session (pkg/cocoon/handshake.go, Session.connect)  *)
(* and the keepalive that follows (transport.go), with the proxy and the   *)
(* chain as environment.  Time passes in ticks of one keepalive interval,  *)
(* ten seconds; a timer that is due fires before the next tick.            *)
(*                                                                         *)
(* External: the proxy answers anything or nothing, and closes a           *)
(* connection on which it has received nothing for IdleLimit ticks.        *)
(***************************************************************************)
EXTENDS Naturals

CONSTANTS
  TCPTimeout, AppTimeout, AuthTimeout,   \* the handshake*Timeout constants
  IdleLimit,                             \* the proxy's timeout()
  Secret                                 \* whether secret_string is configured

VARIABLES
  pc,            \* the step of runHandshake, then "ready" or "failed"
  age,           \* ticks since that step began
  open,          \* whether the transport is open
  peer,          \* whether the proxy has its end open
  writable,      \* whether writes to the connection still succeed
  inited,        \* transport.inited
  offer,         \* what connectedToProxy said
  answer,        \* the answer to the query in flight, "none" before it
  onchain,       \* whether the register message was executed
  authorized,    \* whether the proxy has accepted the client
  keepalive,     \* the StartKeepalive goroutine: "off", "on" or "gone"
  due,           \* whether its ticker has fired
  pinged,        \* whether it has sent a ping
  idle           \* ticks since the proxy received a frame

hsVars == <<pc, age, offer, answer>>
proxyVars == <<idle, authorized>>
kaVars == <<keepalive, due, pinged>>
vars == <<hsVars, open, peer, writable, inited, onchain, proxyVars, kaVars>>

Offers == [flags : SUBSET {"is_test", "proto"}, isTest : BOOLEAN, proto : 0 .. 5,
           auth : {"ours", "other", "long"}]

NoOffer == [flags |-> {}, isTest |-> FALSE, proto |-> 0, auth |-> "long"]

Limit == [connected |-> TCPTimeout, params |-> AppTimeout, auth |-> AuthTimeout]

Init ==
  /\ pc = "connect" /\ age = 0
  /\ open = TRUE /\ peer = TRUE /\ writable = TRUE /\ inited = FALSE
  /\ offer = NoOffer /\ answer = "none"
  /\ onchain = FALSE /\ authorized = FALSE
  /\ keepalive = "off" /\ due = FALSE /\ pinged = FALSE
  /\ idle = 0

----------------------------------------------------------------------------
Go(step) == pc' = step /\ age' = 0

\* An error of runHandshake: Session.fail and the transport's Close.
Fail == Go("failed") /\ open' = FALSE

\* One frame to the proxy and on to the step that waits, or a write error.
Send(step) ==
  \/ /\ open /\ writable
     /\ Go(step) /\ idle' = 0
     /\ UNCHANGED open
  \/ /\ ~(open /\ writable)
     /\ Fail
     /\ UNCHANGED idle

SendConnect ==
  /\ pc = "connect" /\ Send("connected")
  /\ UNCHANGED <<peer, writable, inited, offer, answer, onchain, authorized, kaVars>>

\* Polls every 20 ms: initialised, then connectToProxy is sent; closed, or
\* over its deadline.
waitForInited ==
  /\ pc = "connected"
  /\ \/ inited /\ Send("params")
     \/ ~open /\ Fail /\ UNCHANGED idle
     \/ ~inited /\ age >= TCPTimeout /\ Fail /\ UNCHANGED idle
  /\ UNCHANGED <<peer, writable, inited, offer, answer, onchain, authorized, kaVars>>

\* awaitQuery without an answer: connection closed, query failed or late.
awaitQueryFails ==
  /\ pc \in {"params", "auth"}
  /\ ~open \/ answer = "error" \/ age >= Limit[pc]
  /\ Fail
  /\ UNCHANGED <<peer, writable, inited, offer, answer, onchain, proxyVars, kaVars>>

\* The caller's context ends a wait.
ContextDone ==
  /\ pc \in {"connected", "params", "auth"}
  /\ Fail
  /\ UNCHANGED <<peer, writable, inited, offer, answer, onchain, proxyVars, kaVars>>

validateConnectedToProxy(o) ==
  /\ o.flags # {}
  /\ "is_test" \in o.flags => ~o.isTest
  /\ "proto" \in o.flags => o.proto \in 1 .. 4

\* decodeConnectedToProxy leaves this false for either kind of offer.
AuthSecretHashOK(o) == FALSE

\* The connectedToProxy answer: validation, then the choice of the path.
PickAuth ==
  /\ pc = "params" /\ open /\ answer = "ok"
  /\ answer' = "none"
  /\ IF validateConnectedToProxy(offer)
     THEN /\ Go(IF AuthSecretHashOK(offer) /\ Secret THEN "short" ELSE "register")
          /\ UNCHANGED open
     ELSE Fail
  /\ UNCHANGED <<peer, writable, inited, offer, onchain, proxyVars, kaVars>>

\* Mutant: an error of the registration does not end the handshake.
RegisterOnChain_Ignores ==
  /\ pc = "register"
  /\ onchain' \in {onchain, TRUE}
  /\ Go("long") /\ UNCHANGED open
  /\ UNCHANGED <<peer, writable, inited, offer, answer, proxyVars, kaVars>>

\* registerOnChain returns; on an error the message may be executed anyway.
\* It does not look at the connection.
RegisterOnChain ==
  /\ pc = "register"
  /\ \/ onchain' = TRUE /\ Go("long") /\ UNCHANGED open
     \/ onchain' \in {onchain, TRUE} /\ Fail
  /\ UNCHANGED <<peer, writable, inited, offer, answer, proxyVars, kaVars>>

sendAuthorize ==
  /\ pc \in {"short", "long"} /\ Send("auth")
  /\ UNCHANGED <<peer, writable, inited, offer, answer, onchain, authorized, kaVars>>

\* The authorization's outcome; a session that is Ready starts its keepalive.
Authorized ==
  /\ pc = "auth" /\ open
  /\ \/ answer = "ok" /\ Go("ready") /\ keepalive' = "on" /\ UNCHANGED open
     \/ answer = "refused" /\ Fail /\ UNCHANGED keepalive
  /\ UNCHANGED <<peer, writable, inited, offer, answer, onchain, proxyVars, due, pinged>>

----------------------------------------------------------------------------
\* Mutant: the goroutine ends with its first ping.
Ping_Once ==
  /\ keepalive = "on" /\ open /\ due
  /\ due' = FALSE /\ keepalive' = "gone" /\ pinged' = TRUE
  /\ idle' = IF writable /\ inited THEN 0 ELSE idle
  /\ UNCHANGED <<hsVars, open, peer, writable, inited, onchain, authorized>>

\* The ticker fired: one ping, unless the connection is not initialised; a
\* write error ends the goroutine and nothing else.
Ping ==
  /\ keepalive = "on" /\ open /\ due
  /\ due' = FALSE
  /\ pinged' = (pinged \/ (inited /\ writable /\ peer))
  /\ keepalive' = IF inited /\ ~writable THEN "gone" ELSE "on"
  /\ idle' = IF inited /\ writable /\ peer THEN 0 ELSE idle
  /\ UNCHANGED <<hsVars, open, peer, writable, inited, onchain, authorized>>

\* The goroutine sees the transport closed.
KeepaliveEnds ==
  /\ keepalive = "on" /\ ~open
  /\ keepalive' = "gone"
  /\ UNCHANGED <<hsVars, open, peer, writable, inited, onchain, proxyVars, due, pinged>>

\* dispatch of tcp.connected, whose id is not compared.
DispatchConnected ==
  /\ open /\ peer /\ ~inited /\ pc # "connect"
  /\ inited' = TRUE
  /\ UNCHANGED <<hsVars, open, peer, writable, onchain, proxyVars, kaVars>>

\* Mutant: the read loop ends without closing the transport.
ReadFails_Ends ==
  /\ open /\ ~peer
  /\ UNCHANGED vars

\* transport.Run: ReadFrame fails, and so the transport is closed.
ReadFails ==
  /\ open /\ ~peer
  /\ open' = FALSE
  /\ UNCHANGED <<hsVars, peer, writable, inited, onchain, proxyVars, kaVars>>

\* Session.Close, at any time.
Close ==
  /\ open
  /\ open' = FALSE
  /\ UNCHANGED <<hsVars, peer, writable, inited, onchain, proxyVars, kaVars>>

----------------------------------------------------------------------------
\* External: the proxy's answers.
ProxyAnswers ==
  /\ open /\ peer /\ pc \in {"params", "auth"} /\ answer = "none"
  /\ \/ pc = "params" /\ offer' \in Offers /\ answer' = "ok" /\ UNCHANGED authorized
     \/ pc = "auth" /\ answer' = "ok" /\ authorized' = TRUE /\ UNCHANGED offer
     \/ pc = "auth" /\ answer' = "refused" /\ UNCHANGED <<authorized, offer>>
     \/ answer' = "error" /\ UNCHANGED <<authorized, offer>>
  /\ UNCHANGED <<pc, age, open, peer, writable, inited, onchain, idle, kaVars>>

\* External: the path to the proxy breaks without a word.
Break ==
  /\ writable
  /\ writable' = FALSE
  /\ UNCHANGED <<hsVars, open, peer, inited, onchain, proxyVars, kaVars>>

\* External: the proxy's idle timer closes the connection.
IdleDrop ==
  /\ peer /\ idle >= IdleLimit
  /\ peer' = FALSE
  /\ UNCHANGED <<hsVars, open, writable, inited, onchain, proxyVars, kaVars>>

\* Ten seconds pass; what is due by then has been done.
Tick ==
  /\ open /\ ~due /\ peer /\ idle < IdleLimit
  /\ pc \in DOMAIN Limit => age < Limit[pc]
  /\ age' = IF pc \in DOMAIN Limit THEN age + 1 ELSE age
  /\ idle' = idle + 1
  /\ due' = (keepalive = "on")
  /\ UNCHANGED <<pc, offer, answer, open, peer, writable, inited, onchain,
                 authorized, keepalive, pinged>>

Handle ==
  \/ SendConnect \/ waitForInited \/ awaitQueryFails \/ PickAuth
  \/ RegisterOnChain \/ sendAuthorize \/ Authorized
  \/ Ping \/ KeepaliveEnds \/ ReadFails

Next ==
  \/ Handle \/ ContextDone \/ DispatchConnected \/ Close
  \/ ProxyAnswers \/ Break \/ IdleDrop \/ Tick

\* The client's goroutines run, the clock ticks, and the proxy's idle timer
\* is kept (transport.go:184-187).  Nothing else of the proxy is assumed.
Spec == Init /\ [][Next]_vars /\ WF_vars(Handle) /\ WF_vars(Tick) /\ WF_vars(IdleDrop)

----------------------------------------------------------------------------
\* From its first ping on, a session whose writes succeed never reaches the
\* proxy's idle limit (StartKeepalive).  Before that ping it may: nothing is
\* sent while registerOnChain and the authorization run.
KeptAlive == open /\ writable /\ pinged => peer /\ idle < IdleLimit

\* Every handshake ends, Ready or failed, whatever the proxy does.
HandshakeEnds == <>(pc \in {"ready", "failed"})

\* A Ready session whose writes fail is closed in the end, although the
\* keepalive only stops: the proxy's idle timer does it.
BrokenIsClosed == (pc = "ready" /\ ~writable) ~> ~open

\* A session that is Ready was accepted by the proxy, which serves the main
\* network and speaks a protocol version the client supports, or states none; and
\* the authorization was asked for only once the register message had been
\* executed: "we need to send a register message on chain BEFORE the TL authorize
\* call".
ReadyMeansAccepted ==
  /\ pc \in {"auth", "ready"} => onchain
  /\ pc = "ready" =>
       /\ authorized
       /\ "is_test" \in offer.flags => ~offer.isTest
       /\ "proto" \in offer.flags => offer.proto \in 1 .. 4
=============================================================================
