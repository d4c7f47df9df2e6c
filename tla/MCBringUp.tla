----------------------------- MODULE MCBringUp -----------------------------
(***************************************************************************)
(* The two halves of Session.connect: DialProxy (Router) and, on the       *)
(* connection it returned, runHandshake and the keepalive (Handshake).     *)
(* The second takes nothing from the first but an open connection, so they *)
(* are run one at a time: half says which, and the other stays as it       *)
(* begins.                                                                 *)
(*                                                                         *)
(* Difficulties have three bits, negative ones and ones above the cap of   *)
(* two included, with every outcome of three hashes.  Timeouts are those   *)
(* of the code in ticks of ten seconds.                                    *)
(***************************************************************************)
EXTENDS Router

CONSTANTS TCPTimeout, AppTimeout, AuthTimeout, IdleLimit, Secret

VARIABLES
  half,
  step, age, open, proxy, writable, inited, offer, answer, onchain, authorized,
  keepalive, due, pinged, idle

\* The proxy's idle limit is longer than one interval of the keepalive: 60 s and
\* 10 s (transport.go:184).
ASSUME IdleAssumption == IdleLimit \in Nat /\ IdleLimit > 1

H == INSTANCE Handshake WITH pc <- step, peer <- proxy

shakeVars == <<step, age, open, proxy, writable, inited, offer, answer, onchain, authorized,
               keepalive, due, pinged, idle>>

----------------------------------------------------------------------------
MCInit ==
  /\ half \in {"dial", "handshake"}
  /\ Init /\ H!Init
  /\ half = "handshake" => skip /\ zeros = [n \in 0 .. MaxNonce |-> 0]

DialHalf == half = "dial" /\ Next /\ UNCHANGED <<half, shakeVars>>

Shake == half = "handshake" /\ H!Next /\ UNCHANGED <<half, vars>>

MCNext == DialHalf \/ Shake

\* The fairness of Router and of Handshake, for the half that runs.
MCSpec ==
  /\ MCInit /\ [][MCNext]_<<half, vars, shakeVars>>
  /\ WF_vars(half = "dial" /\ DialProxy)
  /\ WF_shakeVars(half = "handshake" /\ H!Handle)
  /\ WF_shakeVars(half = "handshake" /\ H!Tick)
  /\ WF_shakeVars(half = "handshake" /\ H!IdleDrop)

----------------------------------------------------------------------------
(* The properties of Handshake and of both; NoLeak is in Router.           *)

\* A Ready session was accepted by a proxy of the main network that speaks a
\* supported protocol version, and runHandshake authorizes only after the
\* register message was executed.
ReadyMeansAccepted == H!ReadyMeansAccepted

\* From its first ping on, a session that can write never reaches the proxy's
\* idle limit (StartKeepalive).
KeptAlive == H!KeptAlive

\* Session.connect is never held for ever: DialProxy returns, whatever the peer
\* does and also when nobody cancels it, and runHandshake ends, Ready or failed.
BringUpEnds ==
  /\ half = "dial" => DialReturns
  /\ half = "handshake" => H!HandshakeEnds

\* A Ready session whose writes fail is closed in the end, although the keepalive
\* only stops.
BrokenIsClosed == H!BrokenIsClosed
=============================================================================
