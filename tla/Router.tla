------------------------------- MODULE Router -------------------------------
(***************************************************************************)
(* DefaultDialer.DialProxy (pkg/router): TCP, the proof of work, the       *)
(* client certificate and TLS, each of which may fail, against a peer that *)
(* may send anything, stop or hang up; the caller may cancel.              *)
(***************************************************************************)
EXTENDS Integers, Sequences, FiniteSetsExt

CONSTANTS Width,          \* bits of a difficulty on the wire (32)
          MaxDifficulty,  \* the cap
          MaxNonce,       \* nonces are 0 .. MaxNonce (int64), then negative
          Bits            \* leading zero bits a hash may have: 0 .. Bits

ASSUME RouterAssumption ==
  /\ {Width, MaxDifficulty, MaxNonce, Bits} \subseteq Nat
  /\ 0 < Width /\ 0 < MaxDifficulty /\ MaxDifficulty < 2 ^ (Width - 1)

VARIABLES
  pc,        \* "tcp", "deadline", "read", "search", "respond", "cert", "tls", "clear", "done"
  result,    \* what DialProxy returned: "none", "conn", "error"
  conn,      \* "none", "open", "closed"
  deadline,  \* the connection has one
  challenge, \* what was read
  nonce,     \* the nonce being tried
  ctx,       \* "live", "over": the caller's context
  skip,      \* SkipPoW
  zeros,     \* external: the leading zero bits of the hash, per nonce
  peer       \* external: what the peer has sent, how it goes on, what it got

vars == <<pc, result, conn, deadline, challenge, nonce, ctx, skip, zeros, peer>>
world == <<ctx, skip, zeros, peer>>

Raw == 0 .. 2 ^ Width - 1
NoChallenge == [magic |-> FALSE, raw |-> 0]
None == -1

\* int32(binary.LittleEndian.Uint32(..))
Signed(raw) == IF raw < 2 ^ (Width - 1) THEN raw ELSE raw - 2 ^ Width

Init ==
  /\ pc = "tcp" /\ result = "none" /\ conn = "none" /\ deadline = FALSE
  /\ challenge = NoChallenge /\ nonce = 0
  /\ ctx = "live" /\ skip \in BOOLEAN
  /\ zeros \in [0 .. MaxNonce -> 0 .. Bits]
  /\ peer = [sent |-> <<>>, up |-> TRUE, got |-> None]

----------------------------------------------------------------------------
Fails == pc' = "done" /\ result' = "error"

\* Mutant: the error of the proof of work is returned with the connection open.
Abandon_Open == Fails /\ conn' = IF pc = "search" THEN conn ELSE "closed"

Abandon == Fails /\ conn' = "closed"

Goes(where) == pc' = where /\ UNCHANGED <<result, conn>>

\* An operation of the connection that cannot go on fails once the peer has
\* hung up, the deadline passes, or, in the TLS handshake, the context ends.
Breaks == ~peer.up \/ deadline

DialContext ==
  /\ pc = "tcp"
  /\ \/ Fails /\ UNCHANGED conn
     \/ ctx = "live" /\ conn' = "open" /\ pc' = "deadline" /\ UNCHANGED result
  /\ UNCHANGED <<deadline, challenge, nonce, world>>

\* Mutant: the deadline is set on the TLS connection only.
SetDeadline_Late ==
  /\ pc = "deadline"
  /\ Goes(IF skip THEN "cert" ELSE "read")
  /\ UNCHANGED <<deadline, challenge, nonce, world>>

SetDeadline ==
  /\ pc = "deadline"
  /\ \/ Abandon /\ UNCHANGED deadline
     \/ Goes(IF skip THEN "cert" ELSE "read") /\ deadline' = TRUE
  /\ UNCHANGED <<challenge, nonce, world>>

\* io.ReadFull of the challenge.  The peer is what hung up or let the time pass.
ReadChallenge ==
  /\ pc = "read"
  /\ \/ Breaks /\ Abandon /\ UNCHANGED <<challenge, peer>>
     \/ /\ peer.sent # <<>>
        /\ challenge' = Head(peer.sent)
        /\ peer' = [peer EXCEPT !.sent = Tail(@)]
        /\ Goes("search")
  /\ UNCHANGED <<deadline, nonce, ctx, skip, zeros>>

Acceptable(c) == c.magic /\ Signed(c.raw) >= 0 /\ Signed(c.raw) <= MaxDifficulty

VerifyPoWResponse(difficulty, n) == zeros[n] >= difficulty

Solves(difficulty, n) == difficulty = 0 \/ zeros[n] >= difficulty

\* One round of findNonce; nothing interrupts the search.
FindNonce ==
  /\ pc = "search"
  /\ IF ~Acceptable(challenge) \/ nonce > MaxNonce
     THEN Abandon /\ UNCHANGED nonce
     ELSE IF Solves(Signed(challenge.raw), nonce)
     THEN Goes("respond") /\ UNCHANGED nonce
     ELSE nonce' = nonce + 1 /\ Goes("search")
  /\ UNCHANGED <<deadline, challenge, world>>

WriteResponse ==
  /\ pc = "respond"
  /\ \/ Breaks /\ Abandon /\ UNCHANGED peer
     \/ Goes("cert") /\ peer' = [peer EXCEPT !.got = nonce]
  /\ UNCHANGED <<deadline, challenge, nonce, ctx, skip, zeros>>

GenerateRATLSClientCert ==
  /\ pc = "cert"
  /\ Abandon \/ (conn = "open" /\ Goes("tls"))
  /\ deadline' = (deadline \/ pc' = "tls")
  /\ UNCHANGED <<challenge, nonce, world>>

\* The peer takes part in the handshake when it got the work it asked for.
Satisfied == skip \/ (peer.got # None /\ VerifyPoWResponse(Signed(challenge.raw), peer.got))

HandshakeContext ==
  /\ pc = "tls"
  /\ \/ (Breaks \/ ctx = "over") /\ Abandon
     \/ peer.up /\ Satisfied /\ Goes("clear")
  /\ UNCHANGED <<deadline, challenge, nonce, world>>

ClearDeadline ==
  /\ pc = "clear"
  /\ pc' = "done" /\ result' = "conn" /\ deadline' = FALSE
  /\ UNCHANGED <<conn, challenge, nonce, world>>

DialProxy ==
  \/ DialContext \/ SetDeadline \/ ReadChallenge \/ FindNonce \/ WriteResponse
  \/ GenerateRATLSClientCert \/ HandshakeContext \/ ClearDeadline

----------------------------------------------------------------------------
(* External: the peer and the caller.                                      *)

PeerSends ==
  /\ conn = "open" /\ peer.up /\ peer.sent = <<>> /\ challenge = NoChallenge
  /\ \E m \in BOOLEAN, r \in Raw : peer' = [peer EXCEPT !.sent = <<[magic |-> m, raw |-> r]>>]
  /\ UNCHANGED <<pc, result, conn, deadline, challenge, nonce, ctx, skip, zeros>>

PeerHangsUp ==
  /\ conn = "open" /\ peer.up
  /\ peer' = [peer EXCEPT !.up = FALSE]
  /\ UNCHANGED <<pc, result, conn, deadline, challenge, nonce, ctx, skip, zeros>>

Cancel ==
  /\ ctx = "live" /\ pc # "done"
  /\ ctx' = "over"
  /\ UNCHANGED <<pc, result, conn, deadline, challenge, nonce, skip, zeros, peer>>

Next == DialProxy \/ PeerSends \/ PeerHangsUp \/ Cancel

\* The dialing goroutine runs, and a deadline that is set passes.
Spec == Init /\ [][Next]_vars /\ WF_vars(DialProxy)

----------------------------------------------------------------------------
(* Properties.                                                             *)

\* DialProxy never returns an error and leaves the connection open, whichever
\* stage failed.
NoLeak == result = "error" => conn # "open"

\* A connection that is returned has passed every stage: it is open, it carries
\* no deadline into the session, and the peer was sent a nonce that its own
\* check accepts.
ReturnedReady == result = "conn" => conn = "open" /\ ~deadline /\ Satisfied

\* The nonce that is sent is the first that the peer accepts, for a difficulty
\* within the cap.
AnswerIsLeast ==
  peer.got # None =>
    LET d == Signed(challenge.raw) IN
      d \in 0 .. MaxDifficulty /\ peer.got = Min({n \in 0 .. MaxNonce : VerifyPoWResponse(d, n)})

\* A dial returns, whatever the peer does and also when nobody cancels it.
DialReturns == <>(pc = "done")
=============================================================================
