------------------------------- MODULE Duplex -------------------------------
(***************************************************************************)
(* Both directions of one connection (pkg/cocoon/transport.go).  The read  *)
(* loop answers a ping by writing a frame itself, behind the same writeMu  *)
(* as every query and the keepalive, and no write has a deadline: a peer   *)
(* that pings and does not read stops the read loop, with every answer     *)
(* behind it, until the connection is closed.                              *)
(***************************************************************************)
EXTENDS Naturals, SequencesExt

CONSTANTS Writers,      \* goroutines that call WriteFrame: queries, packets, keepalive
          Reader,       \* the goroutine of transport.Run
          Free,         \* a free mutex
          Window,       \* frames the buffers between the two sides hold
          MaxPings      \* bound: pings of the peer

VARIABLES
  pc,        \* per goroutine: "rest", "lock", "write", "done"
  pong,      \* id of the ping the read loop answers
  writeMu,   \* its holder
  out,       \* frames written and not read by the peer
  in,        \* frames of the peer and not read
  closed,    \* conn.Close was called
  peer,      \* external: what it has read, the pings sent, the queries answered, whether it is up
  answered   \* queries whose answer the read loop has dispatched

vars == <<pc, pong, writeMu, out, in, closed, peer, answered>>

Goroutines == Writers \cup {Reader}
Frame(kind, of) == [kind |-> kind, of |-> of]

Init ==
  /\ pc = [g \in Goroutines |-> "rest"]
  /\ pong = 0 /\ writeMu = Free
  /\ out = <<>> /\ in = <<>> /\ closed = FALSE
  /\ peer = [read |-> <<>>, pings |-> 0, replied |-> {}, up |-> TRUE]
  /\ answered = {}

----------------------------------------------------------------------------
(* WriteFrame.                                                             *)

\* Each writer has one frame to write.
Call(w) ==
  /\ pc[w] = "rest"
  /\ pc' = [pc EXCEPT ![w] = "lock"]
  /\ UNCHANGED <<pong, writeMu, out, in, closed, peer, answered>>

Lock(g) ==
  /\ pc[g] = "lock" /\ writeMu = Free
  /\ writeMu' = g
  /\ pc' = [pc EXCEPT ![g] = "write"]
  /\ UNCHANGED <<pong, out, in, closed, peer, answered>>

Item(g) == IF g = Reader THEN Frame("pong", pong) ELSE Frame("query", g)

\* Mutant: an error returns before the unlock.
Write_KeepsLock(g) ==
  /\ pc[g] = "write"
  /\ \/ ~closed /\ peer.up /\ Len(out) < Window /\ out' = Append(out, Item(g)) /\ writeMu' = Free
     \/ (closed \/ ~peer.up) /\ UNCHANGED <<out, writeMu>>
  /\ pc' = [pc EXCEPT ![g] = IF g = Reader THEN "rest" ELSE "done"]
  /\ UNCHANGED <<pong, in, closed, peer, answered>>

\* Mutant: the read loop returns with the result of its pong.
Write_Returns(g) ==
  /\ pc[g] = "write"
  /\ \/ ~closed /\ peer.up /\ Len(out) < Window /\ out' = Append(out, Item(g))
     \/ (closed \/ ~peer.up) /\ UNCHANGED out
  /\ writeMu' = Free
  /\ pc' = [pc EXCEPT ![g] = "done"]
  /\ UNCHANGED <<pong, in, closed, peer, answered>>

\* The write waits for room, or for the end of the connection, which fails it.
Write(g) ==
  /\ pc[g] = "write"
  /\ \/ ~closed /\ peer.up /\ Len(out) < Window /\ out' = Append(out, Item(g))
     \/ (closed \/ ~peer.up) /\ UNCHANGED out
  /\ writeMu' = Free
  /\ pc' = [pc EXCEPT ![g] = IF g = Reader THEN "rest" ELSE "done"]
  /\ UNCHANGED <<pong, in, closed, peer, answered>>

----------------------------------------------------------------------------
(* The read loop.                                                          *)

\* A frame that was received may still be read once the connection is closed.
dispatch ==
  /\ pc[Reader] = "rest" /\ in # <<>>
  /\ in' = Tail(in)
  /\ IF Head(in).kind = "ping"
     THEN pong' = Head(in).of /\ pc' = [pc EXCEPT ![Reader] = "lock"] /\ UNCHANGED answered
     ELSE answered' = answered \cup {Head(in).of} /\ UNCHANGED <<pong, pc>>
  /\ UNCHANGED <<writeMu, out, closed, peer>>

\* Run ends when the connection does, and closes it.
RunEnds ==
  /\ pc[Reader] = "rest"
  /\ closed \/ (~peer.up /\ in = <<>>)
  /\ closed' = TRUE
  /\ pc' = [pc EXCEPT ![Reader] = "done"]
  /\ UNCHANGED <<pong, writeMu, out, in, peer, answered>>

\* Close, of the session or of the client: closeWithErr takes no lock.
Close ==
  /\ ~closed
  /\ closed' = TRUE
  /\ UNCHANGED <<pc, pong, writeMu, out, in, peer, answered>>

----------------------------------------------------------------------------
(* External: the peer.                                                     *)

PeerReads ==
  /\ peer.up /\ out # <<>>
  /\ out' = Tail(out)
  /\ peer' = [peer EXCEPT !.read = Append(@, Head(out))]
  /\ UNCHANGED <<pc, pong, writeMu, in, closed, answered>>

PeerPings ==
  /\ peer.up /\ ~closed /\ peer.pings < MaxPings
  /\ in' = Append(in, Frame("ping", peer.pings + 1))
  /\ peer' = [peer EXCEPT !.pings = @ + 1]
  /\ UNCHANGED <<pc, pong, writeMu, out, closed, answered>>

PeerAnswers(w) ==
  /\ peer.up /\ ~closed /\ Frame("query", w) \in Range(peer.read) /\ w \notin peer.replied
  /\ in' = Append(in, Frame("answer", w))
  /\ peer' = [peer EXCEPT !.replied = @ \cup {w}]
  /\ UNCHANGED <<pc, pong, writeMu, out, closed, answered>>

PeerHangsUp ==
  /\ peer.up
  /\ peer' = [peer EXCEPT !.up = FALSE]
  /\ UNCHANGED <<pc, pong, writeMu, out, in, closed, answered>>

Run == dispatch \/ RunEnds

Next ==
  \/ \E w \in Writers : Call(w) \/ PeerAnswers(w)
  \/ \E g \in Goroutines : Lock(g) \/ Write(g)
  \/ Run \/ Close
  \/ PeerReads \/ PeerPings \/ PeerHangsUp

\* Goroutines go on, and writeMu starves nobody; the peer may do anything.
Fairness == WF_vars(Run) /\ \A g \in Goroutines : SF_vars(Lock(g)) /\ WF_vars(Write(g))

Spec == Init /\ [][Next]_vars /\ Fairness

----------------------------------------------------------------------------
(* Properties.                                                             *)

\* Close releases a read loop that is stuck in a pong, and all that wait for
\* writeMu behind it, although the peer reads nothing: every goroutine in
\* WriteFrame leaves it and Run returns.
CloseFreesAll ==
  closed ~> pc[Reader] = "done" /\ \A w \in Writers : pc[w] \notin {"lock", "write"}

\* On a connection that stays up a peer that goes on reading is served: it gets a
\* pong for each of its pings, and each answer it sent is dispatched, however many
\* pings it comes behind.
Served ==
  WF_vars(PeerReads) =>
    /\ \A k \in 1 .. MaxPings :
         peer.pings >= k ~> (closed \/ ~peer.up \/ \E f \in Range(peer.read) : f = Frame("pong", k))
    /\ \A w \in Writers :
         w \in peer.replied ~> (closed \/ ~peer.up \/ w \in answered)
=============================================================================
