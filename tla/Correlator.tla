----------------------------- MODULE Correlator -----------------------------
(***************************************************************************)
(* One connection to a proxy and the queries multiplexed over it: the      *)
(* correlator (pkg/cocoon/correlator.go), SendQuery, the read loop and the *)
(* shutdown of the transport (transport.go), and the two ways a caller     *)
(* waits for its answer, awaitQuery (handshake.go) and WorkerTypes         *)
(* (models.go).                                                            *)
(*                                                                         *)
(* Goroutines: one per call, the read loop, the GC ticker, and whoever     *)
(* closes the transport first.  A critical section of correlator.mu is one *)
(* step; a channel send made after the unlock is another.                  *)
(***************************************************************************)
EXTENDS Naturals, FiniteSets

CONSTANTS
  Calls,        \* invocations of SendQuery; the payload of an answer is the
                \* call whose frame the proxy answered
  BareCalls,    \* the calls that wait as WorkerTypes does: no timer, no
                \* Closed() case
  Ids,          \* query ids
  NoCall, NoId, \* a nil map entry, an id not chosen yet
  Reader        \* the goroutine of transport.Run

ASSUME CallsAssumption ==
  /\ BareCalls \subseteq Calls
  /\ NoCall \notin Calls
  /\ NoId \notin Ids
  /\ Reader \notin Calls

VARIABLES
  pc,           \* where each call is
  qid,          \* the id a call registered under
  pending,      \* correlator.pending: id -> call
  corrClosed,   \* correlator.closed
  hand,         \* per goroutine: the entry it deleted from the map and has
                \* not yet sent to
  frame,        \* the frame the reader is dispatching
  drain,        \* the entries failAll took and has not yet sent to
  answerCh,     \* pendingQuery.answer (capacity 1)
  errCh,        \* pendingQuery.err (capacity 1)
  expired,      \* calls whose deadline has passed
  wire,         \* calls whose query frame the proxy may have received
  tr,           \* transport: "open", "closing", "draining" or "closed"
  outcome,      \* how each call returned
  got           \* the payload each call returned

vars == <<pc, qid, pending, corrClosed, hand, frame, drain, answerCh, errCh,
          expired, wire, tr, outcome, got>>

callVars == <<pc, qid, outcome, got>>
chanVars == <<answerCh, errCh>>
closeVars == <<corrClosed, drain, tr>>

Workers == Calls \cup {Reader}
ErrKinds == {"proxy", "timeout", "closed", "write"}
NoFrame == [kind |-> "none", payload |-> NoCall]
Frames == [kind : {"answer", "error"}, payload : Calls]

Init ==
  /\ pc = [c \in Calls |-> "idle"]
  /\ qid = [c \in Calls |-> NoId]
  /\ pending = [i \in Ids |-> NoCall]
  /\ corrClosed = FALSE
  /\ hand = [w \in Workers |-> NoCall]
  /\ frame = NoFrame
  /\ drain = {}
  /\ answerCh = [c \in Calls |-> NoCall]
  /\ errCh = [c \in Calls |-> "none"]
  /\ expired = {}
  /\ wire = {}
  /\ tr = "open"
  /\ outcome = [c \in Calls |-> "none"]
  /\ got = [c \in Calls |-> NoCall]

----------------------------------------------------------------------------
(* The channels of a pendingQuery: a send to a full channel is dropped.    *)

SendAnswer(c, payload) ==
  answerCh' = IF answerCh[c] = NoCall
              THEN [answerCh EXCEPT ![c] = payload] ELSE answerCh

SendErr(S, kind) ==
  errCh' = [c \in Calls |-> IF c \in S /\ errCh[c] = "none"
                            THEN kind ELSE errCh[c]]

\* Mutant: the entry is used but left in the map.
Take_Keeps(w, id) ==
  /\ UNCHANGED pending
  /\ hand' = [hand EXCEPT ![w] = pending[id]]

\* The critical section of deliver and fail: look the id up and delete it.
Take(w, id) ==
  /\ pending' = [pending EXCEPT ![id] = NoCall]
  /\ hand' = [hand EXCEPT ![w] = pending[id]]

Return(c, how) ==
  /\ pc' = [pc EXCEPT ![c] = "done"]
  /\ outcome' = [outcome EXCEPT ![c] = how]

----------------------------------------------------------------------------
(* SendQuery.                                                              *)

\* newQueryID draws 64 random bits.  A draw may collide with a query that is
\* still in flight, which register detects; a draw that repeats the id of a
\* query already retired is not detectable and not modelled.
newQueryID(id) == \A d \in Calls : qid[d] = id => pending[id] = d

\* Mutant: no check for a duplicate id.
Refused_NoDuplicateCheck(id) == corrClosed

\* correlator.register refuses when closed and on a duplicate id.
Refused(id) == corrClosed \/ pending[id] # NoCall

register(c, id) ==
  /\ ~Refused(id)
  /\ pending' = [pending EXCEPT ![id] = c]
  /\ qid' = [qid EXCEPT ![c] = id]
  /\ pc' = [pc EXCEPT ![c] = "writing"]

SendQuery(c) ==
  /\ pc[c] = "idle"
  /\ \E id \in Ids :
       /\ newQueryID(id)
       /\ register(c, id)
  /\ UNCHANGED <<hand, frame, chanVars, expired, wire, closeVars, outcome, got>>

SendQueryRefused(c) ==
  /\ pc[c] = "idle"
  /\ \E id \in Ids : newQueryID(id) /\ Refused(id)
  /\ Return(c, "refused")
  /\ UNCHANGED <<qid, pending, hand, frame, chanVars, expired, wire, closeVars, got>>

WriteFrame(c) ==
  /\ pc[c] = "writing" /\ tr = "open"
  /\ wire' = wire \cup {c}
  /\ pc' = [pc EXCEPT ![c] = "waiting"]
  /\ UNCHANGED <<qid, pending, hand, frame, chanVars, expired, closeVars, outcome, got>>

\* The write fails, before or after the frame got out, and corr.fail takes
\* the entry if nobody else has.
WriteFrameFails(c) ==
  /\ pc[c] = "writing"
  /\ Take(c, qid[c])
  /\ wire' \in {wire, wire \cup {c}}
  /\ pc' = [pc EXCEPT ![c] = IF pending[qid[c]] = NoCall
                             THEN "returning" ELSE "failing"]
  /\ UNCHANGED <<qid, frame, chanVars, expired, closeVars, outcome, got>>

FailOwn(c) ==
  /\ pc[c] = "failing"
  /\ SendErr({hand[c]}, "write")
  /\ hand' = [hand EXCEPT ![c] = NoCall]
  /\ pc' = [pc EXCEPT ![c] = "returning"]
  /\ UNCHANGED <<qid, pending, frame, answerCh, expired, wire, closeVars, outcome, got>>

SendQueryFails(c) ==
  /\ pc[c] = "returning"
  /\ Return(c, "not sent")
  /\ UNCHANGED <<qid, pending, hand, frame, chanVars, expired, wire, closeVars, got>>

----------------------------------------------------------------------------
(* The select of awaitQuery and of WorkerTypes: any ready case may win.    *)

AwaitAnswer(c) ==
  /\ pc[c] = "waiting" /\ answerCh[c] # NoCall
  /\ Return(c, "answer")
  /\ got' = [got EXCEPT ![c] = answerCh[c]]
  /\ answerCh' = [answerCh EXCEPT ![c] = NoCall]
  /\ UNCHANGED <<qid, pending, hand, frame, errCh, expired, wire, closeVars>>

AwaitErr(c) ==
  /\ pc[c] = "waiting" /\ errCh[c] # "none"
  /\ Return(c, errCh[c])
  /\ errCh' = [errCh EXCEPT ![c] = "none"]
  /\ UNCHANGED <<qid, pending, hand, frame, answerCh, expired, wire, closeVars, got>>

\* The other cases leave the entry behind: ctx.Done() for every call, and
\* for awaitQuery also tr.Closed() and the timer.
GiveUp(c) ==
  /\ pc[c] = "waiting"
  /\ \/ Return(c, "ctx")
     \/ c \notin BareCalls /\ tr = "closed" /\ Return(c, "connection failed")
     \/ c \notin BareCalls /\ c \in expired /\ Return(c, "gave up")
  /\ UNCHANGED <<qid, pending, hand, frame, chanVars, expired, wire, closeVars, got>>

----------------------------------------------------------------------------
(* The read loop, the GC ticker and the clock.                             *)

\* dispatch of tcp.queryAnswer or tcp.queryError, up to the unlock in deliver
\* or fail.  The proxy answers late, twice or never: any frame it may have
\* received can be answered.  What the reader has buffered is dispatched even
\* after conn.Close().
ReadFrame(c, kind) ==
  /\ tr # "closed" /\ hand[Reader] = NoCall
  /\ c \in wire /\ pending[qid[c]] # NoCall
  /\ Take(Reader, qid[c])
  /\ frame' = [kind |-> kind, payload |-> c]
  /\ UNCHANGED <<callVars, chanVars, expired, wire, closeVars>>

Deliver ==
  /\ hand[Reader] # NoCall
  /\ IF frame.kind = "answer"
     THEN SendAnswer(hand[Reader], frame.payload) /\ UNCHANGED errCh
     ELSE SendErr({hand[Reader]}, "proxy") /\ UNCHANGED answerCh
  /\ hand' = [hand EXCEPT ![Reader] = NoCall]
  /\ frame' = NoFrame
  /\ UNCHANGED <<callVars, pending, expired, wire, closeVars>>

Expire(c) ==
  /\ qid[c] # NoId /\ c \notin expired
  /\ expired' = expired \cup {c}
  /\ UNCHANGED <<callVars, pending, hand, frame, chanVars, wire, closeVars>>

InMap(c) == qid[c] \in Ids /\ pending[qid[c]] = c

\* Mutant: expired entries are dropped, their callers are not told.
gcExpired_Silent ==
  LET dead == {c \in expired : InMap(c)} IN
  /\ ~corrClosed /\ dead # {}
  /\ pending' = [i \in Ids |-> IF pending[i] \in dead THEN NoCall ELSE pending[i]]
  /\ UNCHANGED <<callVars, hand, frame, chanVars, expired, wire, closeVars>>

\* Mutant: callers are told, the entries stay and can be answered later.
gcExpired_Keeps ==
  LET dead == {c \in expired : InMap(c)} IN
  /\ ~corrClosed /\ dead # {}
  /\ SendErr(dead, "timeout")
  /\ UNCHANGED <<callVars, pending, hand, frame, answerCh, expired, wire, closeVars>>

gcExpired ==
  LET dead == {c \in expired : InMap(c)} IN
  /\ ~corrClosed /\ dead # {}
  /\ pending' = [i \in Ids |-> IF pending[i] \in dead THEN NoCall ELSE pending[i]]
  /\ SendErr(dead, "timeout")
  /\ UNCHANGED <<callVars, hand, frame, answerCh, expired, wire, closeVars>>

----------------------------------------------------------------------------
(* closeWithErr, run once by the first goroutine to get there: the reader  *)
(* on a read error, Session.Close, or a failed handshake.                  *)

CloseConn ==
  /\ tr = "open"
  /\ tr' = "closing"
  /\ UNCHANGED <<callVars, pending, hand, frame, chanVars, expired, wire, corrClosed, drain>>

failAll ==
  /\ tr = "closing"
  /\ tr' = "draining"
  /\ corrClosed' = TRUE
  /\ drain' = {c \in Calls : InMap(c)}
  /\ pending' = [i \in Ids |-> NoCall]
  /\ UNCHANGED <<callVars, hand, frame, chanVars, expired, wire>>

FailNext(c) ==
  /\ tr = "draining" /\ c \in drain
  /\ SendErr({c}, "closed")
  /\ drain' = drain \ {c}
  /\ UNCHANGED <<callVars, pending, hand, frame, answerCh, expired, wire, corrClosed, tr>>

CloseDone ==
  /\ tr = "draining" /\ drain = {}
  /\ tr' = "closed"
  /\ UNCHANGED <<callVars, pending, hand, frame, chanVars, expired, wire, corrClosed, drain>>

----------------------------------------------------------------------------
Next ==
  \/ \E c \in Calls :
       \/ SendQuery(c) \/ SendQueryRefused(c)
       \/ WriteFrame(c) \/ WriteFrameFails(c) \/ FailOwn(c) \/ SendQueryFails(c)
       \/ AwaitAnswer(c) \/ AwaitErr(c) \/ GiveUp(c)
       \/ Expire(c) \/ FailNext(c)
       \/ ReadFrame(c, "answer") \/ ReadFrame(c, "error")
  \/ Deliver \/ gcExpired \/ CloseConn \/ failAll \/ CloseDone

Spec == Init /\ [][Next]_vars

\* Time passes, the GC ticks, goroutines that hold work finish it, and a
\* select with a ready case is taken.  Nothing makes the proxy answer, the
\* network fail, a context end, or a write to a stalled peer return; only a
\* write on a closed connection is bound to come back.
Fairness ==
  /\ \A c \in Calls :
       /\ WF_vars(Expire(c))
       /\ WF_vars(AwaitAnswer(c) \/ AwaitErr(c) \/ (c \notin BareCalls /\ c \in expired /\ GiveUp(c)))
       /\ WF_vars(tr # "open" /\ WriteFrameFails(c))
       /\ WF_vars(FailOwn(c))
       /\ WF_vars(SendQueryFails(c))
       /\ WF_vars(FailNext(c))
  /\ WF_vars(Deliver)
  /\ WF_vars(gcExpired)
  /\ WF_vars(failAll)
  /\ WF_vars(CloseDone)

FairSpec == Spec /\ Fairness
----------------------------------------------------------------------------
(* Properties.                                                             *)

\* The type of every variable.
TypeOK ==
  /\ pc \in [Calls -> {"idle", "writing", "failing", "returning", "waiting", "done"}]
  /\ qid \in [Calls -> Ids \cup {NoId}]
  /\ pending \in [Ids -> Calls \cup {NoCall}]
  /\ corrClosed \in BOOLEAN
  /\ hand \in [Workers -> Calls \cup {NoCall}]
  /\ frame \in Frames \cup {NoFrame}
  /\ drain \in SUBSET Calls
  /\ answerCh \in [Calls -> Calls \cup {NoCall}]
  /\ errCh \in [Calls -> ErrKinds \cup {"none"}]
  /\ expired \in SUBSET Calls
  /\ wire \in SUBSET Calls
  /\ tr \in {"open", "closing", "draining", "closed"}
  /\ outcome \in [Calls -> ErrKinds \cup {"none", "answer", "refused", "not sent",
                                   "ctx", "connection failed", "gave up"}]
  /\ got \in [Calls -> Calls \cup {NoCall}]

\* Where the resolution of a registered call can be: still in the map, with
\* a goroutine that deleted it, with failAll, or in the caller's channels
\* (possibly received already).
InHand(c) == \E w \in Workers : hand[w] = c
Answered(c) == answerCh[c] # NoCall \/ got[c] # NoCall
Failed(c) == errCh[c] # "none" \/ outcome[c] \in ErrKinds

OneOwner(c) ==
  /\ qid[c] # NoId => InMap(c) \/ InHand(c) \/ c \in drain \/ Answered(c) \/ Failed(c)
  /\ InMap(c) => ~(InHand(c) \/ c \in drain \/ Answered(c) \/ Failed(c))
  /\ InHand(c) => ~(c \in drain \/ Answered(c) \/ Failed(c))
  /\ c \in drain => ~(Answered(c) \/ Failed(c))
  /\ ~(Answered(c) /\ Failed(c))

\* deliver, fail, failAll and gcExpired race for a pending entry.  Whatever
\* the order, a registered call is in exactly one place, so it is resolved
\* once: no send of the four ever finds a full channel, and no call drops
\* out of the map without somebody about to resolve it.
SingleOwner == \A c \in Calls : OneOwner(c)

\* A caller of awaitQuery or WorkerTypes is never handed the answer to
\* another query, however late the proxy answers and although register may
\* draw an id that is in flight.
AnswerMatches == \A c \in Calls : got[c] \in {NoCall, c}

\* Once Closed() is readable nothing is left to be failed: failAll refused
\* later registrations and reached every entry before close(t.closed), so
\* WorkerTypes, which does not watch Closed(), still comes back.
ClosedMeansResolved ==
  tr = "closed" =>
    \A c \in Calls : qid[c] # NoId => InHand(c) \/ Answered(c) \/ Failed(c)

\* Every call whose query was sent returns, even if the proxy never answers:
\* awaitQuery by its own timer, WorkerTypes through gcExpired or failAll.
Returns == \A c \in Calls : pc[c] = "waiting" ~> pc[c] = "done"

\* The connection seen as QueryService: where a call stands, and what its
\* caller returned.
svcBar(c) == IF Answered(c) THEN "answered"
             ELSE IF Failed(c) THEN "failed"
             ELSE IF qid[c] # NoId THEN "open" ELSE "idle"
retBar(c) == IF outcome[c] \in {"none", "answer"} THEN outcome[c] ELSE "error"

QS == INSTANCE QueryService WITH
        svc <- [c \in Calls |-> svcBar(c)],
        ret <- [c \in Calls |-> retBar(c)]

\* Every interleaving of the goroutines is one of QueryService: an accepted
\* call is resolved exactly once and eventually, and only the caller of an
\* answered query returns an answer.
ImplementsQueryService == QS!Spec

\* The safety part of the same statement.
RefinesQueryService == QS!SafetySpec
=============================================================================
