------------------------------ MODULE Streams ------------------------------
(***************************************************************************)
(* Streaming inference (pkg/cocoon/inference.go): RunQuery opens a stream, *)
(* the read loop routes the proxy's answer parts to it (dispatchPacket), a *)
(* watcher ends it on a timeout, a cancelled context or a lost connection, *)
(* and the runner's handlers collect it into one HTTP response             *)
(* (cmd/gocoon-runner/openai_passthrough.go).                              *)
(*                                                                         *)
(* Two kinds of goroutine send to a stream and close it: the read loop,    *)
(* and one per request, which is RunQuery until it returns and from then   *)
(* on the watcher RunQuery started.                                        *)
(***************************************************************************)
EXTENDS Naturals, Sequences

CONSTANTS
  Reqs,          \* calls of RunQuery
  Translating,   \* those served by collectTranslateRespond, the others are
                 \* served by collectAndRespond
  Cap,           \* capacity of the chunk channel (16 in the code)
  MaxParts,      \* bound: answer parts per request
  Reader,        \* the goroutine of transport.Run
  Nobody         \* a free mutex

ASSUME StreamsAssumption ==
  /\ Translating \subseteq Reqs
  /\ Cap \in Nat \ {0}
  /\ MaxParts \in Nat
  /\ Reader \notin Reqs
  /\ Nobody \notin Reqs \cup {Reader}

VARIABLES
  rq,            \* RunQuery and its watcher: "idle", "registered", "running",
                 \* "ended", "failed" or "refused"
  streams,       \* Session.streams
  buf,           \* streamChannel.ch: the chunks waiting in it
  outClosed,     \* streamChannel.ch is closed
  done,          \* streamChannel.done is closed
  once,          \* streamChannel.closeOnce: "new", "busy" or "spent"
  mu,            \* the holder of streamChannel.sendMu
  at,            \* where each goroutine is in send or close
  part,          \* the answer part the read loop is dispatching
  ready,         \* the session has a transport and is SessionReady
  trClosed,      \* transport.closed is closed
  wire,          \* requests the proxy may have received
  emitted,       \* answer parts the proxy has sent
  lost,          \* requests that lost a chunk to a full channel
  got,           \* the chunks the HTTP handler received
  resp           \* its response: "none", "ok" or "error"

streamVars == <<streams, buf, outClosed, done, once, mu, lost>>
connVars == <<ready, trClosed>>
httpVars == <<got, resp>>
vars == <<rq, streamVars, at, part, connVars, wire, emitted, httpVars>>

Workers == Reqs \cup {Reader}

\* A chunk: the number of the answer part (0 for a chunk the watcher made),
\* whether it is final and whether it carries an error.
Chunks == [n : 0 .. MaxParts, final : BOOLEAN, err : BOOLEAN]
WatcherChunk == [n |-> 0, final |-> TRUE, err |-> TRUE]

Parts == [req : Reqs, chunk : Chunks]
NoPart == [req |-> Nobody, chunk |-> WatcherChunk]

\* Outside, in send, and in close.
Places == {"rest", "lock", "push", "once", "shut", "closing"}

\* The stream a goroutine works on and the chunk it sends.
Target(w) == IF w = Reader THEN part.req ELSE w
Item(w) == IF w = Reader THEN part.chunk ELSE WatcherChunk

Init ==
  /\ rq = [r \in Reqs |-> "idle"]
  /\ streams = {}
  /\ buf = [r \in Reqs |-> <<>>]
  /\ outClosed = [r \in Reqs |-> FALSE]
  /\ done = [r \in Reqs |-> FALSE]
  /\ once = [r \in Reqs |-> "new"]
  /\ mu = [r \in Reqs |-> Nobody]
  /\ at = [w \in Workers |-> "rest"]
  /\ part = NoPart
  /\ ready = TRUE /\ trClosed = FALSE
  /\ wire = {}
  /\ emitted = [r \in Reqs |-> 0]
  /\ lost = {}
  /\ got = [r \in Reqs |-> <<>>]
  /\ resp = [r \in Reqs |-> "none"]

----------------------------------------------------------------------------
(* streamChannel.send and stream.close, run by goroutine w.                *)

Goto(w, place) == at' = [at EXCEPT ![w] = place] /\ UNCHANGED part

Rest(w) ==
  /\ at' = [at EXCEPT ![w] = "rest"]
  /\ part' = IF w = Reader THEN NoPart ELSE part

\* Where a goroutine goes after send: a final chunk closes the stream.
AfterSend(w) == IF Item(w).final THEN Goto(w, "once") ELSE Rest(w)

\* sendMu is taken and done looked at; a finished stream takes nothing.
SendLock(w) ==
  LET r == Target(w) IN
  /\ at[w] = "lock" /\ mu[r] = Nobody
  /\ IF done[r] THEN AfterSend(w) /\ UNCHANGED mu
                ELSE Goto(w, "push") /\ mu' = [mu EXCEPT ![r] = w]
  /\ UNCHANGED <<rq, streams, buf, outClosed, done, once, lost, connVars,
                 wire, emitted, httpVars>>

\* Mutant: a blocking send.
Push_Blocks(w) ==
  LET r == Target(w) IN
  /\ at[w] = "push" /\ Len(buf[r]) < Cap
  /\ buf' = [buf EXCEPT ![r] = Append(@, Item(w))] /\ UNCHANGED lost
  /\ mu' = [mu EXCEPT ![r] = Nobody]
  /\ AfterSend(w)
  /\ UNCHANGED <<rq, streams, outClosed, done, once, connVars, wire, emitted,
                 httpVars>>

\* The non-blocking send: a full channel drops the chunk, final or not.
Push(w) ==
  LET r == Target(w) IN
  /\ at[w] = "push"
  /\ IF Len(buf[r]) < Cap
     THEN buf' = [buf EXCEPT ![r] = Append(@, Item(w))] /\ UNCHANGED lost
     ELSE lost' = lost \cup {r} /\ UNCHANGED buf
  /\ mu' = [mu EXCEPT ![r] = Nobody]
  /\ AfterSend(w)
  /\ UNCHANGED <<rq, streams, outClosed, done, once, connVars, wire, emitted,
                 httpVars>>

\* Mutant: the stream stays in the table.
CloseOnce_Keeps(w) ==
  LET r == Target(w) IN
  /\ at[w] = "once"
  /\ \/ /\ once[r] = "new"
        /\ once' = [once EXCEPT ![r] = "busy"]
        /\ UNCHANGED streams
        /\ Goto(w, "shut")
     \/ /\ once[r] = "spent"
        /\ Rest(w)
        /\ UNCHANGED <<once, streams>>
  /\ UNCHANGED <<rq, buf, outClosed, done, mu, lost, connVars, wire, emitted,
                 httpVars>>

\* closeOnce.Do: the first goroutine runs the body, which removes the stream
\* from the table; the others wait for it to finish.
CloseOnce(w) ==
  LET r == Target(w) IN
  /\ at[w] = "once"
  /\ \/ /\ once[r] = "new"
        /\ once' = [once EXCEPT ![r] = "busy"]
        /\ streams' = streams \ {r}
        /\ Goto(w, "shut")
     \/ /\ once[r] = "spent"
        /\ Rest(w)
        /\ UNCHANGED <<once, streams>>
  /\ UNCHANGED <<rq, buf, outClosed, done, mu, lost, connVars, wire, emitted,
                 httpVars>>

\* Mutant: done is closed without sendMu.
CloseDone_NoLock(w) ==
  LET r == Target(w) IN
  /\ at[w] = "shut"
  /\ UNCHANGED mu
  /\ done' = [done EXCEPT ![r] = TRUE]
  /\ Goto(w, "closing")
  /\ UNCHANGED <<rq, streams, buf, outClosed, once, lost, connVars, wire,
                 emitted, httpVars>>

\* sendMu.Lock(); close(done)
CloseDone(w) ==
  LET r == Target(w) IN
  /\ at[w] = "shut" /\ mu[r] = Nobody
  /\ mu' = [mu EXCEPT ![r] = w]
  /\ done' = [done EXCEPT ![r] = TRUE]
  /\ Goto(w, "closing")
  /\ UNCHANGED <<rq, streams, buf, outClosed, once, lost, connVars, wire,
                 emitted, httpVars>>

\* close(out); sendMu.Unlock()
CloseOut(w) ==
  LET r == Target(w) IN
  /\ at[w] = "closing"
  /\ outClosed' = [outClosed EXCEPT ![r] = TRUE]
  /\ mu' = [mu EXCEPT ![r] = Nobody]
  /\ once' = [once EXCEPT ![r] = "spent"]
  /\ Rest(w)
  /\ UNCHANGED <<rq, streams, buf, done, lost, connVars, wire, emitted, httpVars>>

----------------------------------------------------------------------------
(* RunQuery and its watcher.                                               *)

RunQueryRefused(r) ==
  /\ rq[r] = "idle" /\ ~ready
  /\ rq' = [rq EXCEPT ![r] = "refused"]
  /\ UNCHANGED <<streamVars, at, part, connVars, wire, emitted, httpVars>>

\* Mutant: the request goes out before its stream is in the table.
RunQuery_Unregistered(r) ==
  /\ rq[r] = "idle" /\ ready
  /\ rq' = [rq EXCEPT ![r] = "registered"]
  /\ UNCHANGED streams
  /\ UNCHANGED <<buf, outClosed, done, once, mu, lost, at, part, connVars, wire,
                 emitted, httpVars>>

\* The stream is in the table before the request is sent.
RunQuery(r) ==
  /\ rq[r] = "idle" /\ ready
  /\ rq' = [rq EXCEPT ![r] = "registered"]
  /\ streams' = streams \cup {r}
  /\ UNCHANGED <<buf, outClosed, done, once, mu, lost, at, part, connVars, wire,
                 emitted, httpVars>>

\* The proxy can answer as soon as the frame is out, before SendPacket is
\* back.
PacketOut(r) ==
  /\ rq[r] = "registered" /\ r \notin wire /\ ~trClosed
  /\ wire' = wire \cup {r}
  /\ UNCHANGED <<rq, streamVars, at, part, connVars, emitted, httpVars>>

SendPacket(r) ==
  /\ rq[r] = "registered" /\ r \in wire
  /\ rq' = [rq EXCEPT ![r] = "running"]
  /\ UNCHANGED <<streamVars, at, part, connVars, wire, emitted, httpVars>>

SendPacketFails(r) ==
  /\ rq[r] = "registered"
  /\ rq' = [rq EXCEPT ![r] = "failed"]
  /\ Goto(r, "once")
  /\ UNCHANGED <<streamVars, connVars, wire, emitted, httpVars>>

\* Mutant: the watcher closes the stream without a final error.
Watch_Silent(r) ==
  /\ rq[r] = "running"
  /\ rq' = [rq EXCEPT ![r] = "ended"]
  /\ Goto(r, "once")
  /\ UNCHANGED <<streamVars, connVars, wire, emitted, httpVars>>

\* The watcher's select returns: the context ended, the transport closed or
\* the timer fired.  It sends a final error and closes the stream.
Watch(r) ==
  /\ rq[r] = "running"
  /\ rq' = [rq EXCEPT ![r] = "ended"]
  /\ Goto(r, "lock")
  /\ UNCHANGED <<streamVars, connVars, wire, emitted, httpVars>>

----------------------------------------------------------------------------
(* dispatchPacket: decode an answer part and look its stream up.  Parts of *)
(* a stream that is not in the table are dropped.                          *)

dispatchPacket(r, final, err) ==
  LET chunk == [n |-> emitted[r] + 1, final |-> final, err |-> err] IN
  /\ at[Reader] = "rest" /\ ~trClosed
  /\ r \in wire /\ emitted[r] < MaxParts
  /\ err => final
  /\ emitted' = [emitted EXCEPT ![r] = @ + 1]
  /\ IF r \in streams
     THEN /\ at' = [at EXCEPT ![Reader] = "lock"]
          /\ part' = [req |-> r, chunk |-> chunk]
     ELSE UNCHANGED <<at, part>>
  /\ UNCHANGED <<rq, streamVars, connVars, wire, httpVars>>

----------------------------------------------------------------------------
(* Session.Close and the transport.                                        *)

SessionClose ==
  /\ ready
  /\ ready' = FALSE
  /\ UNCHANGED <<rq, streamVars, at, part, trClosed, wire, emitted, httpVars>>

TransportClose ==
  /\ ~trClosed
  /\ trClosed' = TRUE
  /\ UNCHANGED <<rq, streamVars, at, part, ready, wire, emitted, httpVars>>

----------------------------------------------------------------------------
(* The HTTP handler that ranges over the stream RunQuery returned.         *)

Returned(r) == rq[r] \in {"running", "ended"}

Collect(r) ==
  /\ Returned(r) /\ buf[r] # <<>>
  /\ got' = [got EXCEPT ![r] = Append(@, Head(buf[r]))]
  /\ buf' = [buf EXCEPT ![r] = Tail(@)]
  /\ UNCHANGED <<rq, streams, outClosed, done, once, mu, lost, at, part, connVars,
                 wire, emitted, resp>>

SawError(r) == \E i \in DOMAIN got[r] : got[r][i].err
SawBytes(r) == \E i \in DOMAIN got[r] : ~got[r][i].err

\* collectAndRespond answers an error only if it has no bytes at all;
\* collectTranslateRespond whenever it saw one.
Respond(r) ==
  /\ Returned(r) /\ buf[r] = <<>> /\ outClosed[r] /\ resp[r] = "none"
  /\ resp' = [resp EXCEPT ![r] =
                IF SawError(r) /\ (r \in Translating \/ ~SawBytes(r))
                THEN "error" ELSE "ok"]
  /\ UNCHANGED <<rq, streamVars, at, part, connVars, wire, emitted, got>>

----------------------------------------------------------------------------
Next ==
  \/ \E w \in Workers :
       SendLock(w) \/ Push(w) \/ CloseOnce(w) \/ CloseDone(w) \/ CloseOut(w)
  \/ \E r \in Reqs :
       \/ RunQuery(r) \/ RunQueryRefused(r)
       \/ PacketOut(r) \/ SendPacket(r) \/ SendPacketFails(r)
       \/ Watch(r)
       \/ \E final, err \in BOOLEAN : dispatchPacket(r, final, err)
       \/ Collect(r) \/ Respond(r)
  \/ SessionClose \/ TransportClose

Spec == Init /\ [][Next]_vars

\* A goroutine inside send or close goes on, and the watcher's timer fires.
StreamFairness ==
  /\ \A w \in Workers :
       WF_vars(SendLock(w) \/ Push(w) \/ CloseOnce(w) \/ CloseDone(w) \/ CloseOut(w))
  /\ \A r \in Reqs : WF_vars(Watch(r))

\* The handlers may stop reading.
StreamSpec == Spec /\ StreamFairness

----------------------------------------------------------------------------
(* Properties.                                                             *)

\* The type of every variable.
TypeOK ==
  /\ rq \in [Reqs -> {"idle", "registered", "running", "ended", "failed", "refused"}]
  /\ streams \in SUBSET Reqs
  /\ buf \in [Reqs -> Seq(Chunks)] /\ \A r \in Reqs : Len(buf[r]) <= Cap
  /\ outClosed \in [Reqs -> BOOLEAN]
  /\ done \in [Reqs -> BOOLEAN]
  /\ once \in [Reqs -> {"new", "busy", "spent"}]
  /\ mu \in [Reqs -> Workers \cup {Nobody}]
  /\ at \in [Workers -> Places]
  /\ part \in Parts \cup {NoPart}
  /\ ready \in BOOLEAN /\ trClosed \in BOOLEAN
  /\ wire \in SUBSET Reqs
  /\ emitted \in [Reqs -> 0 .. MaxParts]
  /\ lost \in SUBSET Reqs
  /\ got \in [Reqs -> Seq(Chunks)]
  /\ resp \in [Reqs -> {"none", "ok", "error"}]

\* The read loop, the watcher and RunQuery send to and close one channel.
\* None of them ever sends to it after close(out) or closes it twice, which
\* would panic the process: that is what sendMu, done and closeOnce are for.
NoPanic ==
  \A w \in Workers :
    at[w] \in {"push", "shut", "closing"} => ~outClosed[Target(w)]

\* The parts the consumer has or will get.
Delivered(r) == [i \in DOMAIN (got[r] \o buf[r]) |-> (got[r] \o buf[r])[i].n]

\* Chunks arrive in the order the proxy sent them and none arrives twice;
\* the watcher's chunk (0) has no place in that order.
InOrder ==
  \A r \in Reqs : \A i, j \in DOMAIN Delivered(r) :
    i < j /\ Delivered(r)[i] # 0 /\ Delivered(r)[j] # 0
      => Delivered(r)[i] < Delivered(r)[j]

\* While a stream is open, every part the proxy sent is in the channel, was
\* received, is in the reader's hands, or was lost to a full channel: no
\* part slips by because the stream was not yet in the table.
Gapless ==
  \A r \in Reqs :
    once[r] = "new" /\ r \notin lost =>
      \A n \in 1 .. emitted[r] :
        \/ \E i \in DOMAIN Delivered(r) : Delivered(r)[i] = n
        \/ part.req = r /\ part.chunk.n = n

\* A stream that was opened leaves the table and its channel is closed, so
\* that a consumer's range loop ends and the table does not grow.
Closes == \A r \in Reqs : rq[r] = "running" ~> outClosed[r] /\ r \notin streams

\* The read loop never waits for a consumer: a handler that stops reading
\* does not hold up the other streams of the connection.
ReaderReturns == at[Reader] # "rest" ~> at[Reader] = "rest"

\* The handler has the whole answer: every part up to the final one.
Complete(r) ==
  \E k \in 1 .. MaxParts :
    /\ Len(got[r]) >= k
    /\ \A i \in 1 .. k : got[r][i].n = i /\ ~got[r][i].err
    /\ got[r][k].final

\* collectTranslateRespond answers 200 only with the whole answer, as long
\* as the channel never overflowed: a stream cut short by an error, a
\* timeout or a lost connection always carries an error chunk.
CompleteUnlessFull ==
  \A r \in Translating : resp[r] = "ok" /\ r \notin lost => Complete(r)

\* What the comment in collectTranslateRespond says: the translated body is
\* a complete answer, or the response is refused.
RefusesIncomplete == \A r \in Translating : resp[r] = "ok" => Complete(r)
=============================================================================
