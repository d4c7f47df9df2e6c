--------------------------- MODULE StreamsProofs ---------------------------
(***************************************************************************)
(* For any number of streams, any channel capacity and any number of       *)
(* answer parts: no goroutine sends on a closed chunk channel or closes it *)
(* twice, the parts of a stream arrive in order and without a gap, and a   *)
(* translated response carries the whole answer, unless a channel was full *)
(* (module Streams).                                                       *)
(***************************************************************************)
EXTENDS Streams, TLAPS

\* The read loop works on a stream whenever it is inside send or close.
Working == at[Reader] # "rest" => part \in Parts

\* sendMu is held while done is known to be open and while done and out are
\* being closed.
Holds(w) ==
  /\ at[w] = "push" => mu[Target(w)] = w /\ ~done[Target(w)]
  /\ at[w] = "closing" => mu[Target(w)] = w
Locked == \A w \in Workers : Holds(w)

\* closeOnce: only the goroutine that found it new is in the body.
Closer(w, r) == at[w] \in {"shut", "closing"} /\ Target(w) = r
OneCloser ==
  \A r \in Reqs : \A w \in Workers : Closer(w, r) =>
    /\ once[r] = "busy"
    /\ done[r] <=> at[w] = "closing"
    /\ \A v \in Workers : Closer(v, r) => v = w

\* The channel is closed last.
CloseOrder ==
  \A r \in Reqs : /\ outClosed[r] => once[r] = "spent" /\ done[r]
                  /\ once[r] = "new" => ~done[r]

IInv == TypeOK /\ Working /\ Locked /\ OneCloser /\ CloseOrder

----------------------------------------------------------------------------
\* A goroutine inside send or close has a stream to work on.
LEMMA TargetType ==
  ASSUME IInv, NEW w \in Workers, at[w] # "rest"
  PROVE  Target(w) \in Reqs
BY DEF IInv, Working, Target, Workers, Parts

\* A step of goroutine w inside send or close: w moves, and nobody's stream
\* changes unless it comes to rest.
LEMMA MoveTypes ==
  ASSUME IInv, NEW w \in Workers, NEW place \in Places, Goto(w, place) \/ Rest(w)
  PROVE  /\ at' \in [Workers -> Places] /\ part' \in Parts \cup {NoPart}
         /\ \A v \in Workers : v # w => at'[v] = at[v] /\ Target(v)' = Target(v)
         /\ at'[w] # "rest" => Target(w)' = Target(w)
         /\ at[w] # "rest" => Working'
<1> USE StreamsAssumption DEF IInv, TypeOK, Goto, Rest
<1>1. at' = [at EXCEPT ![w] = at'[w]] /\ at'[w] \in Places
  BY DEF Places
<1>2. part' = part \/ (w = Reader /\ part' = NoPart /\ at'[w] = "rest")
  BY DEF Places
<1>3. at' \in [Workers -> Places] /\ part' \in Parts \cup {NoPart}
  BY ZenonT(60), <1>1, <1>2
<1>4. \A v \in Workers : v # w => at'[v] = at[v] /\ Target(v)' = Target(v)
  BY <1>1, <1>2 DEF Target
<1>5. at'[w] # "rest" => Target(w)' = Target(w)
  BY <1>2 DEF Target
<1>6. at[w] # "rest" => Working'
  BY <1>1, <1>2 DEF Working, Workers
<1> QED BY <1>3, <1>4, <1>5, <1>6

\* What w does under sendMu leaves the other goroutines' hold on it alone.
LEMMA OthersHold ==
  ASSUME IInv, NEW w \in Workers, NEW v \in Workers, v # w,
         at'[v] = at[v], Target(v)' = Target(v),
         mu[Target(w)] \in {Nobody, w},
         \A x \in Reqs : x # Target(w) => mu'[x] = mu[x] /\ done'[x] = done[x]
  PROVE  Holds(v)'
<1>1. Holds(v)
  BY DEF IInv, Locked
<1>2. at[v] # "rest" => Target(v) \in Reqs
  BY TargetType
<1>3. v # Nobody
  BY StreamsAssumption DEF Workers
<1> QED BY <1>1, <1>2, <1>3 DEF Holds

\* send, up to the check of done.
LEMMA SendLockInv ==
  ASSUME NEW w \in Workers, IInv, SendLock(w)
  PROVE  IInv'
<1> USE StreamsAssumption DEF IInv, connVars, httpVars
<1> DEFINE r == Target(w)
<1>a. r \in Reqs /\ mu[r] = Nobody /\ at[w] = "lock"
  BY TargetType DEF SendLock
<1>b. PICK place \in {"push", "once", "rest"} :
        /\ Goto(w, place) \/ Rest(w)
        /\ at' = [at EXCEPT ![w] = place]
        /\ place = "push" => ~done[r] /\ mu' = [mu EXCEPT ![r] = w]
        /\ place # "push" => mu' = mu
  BY DEF SendLock, AfterSend, Goto, Rest
<1>c. /\ at'[w] = place
      /\ at' \in [Workers -> Places] /\ part' \in Parts \cup {NoPart}
      /\ \A v \in Workers : v # w => at'[v] = at[v] /\ Target(v)' = Target(v)
      /\ at'[w] # "rest" => Target(w)' = Target(w)
      /\ Working'
  BY <1>a, <1>b, MoveTypes DEF Places, TypeOK
<1> HIDE DEF r
<1>d. mu \in [Reqs -> Workers \cup {Nobody}]
  BY DEF TypeOK
<1>e. mu' \in [Reqs -> Workers \cup {Nobody}]
  BY <1>a, <1>b, <1>d
<1>1. TypeOK'
  BY <1>c, <1>e DEF SendLock, TypeOK
<1>2. Locked'
  <2>1. Holds(w)'
    BY <1>a, <1>b, <1>c, <1>d DEF SendLock, Holds, r
  <2>2. \A x \in Reqs : x # r => mu'[x] = mu[x] /\ done'[x] = done[x]
    BY <1>a, <1>b, <1>d DEF SendLock
  <2>3. \A v \in Workers : v # w => Holds(v)'
    BY <1>a, <1>c, <2>2, OthersHold DEF r
  <2> QED BY <2>1, <2>3 DEF Locked
<1>3. OneCloser'
  BY <1>a, <1>b, <1>c DEF OneCloser, Closer, SendLock
<1>4. CloseOrder'
  BY DEF CloseOrder, SendLock
<1> QED BY <1>c, <1>1, <1>2, <1>3, <1>4

\* The send itself and the release of sendMu.
LEMMA PushInv ==
  ASSUME NEW w \in Workers, IInv, Push(w)
  PROVE  IInv'
<1> USE StreamsAssumption DEF IInv, connVars, httpVars
<1> DEFINE r == Target(w)
<1>a. r \in Reqs /\ mu[r] = w /\ at[w] = "push" /\ mu' = [mu EXCEPT ![r] = Nobody]
  BY TargetType DEF Push, Locked, Holds
<1>b. PICK place \in {"once", "rest"} :
        (Goto(w, place) \/ Rest(w)) /\ at' = [at EXCEPT ![w] = place]
  BY DEF Push, AfterSend, Goto, Rest
<1>c. /\ at'[w] = place
      /\ at' \in [Workers -> Places] /\ part' \in Parts \cup {NoPart}
      /\ \A v \in Workers : v # w => at'[v] = at[v] /\ Target(v)' = Target(v)
      /\ at'[w] # "rest" => Target(w)' = Target(w)
      /\ Working'
  BY <1>a, <1>b, MoveTypes DEF Places, TypeOK
<1>i. Item(w) \in Chunks
  BY <1>a DEF Item, Working, Parts, Chunks, WatcherChunk
<1>l. lost' \in SUBSET Reqs
  BY <1>a DEF Push, TypeOK
<1>f. buf' \in [Reqs -> Seq(Chunks)] /\ \A x \in Reqs : Len(buf'[x]) <= Cap
  <2>1. buf \in [Reqs -> Seq(Chunks)] /\ \A x \in Reqs : Len(buf[x]) <= Cap
    BY DEF TypeOK
  <2>2. CASE Len(buf[r]) < Cap
    <3> DEFINE b == Append(buf[r], Item(w))
    <3>1. b \in Seq(Chunks) /\ Len(b) = Len(buf[r]) + 1 /\ Len(buf[r]) \in Nat
      BY <1>a, <1>i, <2>1
    <3>2. buf' = [buf EXCEPT ![r] = b]
      BY <2>2 DEF Push
    <3> HIDE DEF b
    <3> QED BY <1>a, <2>1, <2>2, <3>1, <3>2
  <2>3. CASE ~(Len(buf[r]) < Cap)
    BY <2>1, <2>3 DEF Push
  <2> QED BY <2>2, <2>3
<1> HIDE DEF r
<1>d. mu \in [Reqs -> Workers \cup {Nobody}]
  BY DEF TypeOK
<1>1. TypeOK'
  <2>1. mu' \in [Reqs -> Workers \cup {Nobody}]
    BY <1>a, <1>d
  <2> QED BY ZenonT(60), <1>c, <1>l, <1>f, <2>1 DEF Push, TypeOK
<1>2. Locked'
  <2>1. Holds(w)'
    BY <1>c DEF Holds
  <2>2. \A x \in Reqs : x # r => mu'[x] = mu[x] /\ done'[x] = done[x]
    BY <1>a, <1>d DEF Push
  <2>3. \A v \in Workers : v # w => Holds(v)'
    BY <1>a, <1>c, <2>2, OthersHold DEF r
  <2> QED BY <2>1, <2>3 DEF Locked
<1>3. OneCloser'
  BY SMTT(60), <1>a, <1>b, <1>c DEF OneCloser, Closer, Push
<1>4. CloseOrder'
  BY DEF CloseOrder, Push
<1> QED BY <1>c, <1>1, <1>2, <1>3, <1>4

\* closeOnce.Do.
LEMMA CloseOnceInv ==
  ASSUME NEW w \in Workers, IInv, CloseOnce(w)
  PROVE  IInv'
<1> USE StreamsAssumption DEF IInv, connVars, httpVars
<1> DEFINE r == Target(w)
<1>a. r \in Reqs /\ at[w] = "once"
  BY TargetType DEF CloseOnce
<1>b. PICK place \in {"shut", "rest"} :
        /\ Goto(w, place) \/ Rest(w)
        /\ at' = [at EXCEPT ![w] = place]
        /\ place = "shut" => once[r] = "new" /\ once' = [once EXCEPT ![r] = "busy"]
        /\ place # "shut" => once' = once
        /\ streams' \in SUBSET Reqs
  BY DEF CloseOnce, Goto, Rest, TypeOK
<1>c. /\ at'[w] = place
      /\ at' \in [Workers -> Places] /\ part' \in Parts \cup {NoPart}
      /\ \A v \in Workers : v # w => at'[v] = at[v] /\ Target(v)' = Target(v)
      /\ at'[w] # "rest" => Target(w)' = Target(w)
      /\ Working'
  BY SMTT(60), <1>a, <1>b, MoveTypes DEF Places, TypeOK
<1> HIDE DEF r
<1>d. once \in [Reqs -> {"new", "busy", "spent"}]
  BY DEF TypeOK
<1>1. TypeOK'
  <2>1. once' \in [Reqs -> {"new", "busy", "spent"}]
    BY <1>a, <1>b, <1>d
  <2> QED BY <1>b, <1>c, <2>1 DEF CloseOnce, TypeOK
<1>2. Locked'
  <2>1. Holds(w)'
    BY <1>c DEF Holds
  <2>2. \A v \in Workers : v # w => Holds(v)'
    BY ZenonT(60), <1>c DEF Locked, Holds, CloseOnce
  <2> QED BY <2>1, <2>2 DEF Locked
<1>3. OneCloser'
  <2>1. place = "shut" => ~done[r] /\ \A v \in Workers : ~Closer(v, r)
    BY <1>a, <1>b DEF OneCloser, CloseOrder
  <2>2. \A v \in Workers : v # w => \A x : Closer(v, x)' <=> Closer(v, x)
    BY <1>c DEF Closer
  <2>3. \A x : Closer(w, x)' <=> (place = "shut" /\ x = r)
    BY <1>b, <1>c DEF Closer, r
  <2>4. \A x \in Reqs : once'[x] = IF place = "shut" /\ x = r THEN "busy" ELSE once[x]
    BY ZenonT(60), <1>a, <1>b, <1>d
  <2> QED BY <1>a, <1>c, <2>1, <2>2, <2>3, <2>4 DEF OneCloser, CloseOnce
<1>4. CloseOrder'
  BY <1>a, <1>b, <1>d DEF CloseOrder, CloseOnce
<1> QED BY <1>c, <1>1, <1>2, <1>3, <1>4

\* sendMu.Lock(); close(done).
LEMMA CloseDoneInv ==
  ASSUME NEW w \in Workers, IInv, CloseDone(w)
  PROVE  IInv'
<1> USE StreamsAssumption DEF IInv, connVars, httpVars
<1> DEFINE r == Target(w)
<1>a. /\ r \in Reqs /\ at[w] = "shut" /\ mu[r] = Nobody /\ Closer(w, r)
      /\ mu' = [mu EXCEPT ![r] = w] /\ done' = [done EXCEPT ![r] = TRUE]
  BY ZenonT(60), TargetType DEF CloseDone, Closer
<1>c. /\ at'[w] = "closing"
      /\ at' \in [Workers -> Places] /\ part' \in Parts \cup {NoPart}
      /\ \A v \in Workers : v # w => at'[v] = at[v] /\ Target(v)' = Target(v)
      /\ at'[w] # "rest" => Target(w)' = Target(w)
      /\ Working'
  <2>1. Goto(w, "closing")
    BY DEF CloseDone
  <2> QED BY ZenonT(60), <1>a, <2>1, MoveTypes DEF Places, Goto, TypeOK
<1> HIDE DEF r
<1>d. mu \in [Reqs -> Workers \cup {Nobody}] /\ done \in [Reqs -> BOOLEAN]
  BY DEF TypeOK
<1>1. TypeOK'
  <2>1. mu' \in [Reqs -> Workers \cup {Nobody}]
    BY <1>a, <1>d
  <2>2. done' \in [Reqs -> BOOLEAN]
    BY <1>a, <1>d
  <2> QED BY <1>c, <2>1, <2>2 DEF CloseDone, TypeOK
<1>2. Locked'
  <2>1. Holds(w)'
    BY <1>a, <1>c, <1>d DEF Holds, r
  <2>2. \A x \in Reqs : x # r => mu'[x] = mu[x] /\ done'[x] = done[x]
    BY <1>a, <1>d
  <2>3. \A v \in Workers : v # w => Holds(v)'
    BY ZenonT(60), <1>a, <1>c, <2>2, OthersHold DEF r
  <2> QED BY <2>1, <2>3 DEF Locked
<1>3. OneCloser'
  <2>1. \A v \in Workers : \A x : Closer(v, x)' <=> Closer(v, x)
    BY <1>a, <1>c DEF Closer, r
  <2>2. \A x \in Reqs : x # r => done'[x] = done[x]
    BY <1>a, <1>d
  <2>3. once' = once
    BY DEF CloseDone
  <2>4. \A v \in Workers : Closer(v, r) => v = w
    BY <1>a DEF OneCloser
  <2>5. ASSUME NEW x \in Reqs, NEW v \in Workers, Closer(v, x)
        PROVE  done'[x] <=> at'[v] = "closing"
    <3>1. CASE x = r
      BY <1>a, <1>c, <1>d, <2>4, <2>5, <3>1
    <3>2. CASE x # r
      <4>1. v # w
        BY <1>a, <2>5, <3>2 DEF Closer
      <4> QED BY <1>c, <2>2, <2>5, <3>2, <4>1 DEF OneCloser
    <3> QED BY <3>1, <3>2
  <2> QED BY <2>1, <2>3, <2>5 DEF OneCloser
<1>4. CloseOrder'
  <2>1. once[r] = "busy" /\ UNCHANGED <<once, outClosed>>
    BY <1>a DEF OneCloser, CloseDone
  <2> QED BY ZenonT(60), <1>a, <1>d, <2>1 DEF CloseOrder
<1> QED BY <1>c, <1>1, <1>2, <1>3, <1>4

\* close(out); sendMu.Unlock().
LEMMA CloseOutInv ==
  ASSUME NEW w \in Workers, IInv, CloseOut(w)
  PROVE  IInv'
<1> USE StreamsAssumption DEF IInv, connVars, httpVars
<1> DEFINE r == Target(w)
<1>a. /\ r \in Reqs /\ at[w] = "closing" /\ mu[r] = w /\ Closer(w, r)
      /\ mu' = [mu EXCEPT ![r] = Nobody] /\ once' = [once EXCEPT ![r] = "spent"]
      /\ outClosed' = [outClosed EXCEPT ![r] = TRUE]
  BY ZenonT(60), TargetType DEF CloseOut, Closer, Locked, Holds
<1>c. /\ at'[w] = "rest"
      /\ at' \in [Workers -> Places] /\ part' \in Parts \cup {NoPart}
      /\ \A v \in Workers : v # w => at'[v] = at[v] /\ Target(v)' = Target(v)
      /\ at'[w] # "rest" => Target(w)' = Target(w)
      /\ Working'
  <2>1. Rest(w) /\ "rest" \in Places
    BY DEF CloseOut, Places
  <2> QED BY ZenonT(60), <1>a, <2>1, MoveTypes DEF Rest, TypeOK
<1> HIDE DEF r
<1>d. /\ mu \in [Reqs -> Workers \cup {Nobody}] /\ outClosed \in [Reqs -> BOOLEAN]
      /\ once \in [Reqs -> {"new", "busy", "spent"}]
  BY DEF TypeOK
<1>1. TypeOK'
  <2>1. mu' \in [Reqs -> Workers \cup {Nobody}]
    BY <1>a, <1>d
  <2>2. outClosed' \in [Reqs -> BOOLEAN] /\ once' \in [Reqs -> {"new", "busy", "spent"}]
    BY <1>a, <1>d
  <2> QED BY <1>c, <2>1, <2>2 DEF CloseOut, TypeOK
<1>2. Locked'
  <2>1. Holds(w)'
    BY <1>c DEF Holds
  <2>2. \A x \in Reqs : x # r => mu'[x] = mu[x] /\ done'[x] = done[x]
    BY <1>a, <1>d DEF CloseOut
  <2>3. \A v \in Workers : v # w => Holds(v)'
    BY <1>a, <1>c, <2>2, OthersHold DEF r
  <2> QED BY <2>1, <2>3 DEF Locked
<1>3. OneCloser'
  <2>1. \A v \in Workers : \A x : Closer(v, x)' => v # w /\ Closer(v, x)
    BY <1>c DEF Closer
  <2>2. \A v \in Workers : Closer(v, r) => v = w
    BY <1>a DEF OneCloser
  <2>3. \A x \in Reqs : x # r => once'[x] = once[x]
    BY ZenonT(60), <1>a, <1>d
  <2> QED BY <1>c, <2>1, <2>2, <2>3 DEF OneCloser, CloseOut
<1>4. CloseOrder'
  <2>1. done[r]
    BY <1>a DEF OneCloser
  <2> QED BY <1>a, <1>d, <2>1 DEF CloseOrder, CloseOut
<1> QED BY ZenonT(60), <1>c, <1>1, <1>2, <1>3, <1>4

\* RunQuery, SendPacket and the watcher touch no channel: they give the
\* goroutine of the request something to do, or nothing.
LEMMA RequestInv ==
  ASSUME NEW r \in Reqs, IInv,
         \/ RunQuery(r) \/ RunQueryRefused(r) \/ PacketOut(r) \/ SendPacket(r)
         \/ SendPacketFails(r) \/ Watch(r)
  PROVE  IInv'
<1> USE StreamsAssumption DEF IInv, connVars, httpVars, streamVars
<1>a. /\ UNCHANGED <<buf, outClosed, done, once, mu, lost, part, emitted, httpVars, connVars>>
      /\ streams' \in SUBSET Reqs /\ wire' \in SUBSET Reqs
      /\ rq' \in [Reqs -> {"idle", "registered", "running", "ended", "failed", "refused"}]
      /\ at' = at \/ \E place \in {"once", "lock"} : at' = [at EXCEPT ![r] = place]
  <2>0. /\ streams \in SUBSET Reqs /\ wire \in SUBSET Reqs
        /\ rq \in [Reqs -> {"idle", "registered", "running", "ended", "failed", "refused"}]
    BY DEF TypeOK
  <2>1. CASE RunQuery(r) \/ RunQueryRefused(r)
    BY <2>0, <2>1 DEF RunQuery, RunQueryRefused
  <2>2. CASE PacketOut(r) \/ SendPacket(r)
    BY <2>0, <2>2 DEF PacketOut, SendPacket
  <2>3. CASE SendPacketFails(r) \/ Watch(r)
    BY <2>0, <2>3 DEF SendPacketFails, Watch, Goto
  <2> QED BY <2>1, <2>2, <2>3
<1>b. at \in [Workers -> Places] /\ r \in Workers /\ r # Reader
  BY DEF TypeOK, Workers
<1>c. \A v \in Workers : /\ Target(v)' = Target(v)
                         /\ at'[v] = at[v] \/ at'[v] \in {"once", "lock"}
  BY <1>a, <1>b DEF Target
<1>d. at' \in [Workers -> Places] /\ at'[Reader] = at[Reader]
  BY <1>a, <1>b DEF Places, Workers
<1>1. TypeOK'
  BY ZenonT(60), <1>a, <1>d DEF TypeOK
<1>2. Working'
  BY ZenonT(60), <1>a, <1>d DEF Working
<1>3. Locked'
  BY ZenonT(60), <1>a, <1>c DEF Locked, Holds
<1>4. OneCloser'
  BY SMTT(60), <1>a, <1>c DEF OneCloser, Closer
<1>5. CloseOrder'
  BY <1>a DEF CloseOrder
<1> QED BY <1>1, <1>2, <1>3, <1>4, <1>5

\* dispatchPacket gives the read loop, which is at rest, a chunk to send.
LEMMA DispatchInv ==
  ASSUME NEW r \in Reqs, NEW final \in BOOLEAN, NEW err \in BOOLEAN, IInv,
         dispatchPacket(r, final, err)
  PROVE  IInv'
<1> USE StreamsAssumption DEF IInv, connVars, httpVars, streamVars
<1> DEFINE p == [req |-> r, chunk |-> [n |-> emitted[r] + 1, final |-> final, err |-> err]]
<1>a. /\ UNCHANGED <<rq, streamVars, connVars, wire, httpVars>>
      /\ at[Reader] = "rest" /\ emitted[r] < MaxParts
      /\ emitted' = [emitted EXCEPT ![r] = emitted[r] + 1]
      /\ \/ UNCHANGED <<at, part>>
         \/ at' = [at EXCEPT ![Reader] = "lock"] /\ part' = p
  BY DEF dispatchPacket
<1>b. at \in [Workers -> Places] /\ Reader \in Workers /\ emitted \in [Reqs -> 0 .. MaxParts]
  BY DEF TypeOK, Workers
<1>c. p \in Parts
  BY <1>a, <1>b DEF Parts, Chunks
<1> HIDE DEF p
<1>d. /\ at' \in [Workers -> Places] /\ part' \in Parts \cup {NoPart}
      /\ emitted' \in [Reqs -> 0 .. MaxParts]
  <2>1. emitted' \in [Reqs -> 0 .. MaxParts]
    BY <1>a, <1>b
  <2>2. part \in Parts \cup {NoPart}
    BY DEF TypeOK
  <2> QED BY <1>a, <1>b, <1>c, <2>1, <2>2 DEF Places
<1>e. /\ \A v \in Workers : v # Reader => at'[v] = at[v] /\ Target(v)' = Target(v)
      /\ at'[Reader] \in {"rest", "lock"}
  BY ZenonT(60), <1>a, <1>b DEF Target
<1>1. TypeOK'
  BY <1>a, <1>d DEF TypeOK
<1>2. Working'
  BY ZenonT(60), <1>a, <1>b, <1>c DEF Working
<1>3. Locked'
  BY ZenonT(60), <1>a, <1>e DEF Locked, Holds
<1>4. OneCloser'
  BY SMTT(60), <1>a, <1>e DEF OneCloser, Closer
<1>5. CloseOrder'
  BY <1>a DEF CloseOrder
<1> QED BY ZenonT(60), <1>1, <1>2, <1>3, <1>4, <1>5

\* The session, the transport and the HTTP handlers only take from a channel.
LEMMA OutsideInv ==
  ASSUME IInv,
         \/ \E r \in Reqs : Collect(r) \/ Respond(r)
         \/ SessionClose \/ TransportClose \/ UNCHANGED vars
  PROVE  IInv'
<1> USE StreamsAssumption DEF IInv, connVars, httpVars, streamVars
<1>a. /\ UNCHANGED <<rq, streams, outClosed, done, once, mu, lost, at, part, wire, emitted>>
      /\ ready' \in BOOLEAN /\ trClosed' \in BOOLEAN
  BY ZenonT(60) DEF Collect, Respond, SessionClose, TransportClose, vars, TypeOK
<1>b. /\ buf \in [Reqs -> Seq(Chunks)] /\ got \in [Reqs -> Seq(Chunks)]
      /\ \A x \in Reqs : Len(buf[x]) <= Cap
      /\ resp \in [Reqs -> {"none", "ok", "error"}]
  BY DEF TypeOK
<1>c. /\ buf' \in [Reqs -> Seq(Chunks)] /\ got' \in [Reqs -> Seq(Chunks)]
      /\ \A x \in Reqs : Len(buf'[x]) <= Cap
      /\ resp' \in [Reqs -> {"none", "ok", "error"}]
  <2>1. CASE UNCHANGED <<buf, got, resp>>
    BY <1>b, <2>1
  <2>2. ASSUME NEW r \in Reqs, Respond(r)
        PROVE  UNCHANGED <<buf, got>> /\ resp' \in [Reqs -> {"none", "ok", "error"}]
    BY <1>b, <2>2 DEF Respond
  <2>3. ASSUME NEW r \in Reqs, Collect(r)
        PROVE  /\ buf' \in [Reqs -> Seq(Chunks)] /\ got' \in [Reqs -> Seq(Chunks)]
               /\ (\A x \in Reqs : Len(buf'[x]) <= Cap) /\ UNCHANGED resp
    <3> DEFINE h == Head(buf[r])
               t == Tail(buf[r])
               g == Append(got[r], h)
    <3>1. h \in Chunks /\ t \in Seq(Chunks) /\ Len(t) <= Cap /\ g \in Seq(Chunks)
      BY <1>b, <2>3 DEF Collect
    <3>2. buf' = [buf EXCEPT ![r] = t] /\ got' = [got EXCEPT ![r] = g] /\ UNCHANGED resp
      BY <2>3 DEF Collect
    <3> HIDE DEF h, t, g
    <3> QED BY <1>b, <3>1, <3>2
  <2> QED BY ZenonT(60), <1>b, <2>1, <2>2, <2>3 DEF SessionClose, TransportClose, vars
<1>1. TypeOK'
  BY ZenonT(60), <1>a, <1>c DEF TypeOK
<1>2. Working' /\ CloseOrder'
  BY ZenonT(60), <1>a DEF Working, CloseOrder
<1>3. Locked' /\ OneCloser'
  BY <1>a DEF Locked, Holds, OneCloser, Closer, Target
<1> QED BY ZenonT(60), <1>1, <1>2, <1>3

----------------------------------------------------------------------------
\* The initial state satisfies IInv.
LEMMA InitInv == Init => IInv
<1> SUFFICES ASSUME Init PROVE IInv
  OBVIOUS
<1> USE StreamsAssumption DEF Init
<1>0. /\ buf \in [Reqs -> Seq(Chunks)] /\ got \in [Reqs -> Seq(Chunks)]
      /\ \A r \in Reqs : Len(buf[r]) <= Cap
  <2>1. <<>> \in Seq(Chunks) /\ Len(<<>>) = 0
    OBVIOUS
  <2> QED BY <2>1
<1>1. TypeOK
  <2>1. /\ rq \in [Reqs -> {"idle", "registered", "running", "ended", "failed", "refused"}]
        /\ resp \in [Reqs -> {"none", "ok", "error"}]
        /\ once \in [Reqs -> {"new", "busy", "spent"}]
    OBVIOUS
  <2>2. /\ emitted \in [Reqs -> 0 .. MaxParts] /\ mu \in [Reqs -> Workers \cup {Nobody}]
        /\ at \in [Workers -> Places]
    BY DEF Places
  <2> QED BY ZenonT(60), <1>0, <2>1, <2>2 DEF TypeOK
<1>2. Working /\ Locked /\ OneCloser /\ CloseOrder
  BY DEF Working, Locked, Holds, OneCloser, Closer, CloseOrder, Workers
<1> QED BY <1>1, <1>2 DEF IInv

\* Every step preserves IInv.
LEMMA NextInv == IInv /\ [Next]_vars => IInv'
<1> SUFFICES ASSUME IInv, [Next]_vars PROVE IInv'
  OBVIOUS
<1>1. ASSUME NEW w \in Workers,
             SendLock(w) \/ Push(w) \/ CloseOnce(w) \/ CloseDone(w) \/ CloseOut(w)
      PROVE  IInv'
  BY <1>1, SendLockInv, PushInv, CloseOnceInv, CloseDoneInv, CloseOutInv
<1>2. ASSUME NEW r \in Reqs,
             \/ RunQuery(r) \/ RunQueryRefused(r) \/ PacketOut(r) \/ SendPacket(r)
             \/ SendPacketFails(r) \/ Watch(r)
      PROVE  IInv'
  BY <1>2, RequestInv
<1>3. ASSUME NEW r \in Reqs, NEW final \in BOOLEAN, NEW err \in BOOLEAN,
             dispatchPacket(r, final, err)
      PROVE  IInv'
  BY <1>3, DispatchInv
<1>4. CASE \/ \E r \in Reqs : Collect(r) \/ Respond(r)
           \/ SessionClose \/ TransportClose \/ UNCHANGED vars
  BY <1>4, OutsideInv
<1> QED BY <1>1, <1>2, <1>3, <1>4 DEF Next

\* IInv is an invariant of the streams.
THEOREM Invariance == Spec => []IInv
BY InitInv, NextInv, PTL DEF Spec

\* Every variable keeps its type; in particular no channel holds more than
\* its capacity.
THEOREM TypeCorrect == Spec => []TypeOK
<1>1. IInv => TypeOK
  BY DEF IInv
<1> QED BY <1>1, Invariance, PTL

\* The read loop, the watchers and RunQuery never send on a closed chunk
\* channel and never close one twice.
THEOREM PanicFree == Spec => []NoPanic
<1>1. IInv => NoPanic
  <2> SUFFICES ASSUME IInv, NEW w \in Workers, at[w] \in {"push", "shut", "closing"}
               PROVE  ~outClosed[Target(w)]
    BY DEF NoPanic
  <2>1. Target(w) \in Reqs
    BY TargetType
  <2>2. CASE at[w] = "push"
    BY <2>1, <2>2 DEF IInv, Locked, Holds, CloseOrder
  <2>3. CASE at[w] \in {"shut", "closing"}
    BY <2>1, <2>3 DEF IInv, OneCloser, Closer, CloseOrder
  <2> QED BY <2>2, <2>3
<1> QED BY <1>1, Invariance, PTL

----------------------------------------------------------------------------
(* The order of the chunks, and that none is missing.  This invariant      *)
(* rests on IInv: CloseOrder says that a finished stream was closed.       *)

\* What a consumer of stream r has got or will get.
Flow(r) == got[r] \o buf[r]

\* The chunk the read loop is about to send is newer than all of its stream.
Newest ==
  at[Reader] \in {"lock", "push"} =>
    /\ part.chunk.n = emitted[part.req] /\ part.chunk.n # 0
    /\ \A i \in DOMAIN Flow(part.req) : Flow(part.req)[i].n < part.chunk.n

\* Chunks increase, up to the number of parts the proxy has sent.
Increasing ==
  \A r \in Reqs :
    /\ \A i \in DOMAIN Flow(r) : Flow(r)[i].n <= emitted[r]
    /\ \A i, j \in DOMAIN Flow(r) :
         i < j /\ Flow(r)[i].n # 0 /\ Flow(r)[j].n # 0 => Flow(r)[i].n < Flow(r)[j].n

\* An open stream whose request is out is in the table, and a read loop at
\* rest has no part in its hands.
Listed ==
  /\ \A r \in Reqs : r \in wire /\ once[r] = "new" => r \in streams
  /\ \A r \in Reqs : rq[r] = "registered" /\ once[r] = "new" => r \in streams
  /\ at[Reader] = "rest" => part = NoPart

\* Gapless, in terms of Flow.
NoGap ==
  \A r \in Reqs :
    once[r] = "new" /\ r \notin lost =>
      \A n \in 1 .. emitted[r] :
        \/ \E i \in DOMAIN Flow(r) : Flow(r)[i].n = n
        \/ part.req = r /\ part.chunk.n = n

Order == Newest /\ Increasing /\ Listed /\ NoGap

\* A chunk that enters the channel comes last.
LEMMA FlowAppend ==
  ASSUME NEW s \in Seq(Chunks), NEW t \in Seq(Chunks), NEW c \in Chunks
  PROVE  s \o Append(t, c) = Append(s \o t, c)
OBVIOUS

\* A chunk that moves from the channel to the handler keeps its place.
LEMMA FlowMove ==
  ASSUME NEW s \in Seq(Chunks), NEW t \in Seq(Chunks), t # <<>>
  PROVE  Append(s, Head(t)) \o Tail(t) = s \o t
OBVIOUS

\* The part the read loop is sending belongs to a stream.
LEMMA PartReq ==
  ASSUME IInv, at[Reader] # "rest"
  PROVE  part \in Parts /\ part.req \in Reqs /\ part.chunk.n \in Nat
BY StreamsAssumption DEF IInv, Working, Parts, Chunks

\* Flow is a sequence of chunks.
LEMMA FlowType == IInv => \A r \in Reqs : Flow(r) \in Seq(Chunks)
<1> SUFFICES ASSUME IInv, NEW r \in Reqs PROVE Flow(r) \in Seq(Chunks)
  BY ZenonT(60)
<1>1. got[r] \in Seq(Chunks) /\ buf[r] \in Seq(Chunks)
  BY DEF IInv, TypeOK
<1> QED BY <1>1 DEF Flow

\* A step that adds no chunk; a part that leaves the read loop's hands is of a
\* stream that is closed or has lost a chunk.
LEMMA SameFlow ==
  ASSUME IInv, Order, UNCHANGED emitted, lost \subseteq lost',
         \A r \in Reqs : Flow(r)' = Flow(r) /\ (once'[r] = "new" => once[r] = "new"),
         at'[Reader] \in {"lock", "push"} => at[Reader] \in {"lock", "push"} /\ part' = part,
         part' = part \/ \A r \in Reqs : part.req = r => once'[r] # "new" \/ r \in lost'
  PROVE  Newest' /\ Increasing' /\ NoGap'
<1>1. Increasing'
  BY ZenonT(60) DEF Order, Increasing
<1>2. Newest'
  <2> SUFFICES ASSUME at'[Reader] \in {"lock", "push"}
               PROVE  /\ part'.chunk.n = emitted'[part'.req] /\ part'.chunk.n # 0
                      /\ \A i \in DOMAIN Flow(part.req)' : Flow(part.req)'[i].n < part'.chunk.n
    BY DEF Newest
  <2>1. part' = part /\ at[Reader] \in {"lock", "push"}
    OBVIOUS
  <2>2. part.req \in Reqs
    BY ZenonT(60), <2>1, PartReq
  <2>3. Flow(part.req)' = Flow(part.req)
    <3>1. Flow(part.req)' = got'[part'.req] \o buf'[part'.req]
      BY ZenonT(60) DEF Flow
    <3>2. got'[part.req] \o buf'[part.req] = got[part.req] \o buf[part.req]
      BY ZenonT(60), <2>2 DEF Flow
    <3> QED BY <2>1, <3>1, <3>2 DEF Flow
  <2> QED BY ZenonT(60), <2>1, <2>3 DEF Order, Newest
<1>3. NoGap'
  <2> SUFFICES ASSUME NEW r \in Reqs, once'[r] = "new", r \notin lost', NEW n \in 1 .. emitted'[r]
               PROVE  \/ \E i \in DOMAIN Flow(r)' : Flow(r)'[i].n = n
                      \/ part'.req = r /\ part'.chunk.n = n
    BY DEF NoGap
  <2>1. \/ \E i \in DOMAIN Flow(r) : Flow(r)[i].n = n
        \/ part.req = r /\ part.chunk.n = n
    BY DEF Order, NoGap
  <2>2. part.req = r => part' = part
    OBVIOUS
  <2> QED BY <2>1, <2>2
<1> QED BY ZenonT(60), <1>1, <1>2, <1>3

\* The steps of send and close that add no chunk.
LEMMA MoveOrder ==
  ASSUME IInv, Order, NEW w \in Workers,
         SendLock(w) \/ CloseOnce(w) \/ CloseDone(w) \/ CloseOut(w)
  PROVE  Order'
<1> USE StreamsAssumption DEF connVars, httpVars
<1>1. UNCHANGED <<rq, buf, lost, wire, emitted, got>>
  BY DEF SendLock, CloseOnce, CloseDone, CloseOut
<1>2. \A r \in Reqs : Flow(r)' = Flow(r)
  BY <1>1 DEF Flow
<1>3. once \in [Reqs -> {"new", "busy", "spent"}] /\ at \in [Workers -> Places] /\ Reader \in Workers
  BY ZenonT(60) DEF IInv, TypeOK, Workers
<1>4. at[w] \in {"lock", "once", "shut", "closing"} /\ Target(w) \in Reqs
  BY ZenonT(60), TargetType DEF SendLock, CloseOnce, CloseDone, CloseOut
<1>5. \A r \in Reqs : once'[r] = "new" => once[r] = "new"
  BY ZenonT(60), <1>3, <1>4 DEF SendLock, CloseOnce, CloseDone, CloseOut
<1>6. \E place :
        /\ (Goto(w, place) /\ place # "rest") \/ (Rest(w) /\ place = "rest")
        /\ (place \in {"lock", "push"} => at[w] = "lock")
  BY DEF SendLock, CloseOnce, CloseDone, CloseOut, AfterSend
<1>7. PICK place :
        /\ (Goto(w, place) /\ place # "rest") \/ (Rest(w) /\ place = "rest")
        /\ (place \in {"lock", "push"} => at[w] = "lock")
  BY ZenonT(60), <1>6
<1>8. at' = [at EXCEPT ![w] = place] /\ (part' = part \/ (w = Reader /\ Rest(w)))
  BY <1>7 DEF Goto, Rest
<1>9. at'[Reader] \in {"lock", "push"} => at[Reader] \in {"lock", "push"} /\ part' = part
  BY <1>3, <1>7, <1>8 DEF Rest
<1>10. w = Reader /\ part' # part => once'[part.req] # "new"
  <2> SUFFICES ASSUME w = Reader, part' # part PROVE once'[part.req] # "new"
    OBVIOUS
  <2>1. Target(w) = part.req /\ part.req \in Reqs
    BY ZenonT(60), <1>4 DEF Target
  <2>2. CASE SendLock(w)
    BY ZenonT(60), <2>1, <2>2 DEF SendLock, Goto, IInv, CloseOrder
  <2>3. CASE CloseOnce(w)
    BY ZenonT(60), <2>1, <2>3 DEF CloseOnce, Goto
  <2>4. CASE CloseDone(w)
    BY ZenonT(60), <2>4 DEF CloseDone, Goto
  <2>5. CASE CloseOut(w)
    BY ZenonT(60), <1>3, <2>1, <2>5 DEF CloseOut
  <2> QED BY <2>2, <2>3, <2>4, <2>5
<1>11. Newest' /\ Increasing' /\ NoGap'
  BY ZenonT(60), <1>1, <1>2, <1>5, <1>8, <1>9, <1>10, SameFlow
<1>12. \A r \in Reqs : once'[r] = "new" /\ r \in streams => r \in streams'
  BY <1>3, <1>4 DEF SendLock, CloseOnce, CloseDone, CloseOut
<1>13. at'[Reader] = "rest" => part' = NoPart
  <2>1. CASE w = Reader
    <3>1. CASE Rest(w)
      BY <2>1, <3>1 DEF Rest
    <3>2. CASE Goto(w, place) /\ place # "rest"
      BY <1>3, <1>8, <2>1, <3>2
    <3> QED BY <1>7, <3>1, <3>2
  <2>2. CASE w # Reader
    BY ZenonT(60), <1>3, <1>8, <2>2 DEF Order, Listed
  <2> QED BY ZenonT(60), <2>1, <2>2
<1>14. Listed'
  BY ZenonT(60), <1>1, <1>5, <1>12, <1>13 DEF Order, Listed
<1> QED BY ZenonT(60), <1>11, <1>14 DEF Order

\* The send: the chunk is the newest of its stream, or the watcher's.
LEMMA PushOrder ==
  ASSUME IInv, Order, NEW w \in Workers, Push(w)
  PROVE  Order'
<1> USE StreamsAssumption DEF connVars, httpVars
<1> DEFINE r == Target(w)
<1>1. /\ UNCHANGED <<rq, streams, once, wire, emitted, got>>
      /\ at[w] = "push" /\ r \in Reqs /\ AfterSend(w)
  BY TargetType DEF Push
<1>2. /\ at \in [Workers -> Places] /\ Reader \in Workers
      /\ buf \in [Reqs -> Seq(Chunks)] /\ got \in [Reqs -> Seq(Chunks)]
      /\ emitted \in [Reqs -> 0 .. MaxParts]
  BY DEF IInv, TypeOK, Workers
<1>3. PICK place \in {"once", "rest"} :
        /\ at' = [at EXCEPT ![w] = place]
        /\ part' = IF place = "rest" /\ w = Reader THEN NoPart ELSE part
  BY ZenonT(60), <1>1 DEF AfterSend, Goto, Rest
<1>4. Listed'
  <2>1. at'[Reader] = "rest" => part' = NoPart
    <3>1. CASE w = Reader
      BY ZenonT(60), <1>2, <1>3, <3>1
    <3>2. CASE w # Reader
      BY <1>2, <1>3, <3>2 DEF Order, Listed
    <3> QED BY <3>1, <3>2
  <2> QED BY <1>1, <2>1 DEF Order, Listed
<1>5. at'[Reader] \in {"lock", "push"} => w # Reader /\ at[Reader] \in {"lock", "push"} /\ part' = part
  BY <1>2, <1>3
<1>6. CASE lost' = lost \cup {r} /\ UNCHANGED buf
  <2>1. \A x \in Reqs : Flow(x)' = Flow(x)
    BY ZenonT(60), <1>1, <1>6 DEF Flow
  <2>2. part' = part \/ \A x \in Reqs : part.req = x => x \in lost'
    BY ZenonT(60), <1>3, <1>6 DEF Target
  <2>3. Newest' /\ Increasing' /\ NoGap'
    BY <1>1, <1>5, <1>6, <2>1, <2>2, SameFlow
  <2> QED BY <1>4, <2>3 DEF Order
<1>7. CASE buf' = [buf EXCEPT ![r] = Append(buf[r], Item(w))] /\ UNCHANGED lost
  <2> DEFINE c == Item(w)
             k == Len(Flow(r))
  <2>1. c \in Chunks
    BY <1>1, PartReq DEF Item, Parts, Chunks, WatcherChunk
  <2>2. Flow(r) \in Seq(Chunks) /\ got[r] \in Seq(Chunks) /\ buf[r] \in Seq(Chunks)
    BY <1>1, <1>2, FlowType
  <2>3. got'[r] \o buf'[r] = Append(Flow(r), c)
    <3>1. got'[r] = got[r] /\ buf'[r] = Append(buf[r], c)
      BY ZenonT(60), <1>1, <1>2, <1>7
    <3> HIDE DEF c, r
    <3>2. got[r] \o Append(buf[r], c) = Append(got[r] \o buf[r], c)
      BY ZenonT(60), <2>1, <2>2, FlowAppend
    <3> QED BY <3>1, <3>2 DEF Flow
  <2>4. \A x \in Reqs \ {r} : Flow(x)' = Flow(x)
    BY <1>1, <1>2, <1>7 DEF Flow
  <2> HIDE DEF c, r
  <2>5. \A x \in Reqs : x = r => Flow(x)' = Append(Flow(r), c)
    BY ZenonT(60), <2>3 DEF Flow
  <2>6. /\ k \in Nat /\ DOMAIN Flow(r) = 1 .. k
        /\ DOMAIN Append(Flow(r), c) = 1 .. k + 1
        /\ Append(Flow(r), c)[k + 1] = c
        /\ \A i \in 1 .. k : Append(Flow(r), c)[i] = Flow(r)[i]
    BY <2>1, <2>2
  <2> HIDE DEF k
  <2>7. c.n <= emitted[r] /\ c.n \in Nat /\ emitted[r] \in Nat
    <3>1. CASE w = Reader
      BY SMTT(60), <1>1, <1>2, <2>1, <3>1 DEF c, r, Item, Target, Order, Newest, Chunks
    <3>2. CASE w # Reader
      BY <1>1, <1>2, <3>2 DEF c, Item, WatcherChunk
    <3> QED BY ZenonT(60), <3>1, <3>2
  <2>8. c.n = 0 \/ \A i \in 1 .. k : Flow(r)[i].n < c.n
    <3>1. CASE w = Reader
      BY ZenonT(60), <1>1, <2>6, <3>1 DEF c, r, Item, Target, Order, Newest
    <3>2. CASE w # Reader
      BY ZenonT(60), <3>2 DEF c, Item, WatcherChunk
    <3> QED BY ZenonT(60), <3>1, <3>2
  <2>9. Increasing'
    <3>1. ASSUME NEW x \in Reqs, x # r
          PROVE  /\ \A i \in DOMAIN Flow(x)' : Flow(x)'[i].n <= emitted'[x]
                 /\ \A i, j \in DOMAIN Flow(x)' :
                      i < j /\ Flow(x)'[i].n # 0 /\ Flow(x)'[j].n # 0 => Flow(x)'[i].n < Flow(x)'[j].n
      <4>1. Flow(x)' = Flow(x) /\ emitted' = emitted
        BY ZenonT(60), <1>1, <2>4, <3>1
      <4> QED BY <4>1 DEF Order, Increasing
    <3> DEFINE F == Append(Flow(r), c)
    <3>2. \A i \in DOMAIN F : F[i].n <= emitted[r]
      <4> SUFFICES ASSUME NEW i \in 1 .. k + 1 PROVE F[i].n <= emitted[r]
        BY <2>6
      <4>1. i \in 1 .. k \/ i = k + 1
        BY <2>6
      <4>2. CASE i = k + 1
        BY ZenonT(60), <2>6, <2>7, <4>2
      <4>3. CASE i \in 1 .. k
        BY <1>1, <2>6, <4>3 DEF Order, Increasing
      <4> QED BY ZenonT(60), <4>1, <4>2, <4>3
    <3>3. ASSUME NEW i \in 1 .. k + 1, NEW j \in 1 .. k + 1, i < j, F[i].n # 0, F[j].n # 0
          PROVE  F[i].n < F[j].n
      <4>1. i \in 1 .. k /\ (j \in 1 .. k \/ j = k + 1)
        BY SMTT(60), <2>6, <3>3
      <4>2. CASE j \in 1 .. k
        BY ZenonT(60), <1>1, <2>6, <3>3, <4>1, <4>2 DEF Order, Increasing
      <4>3. CASE j = k + 1
        BY ZenonT(60), <2>6, <2>8, <3>3, <4>1, <4>3
      <4> QED BY ZenonT(60), <4>1, <4>2, <4>3
    <3> HIDE DEF F
    <3>4. ASSUME NEW x \in Reqs, x = r
          PROVE  /\ \A i \in DOMAIN Flow(x)' : Flow(x)'[i].n <= emitted'[x]
                 /\ \A i, j \in DOMAIN Flow(x)' :
                      i < j /\ Flow(x)'[i].n # 0 /\ Flow(x)'[j].n # 0 => Flow(x)'[i].n < Flow(x)'[j].n
      <4>1. Flow(x)' = F /\ emitted'[x] = emitted[r] /\ DOMAIN F = 1 .. k + 1
        BY ZenonT(60), <1>1, <2>5, <2>6, <3>4 DEF F
      <4> QED BY ZenonT(60), <3>2, <3>3, <4>1
    <3> QED BY ZenonT(60), <3>1, <3>4 DEF Increasing
  <2>10. Newest'
    <3> SUFFICES ASSUME at'[Reader] \in {"lock", "push"}
                 PROVE  /\ part'.chunk.n = emitted'[part'.req] /\ part'.chunk.n # 0
                        /\ \A i \in DOMAIN Flow(part.req)' : Flow(part.req)'[i].n < part'.chunk.n
      BY DEF Newest
    <3>1. w # Reader /\ at[Reader] \in {"lock", "push"} /\ part' = part
      BY <1>5
    <3>2. part.req \in Reqs /\ part.chunk.n \in Nat
      BY ZenonT(60), <3>1, PartReq
    <3>3. /\ part.chunk.n = emitted[part.req] /\ part.chunk.n # 0
          /\ \A i \in DOMAIN Flow(part.req) : Flow(part.req)[i].n < part.chunk.n
      BY ZenonT(60), <3>1 DEF Order, Newest
    <3>4. c.n = 0
      BY <3>1 DEF c, Item, WatcherChunk
    <3> DEFINE q == part.req
               G == got'[q] \o buf'[q]
    <3>5. Flow(part.req)' = G
      BY ZenonT(60), <3>1 DEF Flow
    <3>6. \A i \in DOMAIN G : G[i].n < part.chunk.n
      <4>1. CASE q # r
        <5>1. G = Flow(q)
          BY ZenonT(60), <2>4, <3>2, <4>1 DEF Flow
        <5> QED BY <3>3, <5>1
      <4>2. CASE q = r
        <5>1. G = Append(Flow(r), c)
          BY ZenonT(60), <2>3, <4>2 DEF r
        <5>2. \A i \in 1 .. k : Flow(r)[i].n < part.chunk.n
          BY ZenonT(60), <2>6, <3>3, <4>2
        <5>3. 0 < part.chunk.n
          BY SMTT(60), <3>2, <3>3
        <5> HIDE DEF G, q
        <5>4. ASSUME NEW i \in 1 .. k + 1 PROVE G[i].n < part.chunk.n
          <6>1. i \in 1 .. k \/ i = k + 1
            BY SMTT(60), <2>6
          <6> QED BY ZenonT(60), <2>6, <3>4, <5>1, <5>2, <5>3, <6>1
        <5> QED BY <2>6, <5>1, <5>4
      <4> QED BY ZenonT(60), <4>1, <4>2
    <3> HIDE DEF G
    <3> QED BY ZenonT(60), <1>1, <3>1, <3>3, <3>5, <3>6
  <2>11. NoGap'
    <3> SUFFICES ASSUME NEW x \in Reqs, once'[x] = "new", x \notin lost', NEW n \in 1 .. emitted'[x]
                 PROVE  \/ \E i \in DOMAIN Flow(x)' : Flow(x)'[i].n = n
                        \/ part'.req = x /\ part'.chunk.n = n
      BY ZenonT(60) DEF NoGap
    <3>1. \/ \E i \in DOMAIN Flow(x) : Flow(x)[i].n = n
          \/ part.req = x /\ part.chunk.n = n
      BY ZenonT(60), <1>1, <1>7 DEF Order, NoGap
    <3>2. CASE x # r
      <4>1. Flow(x)' = Flow(x)
        BY <2>4, <3>2
      <4>2. part.req = x => part' = part
        BY ZenonT(60), <1>3, <3>2 DEF r, Target
      <4> QED BY <3>1, <4>1, <4>2
    <3>3. CASE x = r
      <4>1. Flow(x)' = Append(Flow(r), c)
        BY ZenonT(60), <2>5, <3>3
      <4>2. ASSUME NEW i \in DOMAIN Flow(r), Flow(r)[i].n = n
            PROVE  \E j \in DOMAIN Flow(x)' : Flow(x)'[j].n = n
        <5>1. i \in 1 .. k /\ i \in 1 .. k + 1
          BY SMTT(60), <2>6
        <5> QED BY ZenonT(60), <2>6, <4>1, <4>2, <5>1
      <4>3. CASE w = Reader /\ part.chunk.n = n
        <5>1. c.n = n /\ k + 1 \in 1 .. k + 1
          BY SMTT(60), <2>6, <4>3 DEF c, Item
        <5> QED BY ZenonT(60), <2>6, <4>1, <5>1
      <4>4. CASE w # Reader
        BY <1>3, <3>1, <3>3, <4>2, <4>4
      <4> QED BY ZenonT(60), <3>1, <3>3, <4>2, <4>3, <4>4
    <3> QED BY ZenonT(60), <3>2, <3>3
  <2> QED BY ZenonT(60), <1>4, <2>9, <2>10, <2>11 DEF Order
<1> QED BY ZenonT(60), <1>6, <1>7 DEF Push

\* RunQuery, its watcher and the connection add no chunk.
LEMMA RequestOrder ==
  ASSUME IInv, Order, NEW r \in Reqs,
         \/ RunQuery(r) \/ RunQueryRefused(r) \/ PacketOut(r) \/ SendPacket(r)
         \/ SendPacketFails(r) \/ Watch(r)
  PROVE  Order'
<1> USE StreamsAssumption DEF connVars, httpVars, streamVars
<1>1. UNCHANGED <<buf, got, once, lost, part, emitted>>
  BY ZenonT(60) DEF RunQuery, RunQueryRefused, PacketOut, SendPacket, SendPacketFails, Watch, Goto
<1>2. at' = at \/ \E place : at' = [at EXCEPT ![r] = place]
  BY DEF RunQuery, RunQueryRefused, PacketOut, SendPacket, SendPacketFails, Watch, Goto
<1>3. at'[Reader] = at[Reader]
  <2>1. at \in [Workers -> Places] /\ Reader \in Workers /\ Reader # r
    BY DEF IInv, TypeOK, Workers
  <2> QED BY ZenonT(60), <1>2, <2>1
<1>4. \A x \in Reqs : Flow(x)' = Flow(x)
  BY ZenonT(60), <1>1 DEF Flow
<1>5. Newest' /\ Increasing' /\ NoGap'
  BY ZenonT(60), <1>1, <1>3, <1>4, SameFlow
<1>6. rq \in [Reqs -> {"idle", "registered", "running", "ended", "failed", "refused"}]
  BY ZenonT(60) DEF IInv, TypeOK
<1>7. /\ \A x \in Reqs : x \in wire' /\ once[x] = "new" => x \in streams'
      /\ \A x \in Reqs : rq'[x] = "registered" /\ once[x] = "new" => x \in streams'
  <2>1. CASE RunQuery(r)
    BY ZenonT(60), <1>6, <2>1 DEF RunQuery, Order, Listed
  <2>2. CASE PacketOut(r)
    BY ZenonT(60), <2>2 DEF PacketOut, Order, Listed
  <2>3. CASE RunQueryRefused(r) \/ SendPacket(r) \/ SendPacketFails(r) \/ Watch(r)
    <3>1. UNCHANGED <<wire, streams>>
      BY ZenonT(60), <2>3 DEF RunQueryRefused, SendPacket, SendPacketFails, Watch
    <3>2. \A x \in Reqs : rq'[x] = "registered" => rq[x] = "registered"
      BY ZenonT(60), <1>6, <2>3 DEF RunQueryRefused, SendPacket, SendPacketFails, Watch
    <3> QED BY ZenonT(60), <3>1, <3>2 DEF Order, Listed
  <2> QED BY ZenonT(60), <2>1, <2>2, <2>3
<1>8. Listed'
  BY ZenonT(60), <1>1, <1>3, <1>7 DEF Order, Listed
<1> QED BY ZenonT(60), <1>5, <1>8 DEF Order

\* A handler that takes a chunk out of the channel, answers, or waits leaves
\* the flow of every stream as it is.
LEMMA FlowKept ==
  ASSUME IInv,
         \/ \E r \in Reqs : Collect(r) \/ Respond(r)
         \/ SessionClose \/ TransportClose \/ UNCHANGED vars
  PROVE  \A x \in Reqs : Flow(x)' = Flow(x)
<1> USE DEF connVars, httpVars, streamVars
<1>1. CASE UNCHANGED <<buf, got>>
  BY <1>1 DEF Flow
<1>2. ASSUME NEW r \in Reqs, Collect(r), NEW x \in Reqs
      PROVE  got'[x] \o buf'[x] = got[x] \o buf[x]
  <2>1. buf \in [Reqs -> Seq(Chunks)] /\ got \in [Reqs -> Seq(Chunks)]
    BY ZenonT(60) DEF IInv, TypeOK
  <2>2. /\ buf[r] # <<>>
        /\ got' = [got EXCEPT ![r] = Append(got[r], Head(buf[r]))]
        /\ buf' = [buf EXCEPT ![r] = Tail(buf[r])]
    BY <1>2 DEF Collect
  <2>3. got[r] \in Seq(Chunks) /\ buf[r] \in Seq(Chunks)
    BY <2>1
  <2>4. Append(got[r], Head(buf[r])) \o Tail(buf[r]) = got[r] \o buf[r]
    BY ZenonT(60), <2>2, <2>3, FlowMove
  <2>5. CASE x = r
    <3>1. got'[x] = Append(got[r], Head(buf[r])) /\ buf'[x] = Tail(buf[r])
      BY ZenonT(60), <2>1, <2>2, <2>5
    <3> QED BY ZenonT(60), <2>4, <2>5, <3>1
  <2>6. CASE x # r
    <3>1. got'[x] = got[x] /\ buf'[x] = buf[x]
      BY <2>1, <2>2, <2>6
    <3> QED BY <3>1
  <2> QED BY ZenonT(60), <2>5, <2>6
<1>3. CASE \E r \in Reqs : Collect(r)
  BY ZenonT(60), <1>2, <1>3 DEF Flow
<1> QED BY ZenonT(60), <1>1, <1>3 DEF Respond, SessionClose, TransportClose, vars

\* The handlers only move chunks along, the connection touches none.
LEMMA OutsideOrder ==
  ASSUME IInv, Order,
         \/ \E r \in Reqs : Collect(r) \/ Respond(r)
         \/ SessionClose \/ TransportClose \/ UNCHANGED vars
  PROVE  Order'
<1> USE DEF connVars, httpVars, streamVars
<1>1. UNCHANGED <<rq, streams, once, lost, at, part, wire, emitted>>
  BY ZenonT(60) DEF Collect, Respond, SessionClose, TransportClose, vars
<1>2. \A x \in Reqs : Flow(x)' = Flow(x)
  BY ZenonT(60), FlowKept
<1>3. Newest' /\ Increasing' /\ NoGap'
  BY ZenonT(60), <1>1, <1>2, SameFlow
<1>4. Listed'
  BY <1>1 DEF Order, Listed
<1> QED BY ZenonT(60), <1>3, <1>4 DEF Order

\* dispatchPacket takes up the next part, and drops it only if its stream is
\* closed.
LEMMA DispatchOrder ==
  ASSUME IInv, Order, NEW r \in Reqs, NEW final \in BOOLEAN, NEW err \in BOOLEAN,
         dispatchPacket(r, final, err)
  PROVE  Order'
<1> USE StreamsAssumption DEF connVars, httpVars, streamVars
<1> DEFINE p == [req |-> r, chunk |-> [n |-> emitted[r] + 1, final |-> final, err |-> err]]
<1>1. /\ UNCHANGED <<rq, streams, buf, once, lost, wire, got>>
      /\ at[Reader] = "rest" /\ r \in wire
      /\ emitted' = [emitted EXCEPT ![r] = emitted[r] + 1]
      /\ IF r \in streams THEN at' = [at EXCEPT ![Reader] = "lock"] /\ part' = p
                          ELSE UNCHANGED <<at, part>>
  BY ZenonT(60) DEF dispatchPacket
<1>2. /\ at \in [Workers -> Places] /\ Reader \in Workers
      /\ emitted \in [Reqs -> 0 .. MaxParts]
  BY ZenonT(60) DEF IInv, TypeOK, Workers
<1>3. \A x \in Reqs : emitted[x] \in Nat /\ emitted[x] <= emitted'[x] /\ emitted'[x] \in Nat
  BY SMTT(60), <1>1, <1>2
<1>4. emitted'[r] = emitted[r] + 1 /\ \A x \in Reqs \ {r} : emitted'[x] = emitted[x]
  BY ZenonT(60), <1>1, <1>2
<1>5. part = NoPart /\ part.req = Nobody
  BY SMTT(60), <1>1 DEF Order, Listed, NoPart
<1>6. \A x \in Reqs : Flow(x)' = Flow(x)
  BY ZenonT(60), <1>1 DEF Flow
<1>7. \A x \in Reqs : \A i \in DOMAIN Flow(x) : Flow(x)[i].n \in Nat
  <2> SUFFICES ASSUME NEW x \in Reqs, NEW i \in DOMAIN Flow(x) PROVE Flow(x)[i].n \in Nat
    OBVIOUS
  <2>1. Flow(x) \in Seq(Chunks)
    BY FlowType
  <2>2. Flow(x)[i] \in Chunks
    BY SMTT(60), <2>1
  <2> QED BY SMTT(60), <2>2 DEF Chunks
<1>8. Increasing'
  <2> SUFFICES ASSUME NEW x \in Reqs
               PROVE  /\ \A i \in DOMAIN Flow(x)' : Flow(x)'[i].n <= emitted'[x]
                      /\ \A i, j \in DOMAIN Flow(x)' :
                           i < j /\ Flow(x)'[i].n # 0 /\ Flow(x)'[j].n # 0 => Flow(x)'[i].n < Flow(x)'[j].n
    BY DEF Increasing
  <2>1. Flow(x)' = Flow(x)
    BY ZenonT(60), <1>6
  <2>2. \A i \in DOMAIN Flow(x) : Flow(x)[i].n <= emitted'[x]
    BY <1>3, <1>7 DEF Order, Increasing
  <2> QED BY ZenonT(60), <2>1, <2>2 DEF Order, Increasing
<1>9. CASE r \in streams
  <2>1. p.req = r /\ p.chunk.n = emitted[r] + 1
    OBVIOUS
  <2> HIDE DEF p
  <2>2. part' = p /\ at'[Reader] = "lock"
    BY ZenonT(60), <1>1, <1>2, <1>9
  <2>3. Newest'
    <3>1. \A i \in DOMAIN Flow(r) : Flow(r)[i].n < emitted[r] + 1
      <4>1. \A i \in DOMAIN Flow(r) : Flow(r)[i].n <= emitted[r] /\ Flow(r)[i].n \in Nat
        BY ZenonT(60), <1>7 DEF Order, Increasing
      <4> QED BY SMTT(60), <1>3, <4>1
    <3>2. Flow(part.req)' = Flow(r)
      BY ZenonT(60), <1>1, <2>1, <2>2 DEF Flow
    <3>3. part'.chunk.n = emitted'[part'.req] /\ part'.chunk.n # 0
      BY SMTT(60), <1>3, <1>4, <2>1, <2>2
    <3>4. \A i \in DOMAIN Flow(part.req)' : Flow(part.req)'[i].n < part'.chunk.n
      BY ZenonT(60), <2>1, <2>2, <3>1, <3>2
    <3> QED BY ZenonT(60), <3>3, <3>4 DEF Newest
  <2>4. NoGap'
    <3> SUFFICES ASSUME NEW x \in Reqs, once'[x] = "new", x \notin lost', NEW n \in 1 .. emitted'[x]
                 PROVE  \/ \E i \in DOMAIN Flow(x)' : Flow(x)'[i].n = n
                        \/ part'.req = x /\ part'.chunk.n = n
      BY ZenonT(60) DEF NoGap
    <3>1. Flow(x)' = Flow(x)
      BY ZenonT(60), <1>6
    <3>2. n \in 1 .. emitted[x] => \E i \in DOMAIN Flow(x) : Flow(x)[i].n = n
      BY SMTT(60), <1>1, <1>5 DEF Order, NoGap
    <3>3. n \in 1 .. emitted[x] \/ (x = r /\ n = emitted[r] + 1)
      BY SMTT(60), <1>3, <1>4
    <3> QED BY ZenonT(60), <2>1, <2>2, <3>1, <3>2, <3>3
  <2>5. Listed'
    BY ZenonT(60), <1>1, <2>2 DEF Order, Listed
  <2> QED BY ZenonT(60), <1>8, <2>3, <2>4, <2>5 DEF Order
<1>10. CASE r \notin streams
  <2>1. once[r] # "new" /\ UNCHANGED <<at, part>>
    BY ZenonT(60), <1>1, <1>10 DEF Order, Listed
  <2>2. Newest'
    BY ZenonT(60), <1>1, <2>1 DEF Newest
  <2>3. NoGap'
    <3> SUFFICES ASSUME NEW x \in Reqs, once'[x] = "new", x \notin lost', NEW n \in 1 .. emitted'[x]
                 PROVE  \E i \in DOMAIN Flow(x)' : Flow(x)'[i].n = n
      BY ZenonT(60) DEF NoGap
    <3>1. x # r /\ Flow(x)' = Flow(x) /\ emitted'[x] = emitted[x]
      BY ZenonT(60), <1>1, <1>4, <1>6, <2>1
    <3> QED BY SMTT(60), <1>1, <1>5, <3>1 DEF Order, NoGap
  <2>4. Listed'
    BY ZenonT(60), <1>1, <2>1 DEF Order, Listed
  <2> QED BY <1>8, <2>2, <2>3, <2>4 DEF Order
<1> QED BY ZenonT(60), <1>9, <1>10

\* Order holds initially.
LEMMA InitOrder == Init => Order
<1> SUFFICES ASSUME Init PROVE Order
  OBVIOUS
<1>1. \A r \in Reqs : got[r] = <<>> /\ buf[r] = <<>> /\ emitted[r] = 0 /\ rq[r] = "idle"
  BY ZenonT(60) DEF Init
<1>2. \A r \in Reqs : DOMAIN Flow(r) = {}
  <2>1. <<>> \o <<>> = <<>> /\ DOMAIN <<>> = {}
    OBVIOUS
  <2> QED BY ZenonT(60), <1>1, <2>1 DEF Flow
<1>3. at[Reader] = "rest" /\ part = NoPart /\ wire = {}
  BY DEF Init, Workers
<1>4. \A r \in Reqs : 1 .. emitted[r] = {}
  <2>1. 1 .. 0 = {}
    OBVIOUS
  <2> QED BY ZenonT(60), <1>1, <2>1
<1> QED BY ZenonT(60), <1>1, <1>2, <1>3, <1>4 DEF Order, Newest, Increasing, Listed, NoGap

\* Every step preserves Order.
LEMMA NextOrder == IInv /\ Order /\ [Next]_vars => Order'
<1> SUFFICES ASSUME IInv, Order, [Next]_vars PROVE Order'
  OBVIOUS
<1>1. ASSUME NEW w \in Workers,
             SendLock(w) \/ Push(w) \/ CloseOnce(w) \/ CloseDone(w) \/ CloseOut(w)
      PROVE  Order'
  BY <1>1, MoveOrder, PushOrder
<1>2. ASSUME NEW r \in Reqs,
             \/ RunQuery(r) \/ RunQueryRefused(r) \/ PacketOut(r) \/ SendPacket(r)
             \/ SendPacketFails(r) \/ Watch(r)
      PROVE  Order'
  BY <1>2, RequestOrder
<1>3. ASSUME NEW r \in Reqs, NEW final \in BOOLEAN, NEW err \in BOOLEAN,
             dispatchPacket(r, final, err)
      PROVE  Order'
  BY <1>3, DispatchOrder
<1>4. CASE \/ \E r \in Reqs : Collect(r) \/ Respond(r)
           \/ SessionClose \/ TransportClose \/ UNCHANGED vars
  BY <1>4, OutsideOrder
<1> QED BY <1>1, <1>2, <1>3, <1>4 DEF Next

\* What Delivered lists are the numbers of Flow.
LEMMA DeliveredFlow ==
  \A r : /\ DOMAIN Delivered(r) = DOMAIN Flow(r)
         /\ \A i \in DOMAIN Flow(r) : Delivered(r)[i] = Flow(r)[i].n
BY ZenonT(60) DEF Delivered, Flow

\* dispatchPacket and send deliver the parts of each stream in the order the
\* proxy sent them, none of them twice, whatever the watchers do meanwhile.
THEOREM Ordered == Spec => []InOrder
<1>1. Order => InOrder
  BY ZenonT(60), DeliveredFlow DEF Order, Increasing, InOrder
<1> QED BY <1>1, InitInv, NextInv, InitOrder, NextOrder, PTL DEF Spec

\* RunQuery registers its stream before it sends: no part of an open stream is
\* missing unless the channel was full.
THEOREM NoneMissing == Spec => []Gapless
<1>1. Order => Gapless
  BY SMTT(60), DeliveredFlow DEF Order, NoGap, Gapless
<1> QED BY <1>1, InitInv, NextInv, InitOrder, NextOrder, PTL DEF Spec

----------------------------------------------------------------------------
(* A translated response carries the whole answer.  The chunks of a stream *)
(* that lost nothing and carries no error are the parts 1, 2, 3 and so on; *)
(* whoever closes it has sent a final chunk first, unless RunQuery failed; *)
(* and an answered stream has nothing left to deliver.                     *)

Sound(r) == r \notin lost /\ \A i \in DOMAIN Flow(r) : ~Flow(r)[i].err

\* The read loop is about to send a part of stream r.
InHand(r) == at[Reader] \in {"lock", "push"} /\ part.req = r

Counted(r) ==
  Sound(r) =>
    /\ \A i \in DOMAIN Flow(r) : Flow(r)[i].n = i
    /\ InHand(r) => part.chunk.n = Len(Flow(r)) + 1
    /\ ~InHand(r) /\ once[r] = "new" => emitted[r] = Len(Flow(r))

Closing(r) == once[r] # "new" \/ \E w \in Workers : at[w] = "once" /\ Target(w) = r

HasFinal(r) == \E i \in DOMAIN Flow(r) : Flow(r)[i].final

Ended(r) == Closing(r) /\ rq[r] # "failed" /\ r \notin lost => HasFinal(r)

Answered(r) ==
  resp[r] = "ok" /\ r \in Translating =>
    Returned(r) /\ outClosed[r] /\ buf[r] = <<>> /\ ~SawError(r)

\* A stream in the table is open; a call that has not begun has left no trace.
Fresh(r) ==
  /\ r \in streams => once[r] = "new"
  /\ rq[r] = "idle" => once[r] = "new" /\ at[r] = "rest" /\ r \notin wire /\ part.req # r

Whole == \A r \in Reqs : Counted(r) /\ Ended(r) /\ Answered(r) /\ Fresh(r)

\* Counted survives a step that adds no chunk to stream r and takes none from
\* the read loop's hands while the stream is open.
LEMMA CountedSame ==
  ASSUME NEW r, Counted(r), Flow(r)' = Flow(r), emitted'[r] = emitted[r], lost \subseteq lost',
         once'[r] = "new" => once[r] = "new",
         InHand(r)' => InHand(r) /\ part' = part,
         ~InHand(r)' /\ once'[r] = "new" /\ r \notin lost' => ~InHand(r)
  PROVE  Counted(r)'
<1> SUFFICES ASSUME Sound(r)'
             PROVE  /\ \A i \in DOMAIN Flow(r)' : Flow(r)'[i].n = i
                    /\ InHand(r)' => part'.chunk.n = Len(Flow(r)') + 1
                    /\ ~InHand(r)' /\ once'[r] = "new" => emitted'[r] = Len(Flow(r)')
  BY ZenonT(60) DEF Counted
<1>1. Sound(r) /\ r \notin lost'
  BY ZenonT(60) DEF Sound
<1>2. /\ \A i \in DOMAIN Flow(r) : Flow(r)[i].n = i
      /\ InHand(r) => part.chunk.n = Len(Flow(r)) + 1
      /\ ~InHand(r) /\ once[r] = "new" => emitted[r] = Len(Flow(r))
  BY ZenonT(60), <1>1 DEF Counted
<1> QED BY ZenonT(60), <1>1, <1>2

\* Ended survives a step that adds no chunk and brings nobody to close.
LEMMA EndedSame ==
  ASSUME NEW r, Ended(r), Flow(r)' = Flow(r), lost \subseteq lost',
         rq'[r] # "failed" => rq[r] # "failed" /\ (Closing(r)' => Closing(r))
  PROVE  Ended(r)'
BY DEF Ended, HasFinal

\* The steps of send and close that add no chunk.
LEMMA MoveWhole ==
  ASSUME IInv, Whole, NEW w \in Workers,
         SendLock(w) \/ CloseOnce(w) \/ CloseDone(w) \/ CloseOut(w)
  PROVE  Whole'
<1> USE DEF connVars, httpVars
<1>1. UNCHANGED <<rq, buf, lost, wire, emitted, got, resp>>
  BY DEF SendLock, CloseOnce, CloseDone, CloseOut
<1>2. \A r \in Reqs : Flow(r)' = Flow(r)
  BY ZenonT(60), <1>1 DEF Flow
<1>3. /\ once \in [Reqs -> {"new", "busy", "spent"}] /\ at \in [Workers -> Places]
      /\ outClosed \in [Reqs -> BOOLEAN] /\ Reader \in Workers /\ Reader \notin Reqs
  BY ZenonT(60), StreamsAssumption DEF IInv, TypeOK, Workers
<1>4. at[w] \in {"lock", "once", "shut", "closing"} /\ Target(w) \in Reqs
  BY ZenonT(60), TargetType DEF SendLock, CloseOnce, CloseDone, CloseOut
<1>5. \A r \in Reqs : once'[r] = "new" => once[r] = "new"
  BY ZenonT(60), <1>3, <1>4 DEF SendLock, CloseOnce, CloseDone, CloseOut
<1>6. PICK place \in Places :
        /\ Goto(w, place) \/ (Rest(w) /\ place = "rest")
        /\ at' = [at EXCEPT ![w] = place]
        /\ place = "lock" => FALSE
        /\ place = "push" => at[w] = "lock"
        /\ place = "once" => at[w] = "lock" /\ done[Target(w)]
        /\ at[w] = "lock" /\ place # "push" => done[Target(w)]
  BY ZenonT(60), <1>4 DEF SendLock, CloseOnce, CloseDone, CloseOut, AfterSend, Goto, Rest, Places
<1>7. /\ \A v \in Workers : v # w => at'[v] = at[v] /\ Target(v)' = Target(v)
      /\ at'[w] # "rest" => Target(w)' = Target(w)
      /\ at'[w] = place
  BY ZenonT(60), <1>3, <1>6, MoveTypes
<1>8. \A r \in Reqs : done[r] => once[r] # "new"
  BY ZenonT(60) DEF IInv, CloseOrder
<1>9. \A r \in Reqs : Closing(r)' => Closing(r)
  <2> SUFFICES ASSUME NEW r \in Reqs, Closing(r)', once[r] = "new" PROVE Closing(r)
    BY ZenonT(60) DEF Closing
  <2>1. CASE once'[r] # "new"
    <3>1. Target(w) = r
      BY ZenonT(60), <1>3, <1>4, <2>1 DEF SendLock, CloseOnce, CloseDone, CloseOut
    <3>2. CASE CloseOnce(w)
      BY ZenonT(60), <3>1, <3>2 DEF CloseOnce, Closing
    <3>3. CASE CloseOut(w)
      BY ZenonT(60), <3>1, <3>3 DEF CloseOut, IInv, OneCloser, Closer
    <3>4. CASE SendLock(w) \/ CloseDone(w)
      BY <2>1, <3>4 DEF SendLock, CloseDone
    <3> QED BY ZenonT(60), <3>2, <3>3, <3>4
  <2>2. ASSUME NEW v \in Workers, at'[v] = "once", Target(v)' = r PROVE Closing(r)
    <3>1. CASE v = w
      BY ZenonT(60), <1>4, <1>6, <1>7, <1>8, <2>2, <3>1
    <3>2. CASE v # w
      BY ZenonT(60), <1>7, <2>2, <3>2 DEF Closing
    <3> QED BY ZenonT(60), <3>1, <3>2
  <2> QED BY ZenonT(60), <2>1, <2>2 DEF Closing
<1>10. part' = part \/ (w = Reader /\ at'[Reader] = "rest")
  BY ZenonT(60), <1>6, <1>7 DEF Goto, Rest
<1>11. \A r \in Reqs : InHand(r)' => InHand(r) /\ part' = part
  BY ZenonT(60), <1>3, <1>6, <1>7, <1>10 DEF InHand
<1>12. \A r \in Reqs : ~InHand(r)' /\ once'[r] = "new" => ~InHand(r)
  <2> SUFFICES ASSUME NEW r \in Reqs, InHand(r), ~InHand(r)' PROVE once'[r] # "new"
    OBVIOUS
  <2>1. w = Reader
    BY ZenonT(60), <1>3, <1>7, <1>10 DEF InHand
  <2>2. Target(w) = r /\ at[w] = "lock"
    BY ZenonT(60), <1>4, <2>1 DEF InHand, Target
  <2>3. place # "push"
    BY ZenonT(60), <1>6, <1>7, <1>10, <2>1, <2>2 DEF InHand
  <2> QED BY ZenonT(60), <1>4, <1>5, <1>6, <1>8, <2>2, <2>3
<1>13. \A r \in Reqs : Counted(r)'
  BY ZenonT(60), <1>1, <1>2, <1>5, <1>11, <1>12, CountedSame DEF Whole
<1>14. \A r \in Reqs : Ended(r)'
  BY ZenonT(60), <1>1, <1>2, <1>9, EndedSame DEF Whole
<1>15. \A r \in Reqs : outClosed[r] => outClosed'[r]
  BY ZenonT(60), <1>3, <1>4 DEF SendLock, CloseOnce, CloseDone, CloseOut
<1>16. \A r \in Reqs : Answered(r)'
  BY ZenonT(60), <1>1, <1>15 DEF Whole, Answered, Returned, SawError
<1>17. ASSUME NEW r \in Reqs PROVE Fresh(r)'
  <2>1. ASSUME r \in streams' PROVE once'[r] = "new"
    <3>1. r \in streams /\ once[r] = "new"
      BY ZenonT(60), <1>17, <2>1 DEF SendLock, CloseOnce, CloseDone, CloseOut, Whole, Fresh
    <3>2. CASE SendLock(w) \/ CloseDone(w)
      BY ZenonT(60), <3>1, <3>2 DEF SendLock, CloseDone
    <3>3. CASE CloseOnce(w)
      BY ZenonT(60), <1>3, <1>4, <2>1, <3>1, <3>3 DEF CloseOnce
    <3>4. CASE CloseOut(w)
      <4>1. once[Target(w)] = "busy"
        BY ZenonT(60), <1>4, <3>4 DEF CloseOut, IInv, OneCloser, Closer
      <4> QED BY ZenonT(60), <1>3, <1>4, <3>1, <3>4, <4>1 DEF CloseOut
    <3> QED BY ZenonT(60), <3>2, <3>3, <3>4
  <2>2. ASSUME rq'[r] = "idle" PROVE once'[r] = "new" /\ at'[r] = "rest" /\ r \notin wire' /\ part'.req # r
    <3>1. once[r] = "new" /\ at[r] = "rest" /\ r \notin wire /\ part.req # r
      BY ZenonT(60), <1>1, <1>17, <2>2 DEF Whole, Fresh
    <3>2. w # r /\ Target(w) # r
      BY ZenonT(60), <1>4, <3>1 DEF Target
    <3>3. once'[r] = once[r]
      BY ZenonT(60), <1>3, <1>4, <3>2 DEF SendLock, CloseOnce, CloseDone, CloseOut
    <3>4. at'[r] = at[r]
      BY ZenonT(60), <1>7, <3>2 DEF Workers
    <3>5. part' = part \/ part' = NoPart
      BY <1>6 DEF Goto, Rest
    <3>6. NoPart.req # r
      BY StreamsAssumption DEF NoPart
    <3> QED BY ZenonT(60), <1>1, <3>1, <3>3, <3>4, <3>5, <3>6
  <2> QED BY <2>1, <2>2 DEF Fresh
<1> QED BY ZenonT(60), <1>13, <1>14, <1>16, <1>17 DEF Whole

\* The send: the chunk in hand is the next of its stream, the watcher's
\* carries an error, and a final one is in the channel before its sender
\* goes on to close.
LEMMA PushWhole ==
  ASSUME IInv, Order, Whole, NEW w \in Workers, Push(w)
  PROVE  Whole'
<1> USE DEF connVars, httpVars
<1>a. /\ UNCHANGED <<rq, streams, outClosed, once, wire, emitted, got, resp>>
      /\ at[w] = "push" /\ AfterSend(w)
  BY DEF Push
<1>b. Item(w) \in Chunks
  <2>1. CASE w = Reader
    BY ZenonT(60), <1>a, <2>1, PartReq DEF Item, Parts
  <2>2. CASE w # Reader
    BY StreamsAssumption, <2>2 DEF Item, Chunks, WatcherChunk
  <2> QED BY <2>1, <2>2
<1>r. PICK r \in Reqs : r = Target(w)
  BY <1>a, TargetType
<1>c. PICK c \in Chunks : c = Item(w)
  BY <1>b
<1>1. /\ UNCHANGED <<rq, streams, outClosed, once, wire, emitted, got, resp>>
      /\ at[w] = "push" /\ AfterSend(w)
  BY ZenonT(60), <1>a
<1>2. /\ at \in [Workers -> Places] /\ Reader \in Workers /\ Reader \notin Reqs
      /\ buf \in [Reqs -> Seq(Chunks)] /\ got \in [Reqs -> Seq(Chunks)]
  BY ZenonT(60), StreamsAssumption DEF IInv, TypeOK, Workers
<1>3. PICK place \in {"once", "rest"} :
        /\ Goto(w, place) \/ Rest(w)
        /\ at' = [at EXCEPT ![w] = place]
        /\ place = "once" => c.final
  BY ZenonT(60), <1>1, <1>c DEF AfterSend, Goto, Rest
<1>4. /\ \A v \in Workers : v # w => at'[v] = at[v] /\ Target(v)' = Target(v)
      /\ at'[w] # "rest" => Target(w)' = r
      /\ at'[w] = place
  BY <1>2, <1>3, <1>r, MoveTypes DEF Places
<1>5. part' = part \/ (w = Reader /\ part' = NoPart)
  BY <1>3 DEF Goto, Rest
<1>6. \A x \in Reqs \ {r} : (InHand(x)' <=> InHand(x)) /\ (InHand(x)' => part' = part)
  <2>1. CASE w = Reader
    BY ZenonT(60), <1>1, <1>3, <1>4, <1>r, <2>1 DEF InHand, Target
  <2>2. CASE w # Reader
    BY <1>2, <1>4, <1>5, <2>2 DEF InHand
  <2> QED BY ZenonT(60), <2>1, <2>2
<1>7. \A x \in Reqs : Closing(x)' => Closing(x) \/ (x = r /\ c.final)
  <2> SUFFICES ASSUME NEW x \in Reqs, NEW v \in Workers, at'[v] = "once", Target(v)' = x
               PROVE  Closing(x) \/ (x = r /\ c.final)
    BY <1>1 DEF Closing
  <2>1. CASE v = w
    BY ZenonT(60), <1>3, <1>4, <2>1
  <2>2. CASE v # w
    BY ZenonT(60), <1>4, <2>2 DEF Closing
  <2> QED BY SMTT(60), <2>1, <2>2
<1>8. \/ buf' = [buf EXCEPT ![r] = Append(buf[r], c)] /\ lost' = lost
      \/ buf' = buf /\ lost' = lost \cup {r}
  BY ZenonT(60), <1>r, <1>c DEF Push
<1>9. \A x \in Reqs \ {r} : Flow(x)' = Flow(x)
  BY ZenonT(60), <1>1, <1>2, <1>8 DEF Flow
<1>10. c \in Chunks /\ Flow(r) \in Seq(Chunks) /\ got[r] \in Seq(Chunks) /\ buf[r] \in Seq(Chunks)
  BY ZenonT(60), <1>2, FlowType
<1>11. ~outClosed[r]
  BY ZenonT(60), <1>1, <1>r DEF IInv, Locked, Holds, CloseOrder
<1>12. w = Reader => InHand(r) /\ c = part.chunk /\ part.chunk.n = emitted[r]
  BY ZenonT(60), <1>1, <1>r, <1>c DEF InHand, Target, Item, Order, Newest
<1>13. w # Reader => c.err /\ c.final
  BY <1>c DEF Item, WatcherChunk
<1>14. ~InHand(r)' \/ w # Reader
  BY ZenonT(60), <1>3, <1>4 DEF InHand
<1>15. ASSUME lost' = lost, buf' = [buf EXCEPT ![r] = Append(buf[r], c)]
       PROVE  Flow(r)' = Append(Flow(r), c)
  <2>1. got'[r] = got[r] /\ buf'[r] = Append(buf[r], c)
    BY <1>1, <1>2, <1>15
  <2>2. got[r] \o Append(buf[r], c) = Append(got[r] \o buf[r], c)
    BY ZenonT(60), <1>10, FlowAppend
  <2> QED BY <2>1, <2>2 DEF Flow
<1> DEFINE k == Len(Flow(r))
<1>16. /\ k \in Nat /\ DOMAIN Flow(r) = 1 .. k
       /\ DOMAIN Append(Flow(r), c) = 1 .. k + 1
       /\ Len(Append(Flow(r), c)) = k + 1
       /\ Append(Flow(r), c)[k + 1] = c
       /\ \A i \in 1 .. k : Append(Flow(r), c)[i] = Flow(r)[i]
  BY <1>10
<1> HIDE DEF k
<1>17. \A x \in Reqs : Counted(x)'
  <2>1. ASSUME NEW x \in Reqs \ {r} PROVE Counted(x)'
    <3>1. lost \subseteq lost' /\ emitted'[x] = emitted[x] /\ once'[x] = once[x]
      BY ZenonT(60), <1>1, <1>8
    <3> QED BY ZenonT(60), <1>6, <1>9, <2>1, <3>1, CountedSame DEF Whole
  <2>2. Counted(r)'
    <3> SUFFICES ASSUME Sound(r)'
                 PROVE  /\ \A i \in DOMAIN Flow(r)' : Flow(r)'[i].n = i
                        /\ InHand(r)' => part'.chunk.n = Len(Flow(r)') + 1
                        /\ ~InHand(r)' /\ once'[r] = "new" => emitted'[r] = Len(Flow(r)')
      BY ZenonT(60) DEF Counted
    <3>1. lost' = lost /\ r \notin lost /\ buf' = [buf EXCEPT ![r] = Append(buf[r], c)]
      BY <1>8 DEF Sound
    <3>2. Flow(r)' = Append(Flow(r), c)
      BY <1>15, <3>1
    <3>3. Sound(r) /\ ~c.err
      <4>1. \A i \in 1 .. k + 1 : ~Append(Flow(r), c)[i].err
        BY <1>16, <3>2 DEF Sound
      <4> QED BY <1>16, <3>1, <4>1 DEF Sound
    <3>4. w = Reader
      BY <1>13, <3>3
    <3>5. /\ \A i \in 1 .. k : Flow(r)[i].n = i
          /\ c.n = k + 1 /\ emitted[r] = k + 1
      BY ZenonT(60), <1>1, <1>12, <1>16, <3>3, <3>4 DEF Whole, Counted, k
    <3>6. ASSUME NEW i \in DOMAIN Flow(r)' PROVE Flow(r)'[i].n = i
      <4>1. i \in 1 .. k + 1
        BY ZenonT(60), <1>16, <3>2, <3>6
      <4>2. i \in 1 .. k \/ i = k + 1
        BY SMTT(60), <1>16, <4>1
      <4>3. CASE i \in 1 .. k
        BY ZenonT(60), <1>16, <3>2, <3>5, <4>3
      <4>4. CASE i = k + 1
        BY ZenonT(60), <1>16, <3>2, <3>5, <4>4
      <4> QED BY ZenonT(60), <4>2, <4>3, <4>4
    <3>7. Len(Flow(r)') = k + 1 /\ ~InHand(r)'
      BY ZenonT(60), <1>14, <1>16, <3>2, <3>4
    <3>8. emitted'[r] = k + 1
      BY ZenonT(60), <1>1, <3>5
    <3> QED BY ZenonT(60), <3>6, <3>7, <3>8
  <2> QED BY ZenonT(60), <2>1, <2>2
<1>18. \A x \in Reqs : Ended(x)'
  <2>1. ASSUME NEW x \in Reqs \ {r} PROVE Ended(x)'
    BY ZenonT(60), <1>1, <1>7, <1>8, <1>9, <2>1, EndedSame DEF Whole
  <2>2. Ended(r)'
    <3> SUFFICES ASSUME Closing(r)', rq[r] # "failed", r \notin lost'
                 PROVE  \E i \in DOMAIN Flow(r)' : Flow(r)'[i].final
      BY <1>1 DEF Ended, HasFinal
    <3>1. lost' = lost /\ Flow(r)' = Append(Flow(r), c)
      BY ZenonT(60), <1>8, <1>15
    <3>2. CASE c.final
      BY SMTT(60), <1>16, <3>1, <3>2
    <3>3. CASE Closing(r)
      <4>1. PICK i \in DOMAIN Flow(r) : Flow(r)[i].final
        BY ZenonT(60), <1>1, <3>1, <3>3 DEF Whole, Ended, HasFinal
      <4>2. i \in 1 .. k + 1 /\ Append(Flow(r), c)[i] = Flow(r)[i]
        BY SMTT(60), <1>16
      <4> QED BY ZenonT(60), <1>16, <3>1, <4>1, <4>2
    <3> QED BY ZenonT(60), <1>1, <1>7, <3>2, <3>3
  <2> QED BY <2>1, <2>2
<1>19. \A x \in Reqs : Answered(x)'
  <2>1. \A x \in Reqs : outClosed[x] => buf'[x] = buf[x]
    BY ZenonT(60), <1>2, <1>8, <1>11
  <2> QED BY ZenonT(60), <1>1, <2>1 DEF Whole, Answered, Returned, SawError
<1>20. ASSUME NEW x \in Reqs PROVE Fresh(x)'
  <2>1. at[x] = "rest" => at'[x] = "rest"
    BY ZenonT(60), <1>1, <1>4, <1>20 DEF Workers
  <2>2. NoPart.req # x
    BY StreamsAssumption DEF NoPart
  <2> QED BY ZenonT(60), <1>1, <1>5, <1>20, <2>1, <2>2 DEF Whole, Fresh
<1> QED BY ZenonT(60), <1>17, <1>18, <1>19, <1>20 DEF Whole

\* RunQuery, its watcher and the connection: only a call that failed comes to
\* close without a final chunk.
LEMMA RequestWhole ==
  ASSUME IInv, Whole, NEW r \in Reqs,
         \/ RunQuery(r) \/ RunQueryRefused(r) \/ PacketOut(r) \/ SendPacket(r)
         \/ SendPacketFails(r) \/ Watch(r)
  PROVE  Whole'
<1> USE DEF connVars, httpVars, streamVars
<1>1. UNCHANGED <<buf, got, once, lost, part, emitted, outClosed, resp>>
  BY ZenonT(60) DEF RunQuery, RunQueryRefused, PacketOut, SendPacket, SendPacketFails, Watch, Goto
<1>2. /\ at \in [Workers -> Places] /\ Reader \in Workers /\ Reader # r /\ r \in Workers
      /\ rq \in [Reqs -> {"idle", "registered", "running", "ended", "failed", "refused"}]
  BY ZenonT(60), StreamsAssumption DEF IInv, TypeOK, Workers
<1>3. \/ UNCHANGED at
      \/ at' = [at EXCEPT ![r] = "lock"]
      \/ at' = [at EXCEPT ![r] = "once"] /\ rq'[r] = "failed"
  BY ZenonT(60), <1>2 DEF RunQuery, RunQueryRefused, PacketOut, SendPacket, SendPacketFails, Watch, Goto
<1>4. /\ \A x \in Reqs \ {r} : rq'[x] = rq[x]
      /\ rq'[r] # "idle" \/ UNCHANGED <<rq, at>>
      /\ rq'[r] # "failed" => rq[r] # "failed"
      /\ Returned(r) => Returned(r)'
  BY <1>2 DEF RunQuery, RunQueryRefused, PacketOut, SendPacket, SendPacketFails, Watch, Returned
<1>5. \A x \in Reqs : Flow(x)' = Flow(x)
  BY ZenonT(60), <1>1 DEF Flow
<1>6. \A x \in Reqs : InHand(x)' <=> InHand(x)
  BY ZenonT(60), <1>1, <1>2, <1>3 DEF InHand
<1>7. \A x \in Reqs : rq'[x] # "failed" => (Closing(x)' => Closing(x))
  BY ZenonT(60), <1>1, <1>2, <1>3 DEF Closing, Target
<1>8. \A x \in Reqs : Counted(x)'
  BY ZenonT(60), <1>1, <1>5, <1>6, CountedSame DEF Whole
<1>9. \A x \in Reqs : Ended(x)'
  BY ZenonT(60), <1>1, <1>4, <1>5, <1>7, EndedSame DEF Whole
<1>10. \A x \in Reqs : Answered(x)'
  BY ZenonT(60), <1>1, <1>4 DEF Whole, Answered, Returned, SawError
<1>11. ASSUME NEW x \in Reqs PROVE Fresh(x)'
  <2>1. x \in streams' => once'[x] = "new"
    BY ZenonT(60), <1>1, <1>11 DEF RunQuery, RunQueryRefused, PacketOut, SendPacket, SendPacketFails, Watch, Whole, Fresh
  <2>2. rq'[x] = "idle" => rq[x] = "idle" /\ at'[x] = at[x]
    BY ZenonT(60), <1>2, <1>3, <1>4, <1>11 DEF Workers
  <2>3. rq'[x] = "idle" => (x \in wire' => x \in wire)
    BY <1>2, <1>11 DEF RunQuery, RunQueryRefused, PacketOut, SendPacket, SendPacketFails, Watch
  <2> QED BY ZenonT(60), <1>1, <1>11, <2>1, <2>2, <2>3 DEF Whole, Fresh
<1> QED BY ZenonT(60), <1>8, <1>9, <1>10, <1>11 DEF Whole

\* The handlers: a stream is answered once it is closed and drained.
LEMMA OutsideWhole ==
  ASSUME IInv, Whole,
         \/ \E r \in Reqs : Collect(r) \/ Respond(r)
         \/ SessionClose \/ TransportClose \/ UNCHANGED vars
  PROVE  Whole'
<1> USE DEF connVars, httpVars, streamVars
<1>1. UNCHANGED <<rq, streams, once, lost, at, part, wire, emitted, outClosed>>
  BY DEF Collect, Respond, SessionClose, TransportClose, vars
<1>2. \A x \in Reqs : Flow(x)' = Flow(x)
  BY ZenonT(60), FlowKept
<1>3. \A x \in Reqs : (InHand(x)' <=> InHand(x)) /\ (Closing(x)' <=> Closing(x))
  BY ZenonT(60), <1>1 DEF InHand, Closing, Target
<1>4. \A x \in Reqs : Counted(x)'
  BY ZenonT(60), <1>1, <1>2, <1>3, CountedSame DEF Whole
<1>5. \A x \in Reqs : Ended(x)'
  BY ZenonT(60), <1>1, <1>2, <1>3, EndedSame DEF Whole
<1>6. \A x \in Reqs : Fresh(x)'
  BY ZenonT(60), <1>1 DEF Whole, Fresh
<1>7. ASSUME NEW x \in Reqs PROVE Answered(x)'
  <2>1. /\ buf \in [Reqs -> Seq(Chunks)] /\ got \in [Reqs -> Seq(Chunks)]
        /\ resp \in [Reqs -> {"none", "ok", "error"}]
    BY ZenonT(60) DEF IInv, TypeOK
  <2>2. CASE UNCHANGED <<buf, got, resp>>
    BY ZenonT(60), <1>1, <1>7, <2>2 DEF Whole, Answered, Returned, SawError
  <2>3. ASSUME NEW r \in Reqs, Collect(r) PROVE Answered(x)'
    <3>1. CASE x = r
      BY ZenonT(60), <1>1, <1>7, <2>3, <3>1 DEF Collect, Whole, Answered
    <3>2. CASE x # r
      BY ZenonT(60), <1>1, <1>7, <2>1, <2>3, <3>2 DEF Collect, Whole, Answered, Returned, SawError
    <3> QED BY ZenonT(60), <3>1, <3>2
  <2>4. ASSUME NEW r \in Reqs, Respond(r) PROVE Answered(x)'
    <3>1. CASE x = r
      BY ZenonT(60), <1>1, <2>1, <2>4, <3>1 DEF Respond, Answered, Returned, SawError
    <3>2. CASE x # r
      BY ZenonT(60), <1>1, <1>7, <2>1, <2>4, <3>2 DEF Respond, Whole, Answered, Returned, SawError
    <3> QED BY <3>1, <3>2
  <2> QED BY ZenonT(60), <2>2, <2>3, <2>4 DEF SessionClose, TransportClose, vars
<1> QED BY ZenonT(60), <1>4, <1>5, <1>6, <1>7 DEF Whole

\* dispatchPacket takes up the next part of a stream that is in the table, and
\* so open.
LEMMA DispatchWhole ==
  ASSUME IInv, Order, Whole, NEW r \in Reqs, NEW final \in BOOLEAN, NEW err \in BOOLEAN,
         dispatchPacket(r, final, err)
  PROVE  Whole'
<1> USE DEF connVars, httpVars, streamVars
<1> DEFINE p == [req |-> r, chunk |-> [n |-> emitted[r] + 1, final |-> final, err |-> err]]
<1>1. /\ UNCHANGED <<rq, streams, buf, once, lost, wire, got, outClosed, resp>>
      /\ at[Reader] = "rest" /\ r \in wire
      /\ emitted' = [emitted EXCEPT ![r] = emitted[r] + 1]
      /\ IF r \in streams THEN at' = [at EXCEPT ![Reader] = "lock"] /\ part' = p
                          ELSE UNCHANGED <<at, part>>
  BY ZenonT(60) DEF dispatchPacket
<1>2. /\ at \in [Workers -> Places] /\ Reader \in Workers /\ Reader \notin Reqs
      /\ emitted \in [Reqs -> 0 .. MaxParts]
  BY ZenonT(60), StreamsAssumption DEF IInv, TypeOK, Workers
<1>3. \A x \in Reqs : Flow(x)' = Flow(x)
  BY ZenonT(60), <1>1 DEF Flow
<1>4. p.req = r /\ p.chunk.n = emitted[r] + 1
  OBVIOUS
<1> HIDE DEF p
<1>5. \A x \in Reqs : ~InHand(x)
  BY ZenonT(60), <1>1 DEF InHand
<1>6. \A x \in Reqs \ {r} : ~InHand(x)' /\ emitted'[x] = emitted[x]
  BY ZenonT(60), <1>1, <1>2, <1>4 DEF InHand
<1>7. emitted'[r] = emitted[r] + 1
  BY <1>1, <1>2
<1>8. \A x \in Reqs : Counted(x)'
  <2>1. ASSUME NEW x \in Reqs \ {r} PROVE Counted(x)'
    BY ZenonT(60), <1>1, <1>3, <1>5, <1>6, <2>1, CountedSame DEF Whole
  <2>2. Counted(r)'
    <3> SUFFICES ASSUME Sound(r)'
                 PROVE  /\ \A i \in DOMAIN Flow(r)' : Flow(r)'[i].n = i
                        /\ InHand(r)' => part'.chunk.n = Len(Flow(r)') + 1
                        /\ ~InHand(r)' /\ once'[r] = "new" => emitted'[r] = Len(Flow(r)')
      BY ZenonT(60) DEF Counted
    <3>1. Flow(r)' = Flow(r) /\ Sound(r)
      BY ZenonT(60), <1>1, <1>3 DEF Sound
    <3>2. /\ \A i \in DOMAIN Flow(r) : Flow(r)[i].n = i
          /\ once[r] = "new" => emitted[r] = Len(Flow(r))
      BY ZenonT(60), <1>5, <3>1 DEF Whole, Counted
    <3>3. CASE r \in streams
      <4>1. once[r] = "new"
        BY ZenonT(60), <3>3 DEF Whole, Fresh
      <4>2. part' = p /\ at'[Reader] = "lock"
        BY ZenonT(60), <1>1, <1>2, <3>3
      <4>3. InHand(r)'
        BY ZenonT(60), <1>4, <4>2 DEF InHand
      <4> QED BY ZenonT(60), <1>4, <3>1, <3>2, <4>1, <4>2, <4>3
    <3>4. CASE r \notin streams
      <4>1. once'[r] # "new"
        BY ZenonT(60), <1>1, <3>4 DEF Order, Listed
      <4>2. ~InHand(r)'
        BY ZenonT(60), <1>1, <3>4 DEF InHand
      <4> QED BY ZenonT(60), <3>1, <3>2, <4>1, <4>2
    <3> QED BY ZenonT(60), <3>3, <3>4
  <2> QED BY ZenonT(60), <2>1, <2>2
<1>9. \A x \in Reqs : Closing(x)' => Closing(x)
  BY ZenonT(60), <1>1, <1>2 DEF Closing, Target
<1>10. \A x \in Reqs : Ended(x)'
  BY ZenonT(60), <1>1, <1>3, <1>9, EndedSame DEF Whole
<1>11. \A x \in Reqs : Answered(x)'
  BY ZenonT(60), <1>1 DEF Whole, Answered, Returned, SawError
<1>12. ASSUME NEW x \in Reqs PROVE Fresh(x)'
  <2>1. at'[x] = at[x]
    <3>1. at' = at \/ at' = [at EXCEPT ![Reader] = "lock"]
      BY <1>1
    <3>2. x \in Workers /\ x # Reader
      BY ZenonT(60), <1>2, <1>12 DEF Workers
    <3> QED BY ZenonT(60), <1>2, <3>1, <3>2
  <2>2. rq[r] # "idle"
    BY ZenonT(60), <1>1 DEF Whole, Fresh
  <2>3. part' = part \/ part'.req = r
    BY ZenonT(60), <1>1, <1>4
  <2>4. rq[x] = "idle" => part'.req # x
    BY ZenonT(60), <1>12, <2>2, <2>3 DEF Whole, Fresh
  <2>5. Fresh(x)
    BY ZenonT(60), <1>12 DEF Whole
  <2> QED BY <1>1, <2>1, <2>4, <2>5 DEF Fresh
<1> QED BY ZenonT(60), <1>8, <1>10, <1>11, <1>12 DEF Whole

\* Whole holds initially.
LEMMA InitWhole == Init => Whole
<1> SUFFICES ASSUME Init, NEW r \in Reqs
             PROVE  Counted(r) /\ Ended(r) /\ Answered(r) /\ Fresh(r)
  BY ZenonT(60) DEF Whole
<1>1. /\ got[r] = <<>> /\ buf[r] = <<>> /\ emitted[r] = 0
      /\ once[r] = "new" /\ resp[r] = "none" /\ streams = {} /\ wire = {} /\ part = NoPart
      /\ \A w \in Workers : at[w] = "rest"
  BY ZenonT(60) DEF Init
<1>2. Flow(r) = <<>>
  BY <1>1 DEF Flow
<1>3. DOMAIN Flow(r) = {} /\ Len(Flow(r)) = 0
  BY SMTT(60), <1>2
<1>4. r \in Workers /\ Reader \in Workers /\ NoPart.req # r
  BY ZenonT(60), StreamsAssumption DEF Workers, NoPart
<1>5. Counted(r)
  BY ZenonT(60), <1>1, <1>3, <1>4 DEF Counted, InHand
<1>6. Ended(r)
  BY ZenonT(60), <1>1 DEF Ended, Closing
<1> QED BY ZenonT(60), <1>1, <1>4, <1>5, <1>6 DEF Answered, Fresh

\* Every step preserves Whole.
LEMMA NextWhole == IInv /\ Order /\ Whole /\ [Next]_vars => Whole'
<1> SUFFICES ASSUME IInv, Order, Whole, [Next]_vars PROVE Whole'
  OBVIOUS
<1>1. ASSUME NEW w \in Workers,
             SendLock(w) \/ Push(w) \/ CloseOnce(w) \/ CloseDone(w) \/ CloseOut(w)
      PROVE  Whole'
  BY <1>1, MoveWhole, PushWhole
<1>2. ASSUME NEW r \in Reqs,
             \/ RunQuery(r) \/ RunQueryRefused(r) \/ PacketOut(r) \/ SendPacket(r)
             \/ SendPacketFails(r) \/ Watch(r)
      PROVE  Whole'
  BY <1>2, RequestWhole
<1>3. ASSUME NEW r \in Reqs, NEW final \in BOOLEAN, NEW err \in BOOLEAN,
             dispatchPacket(r, final, err)
      PROVE  Whole'
  BY <1>3, DispatchWhole
<1>4. CASE \/ \E r \in Reqs : Collect(r) \/ Respond(r)
           \/ SessionClose \/ TransportClose \/ UNCHANGED vars
  BY <1>4, OutsideWhole
<1> QED BY <1>1, <1>2, <1>3, <1>4 DEF Next

\* collectTranslateRespond answers 200 only with the whole answer unless the
\* channel overflowed, however the read loop, the watcher, the timeouts and
\* the handler interleave.
THEOREM WholeAnswer == Spec => []CompleteUnlessFull
<1>1. IInv /\ Whole => CompleteUnlessFull
  <2> SUFFICES ASSUME IInv, Whole, NEW r \in Translating, resp[r] = "ok", r \notin lost
               PROVE  Complete(r)
    BY DEF CompleteUnlessFull
  <2>1. r \in Reqs
    BY ZenonT(60), StreamsAssumption
  <2>2. Returned(r) /\ outClosed[r] /\ buf[r] = <<>> /\ ~SawError(r)
    BY ZenonT(60), <2>1 DEF Whole, Answered
  <2>3. got[r] \in Seq(Chunks)
    BY ZenonT(60), <2>1 DEF IInv, TypeOK
  <2>4. Flow(r) = got[r]
    BY SMTT(60), <2>2, <2>3 DEF Flow
  <2>5. Sound(r)
    BY ZenonT(60), <2>2, <2>4 DEF Sound, SawError
  <2>6. \A i \in DOMAIN got[r] : got[r][i].n = i /\ ~got[r][i].err
    BY ZenonT(60), <2>1, <2>2, <2>4, <2>5 DEF Whole, Counted, SawError
  <2>7. Closing(r) /\ rq[r] # "failed"
    BY ZenonT(60), <2>1, <2>2 DEF IInv, CloseOrder, Closing, Returned
  <2>8. PICK k \in DOMAIN got[r] : got[r][k].final
    BY ZenonT(60), <2>1, <2>4, <2>7 DEF Whole, Ended, HasFinal
  <2>9. got[r][k] \in Chunks /\ DOMAIN got[r] = 1 .. Len(got[r]) /\ Len(got[r]) \in Nat
    BY SMTT(60), <2>3
  <2>10. k \in 1 .. MaxParts /\ Len(got[r]) >= k /\ \A i \in 1 .. k : i \in DOMAIN got[r]
    BY StreamsAssumption, <2>6, <2>9 DEF Chunks
  <2> QED BY <2>6, <2>8, <2>10 DEF Complete
<1> QED BY <1>1, InitInv, NextInv, InitOrder, NextOrder, InitWhole, NextWhole, PTL DEF Spec
=============================================================================
