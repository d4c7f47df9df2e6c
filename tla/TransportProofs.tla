--------------------------- MODULE TransportProofs ---------------------------
(***************************************************************************)
(* For any number of calls and any set of query ids: a registered query is *)
(* resolved exactly once and an answer reaches only its own caller         *)
(* (module Correlator), and the connection implements QueryService.        *)
(*                                                                         *)
(* For any number of writers and any width of the seqno: the frames under  *)
(* the queries (module Framing, as FrameStream) are read whole and in      *)
(* order.                                                                  *)
(***************************************************************************)
EXTENDS Correlator, FrameStream, Integers, Sequences, SequenceTheorems, TLAPS

\* The map, the hands of the goroutines and the channels hold only what
\* they own.
MapOwn == \A i \in Ids : pending[i] # NoCall => qid[pending[i]] = i

\* Ids in use are distinct: register turns a draw in flight away and a
\* retired id is not drawn again.
UniqueIds == \A c, d \in Calls : qid[c] # NoId /\ qid[c] = qid[d] => c = d

\* The reader holds the call its frame answers, a writer holds itself.
HandOwn ==
  /\ hand[Reader] # NoCall => /\ frame \in Frames
                              /\ frame.payload = hand[Reader]
                              /\ qid[hand[Reader]] # NoId
                              /\ pc[hand[Reader]] # "failing"
  /\ \A c \in Calls : hand[c] = IF pc[c] = "failing" THEN c ELSE NoCall

\* The control state of a call agrees with what it has registered and got.
CallState ==
  \A c \in Calls :
    /\ pc[c] = "idle" => qid[c] = NoId
    /\ pc[c] \in {"writing", "failing", "returning", "waiting"} => qid[c] # NoId
    /\ (outcome[c] = "none") <=> (pc[c] # "done")
    /\ (got[c] # NoCall) <=> (outcome[c] = "answer")
    /\ c \in wire \/ c \in drain => qid[c] # NoId
    /\ qid[c] = NoId => ~Answered(c) /\ ~Failed(c)

\* Only its own answer is on the way to a call.
OwnAnswer == \A c \in Calls : answerCh[c] \in {NoCall, c} /\ got[c] \in {NoCall, c}

\* The correlator is closed from the moment failAll empties the map.
CloseState ==
  /\ corrClosed <=> tr \in {"draining", "closed"}
  /\ corrClosed => \A i \in Ids : pending[i] = NoCall
  /\ tr # "draining" => drain = {}

IInv ==
  /\ TypeOK /\ MapOwn /\ UniqueIds /\ HandOwn /\ CallState /\ OwnAnswer
  /\ CloseState /\ SingleOwner


----------------------------------------------------------------------------
(* Each action preserves IInv.  Its last conjunct, SingleOwner, follows    *)
(* from how the action moves calls between the map, the hands, failAll's   *)
(* list and the channels.                                                  *)

\* A step that moves no call anywhere keeps SingleOwner.
LEMMA Unmoved ==
  ASSUME SingleOwner, UNCHANGED <<qid, pending, hand, drain>>,
         \A d \in Calls : (Answered(d)' <=> Answered(d)) /\ (Failed(d)' <=> Failed(d))
  PROVE  SingleOwner'
<1> SUFFICES ASSUME NEW d \in Calls PROVE OneOwner(d)'
  BY DEF SingleOwner
<1>1. (InMap(d)' <=> InMap(d)) /\ (InHand(d)' <=> InHand(d))
  BY DEF InMap, InHand
<1> QED BY <1>1 DEF SingleOwner, OneOwner

\* newQueryID and register: the new call enters the map.
LEMMA SendQueryInv ==
  ASSUME NEW c \in Calls, IInv, SendQuery(c)
  PROVE  IInv'
<1> USE CallsAssumption DEF IInv, callVars, chanVars, closeVars
<1>0. PICK id \in Ids : newQueryID(id) /\ register(c, id)
  BY DEF SendQuery
<1>a. /\ pending[id] = NoCall /\ qid[c] = NoId
      /\ pending' = [pending EXCEPT ![id] = c] /\ qid' = [qid EXCEPT ![c] = id]
      /\ pc' = [pc EXCEPT ![c] = "writing"]
      /\ \A e \in Calls : qid[e] # id
  BY <1>0, ZenonT(60) DEF register, Refused, newQueryID, CallState, SendQuery
<1>b. ~Answered(c) /\ ~Failed(c) /\ ~InHand(c) /\ c \notin drain
  BY <1>a DEF CallState, HandOwn, InHand, Workers, SendQuery
<1>1. TypeOK'
  BY ZenonT(60), <1>a DEF TypeOK, ErrKinds, Workers, SendQuery
<1>2. MapOwn'
  BY <1>a, ZenonT(60) DEF TypeOK, MapOwn, SendQuery
<1>3. UniqueIds'
  BY ZenonT(60), <1>a DEF TypeOK, UniqueIds, SendQuery
<1>4. HandOwn'
  BY <1>a, ZenonT(60) DEF TypeOK, HandOwn, CallState, Frames, Workers, SendQuery
<1>5. CallState'
  BY ZenonT(60), <1>a DEF TypeOK, CallState, Answered, Failed, ErrKinds, SendQuery
<1>6. OwnAnswer'
  BY ZenonT(60), <1>a DEF TypeOK, OwnAnswer, HandOwn, SendQuery
<1>7. CloseState'
  BY ZenonT(60), <1>0, <1>a DEF TypeOK, CloseState, SendQuery, register, Refused, closeVars
<1>8. SingleOwner'
  <2> SUFFICES ASSUME NEW d \in Calls PROVE OneOwner(d)'
    BY DEF SingleOwner
  <2>0. OneOwner(d)
    BY DEF SingleOwner
  <2>1. InMap(d)' <=> (InMap(d) \/ d = c)
    BY ZenonT(60), <1>a DEF InMap, TypeOK, SendQuery
  <2>2. InHand(d)' <=> InHand(d)
    BY ZenonT(60), <1>a DEF InHand, TypeOK, Workers, SendQuery
  <2>3. Answered(d)' <=> Answered(d)
    BY ZenonT(60), <1>a DEF Answered, TypeOK, CallState, SendQuery
  <2>4. Failed(d)' <=> Failed(d)
    BY ZenonT(60), <1>a DEF Failed, TypeOK, CallState, ErrKinds, SendQuery
  <2>5. (d \in drain)' <=> (d \in drain)
    BY ZenonT(60), <1>a DEF TypeOK, SendQuery
  <2>6. (qid[d] # NoId)' <=> (qid[d] # NoId \/ d = c)
    BY ZenonT(60), <1>a DEF TypeOK, SendQuery
  <2> QED BY <1>a, <1>b, <2>0, <2>1, <2>2, <2>3, <2>4, <2>5, <2>6 DEF OneOwner
<1> QED BY ZenonT(60), <1>1, <1>2, <1>3, <1>4, <1>5, <1>6, <1>7, <1>8 DEF IInv

\* A refused register changes only the caller.
LEMMA SendQueryRefusedInv ==
  ASSUME NEW c \in Calls, IInv, SendQueryRefused(c)
  PROVE  IInv'
<1> USE CallsAssumption DEF IInv, callVars, chanVars, closeVars
<1>1. TypeOK'
  BY ZenonT(60) DEF TypeOK, ErrKinds, Workers, SendQueryRefused, Return
<1>2. MapOwn'
  BY ZenonT(60) DEF TypeOK, MapOwn, CloseState, SendQueryRefused, Return
<1>3. UniqueIds'
  BY ZenonT(60) DEF TypeOK, UniqueIds, SendQueryRefused, Return
<1>4. HandOwn'
  BY ZenonT(60) DEF TypeOK, HandOwn, CallState, Frames, Workers, SendQueryRefused, Return
<1>5. CallState'
  BY ZenonT(60) DEF TypeOK, CallState, Answered, Failed, ErrKinds, SendQueryRefused, Return
<1>6. OwnAnswer'
  BY ZenonT(60) DEF TypeOK, OwnAnswer, HandOwn, SendQueryRefused, Return
<1>7. CloseState'
  BY ZenonT(60) DEF TypeOK, CloseState, SendQueryRefused, Return
<1>8. \A d \in Calls : (Answered(d)' <=> Answered(d)) /\ (Failed(d)' <=> Failed(d))
  BY ZenonT(60) DEF Answered, Failed, ErrKinds, TypeOK, CallState, SendQueryRefused, Return
<1>9. SingleOwner'
  BY <1>8, Unmoved DEF SendQueryRefused, Return
<1> QED BY ZenonT(60), <1>1, <1>2, <1>3, <1>4, <1>5, <1>6, <1>7, <1>9 DEF IInv

\* The frame is on the wire; the entry stays in the map.
LEMMA WriteFrameInv ==
  ASSUME NEW c \in Calls, IInv, WriteFrame(c)
  PROVE  IInv'
<1> USE CallsAssumption DEF IInv, callVars, chanVars, closeVars
<1>1. TypeOK'
  BY ZenonT(60) DEF TypeOK, ErrKinds, Workers, WriteFrame
<1>2. MapOwn'
  BY ZenonT(60) DEF TypeOK, MapOwn, CloseState, WriteFrame
<1>3. UniqueIds'
  BY ZenonT(60) DEF TypeOK, UniqueIds, WriteFrame
<1>4. HandOwn'
  BY ZenonT(60) DEF TypeOK, HandOwn, CallState, Frames, Workers, WriteFrame
<1>5. CallState'
  BY ZenonT(60) DEF TypeOK, CallState, Answered, Failed, ErrKinds, WriteFrame
<1>6. OwnAnswer'
  BY ZenonT(60) DEF TypeOK, OwnAnswer, HandOwn, WriteFrame
<1>7. CloseState'
  BY ZenonT(60) DEF TypeOK, CloseState, WriteFrame
<1>8. \A d \in Calls : (Answered(d)' <=> Answered(d)) /\ (Failed(d)' <=> Failed(d))
  BY ZenonT(60) DEF Answered, Failed, ErrKinds, TypeOK, CallState, WriteFrame
<1>9. SingleOwner'
  BY <1>8, Unmoved DEF WriteFrame
<1> QED BY ZenonT(60), <1>1, <1>2, <1>3, <1>4, <1>5, <1>6, <1>7, <1>9 DEF IInv

\* SendQuery returns its write error.
LEMMA SendQueryFailsInv ==
  ASSUME NEW c \in Calls, IInv, SendQueryFails(c)
  PROVE  IInv'
<1> USE CallsAssumption DEF IInv, callVars, chanVars, closeVars
<1>1. TypeOK'
  BY ZenonT(60) DEF TypeOK, ErrKinds, Workers, SendQueryFails, Return
<1>2. MapOwn'
  BY ZenonT(60) DEF TypeOK, MapOwn, CloseState, SendQueryFails, Return
<1>3. UniqueIds'
  BY ZenonT(60) DEF TypeOK, UniqueIds, SendQueryFails, Return
<1>4. HandOwn'
  BY ZenonT(60) DEF TypeOK, HandOwn, CallState, Frames, Workers, SendQueryFails, Return
<1>5. CallState'
  BY ZenonT(60) DEF TypeOK, CallState, Answered, Failed, ErrKinds, SendQueryFails, Return
<1>6. OwnAnswer'
  BY ZenonT(60) DEF TypeOK, OwnAnswer, HandOwn, SendQueryFails, Return
<1>7. CloseState'
  BY ZenonT(60) DEF TypeOK, CloseState, SendQueryFails, Return
<1>8. \A d \in Calls : (Answered(d)' <=> Answered(d)) /\ (Failed(d)' <=> Failed(d))
  BY ZenonT(60) DEF Answered, Failed, ErrKinds, TypeOK, CallState, SendQueryFails, Return
<1>9. SingleOwner'
  BY ZenonT(60), <1>8, Unmoved DEF SendQueryFails, Return
<1> QED BY ZenonT(60), <1>1, <1>2, <1>3, <1>4, <1>5, <1>6, <1>7, <1>9 DEF IInv

\* The caller receives its answer from the channel.
LEMMA AwaitAnswerInv ==
  ASSUME NEW c \in Calls, IInv, AwaitAnswer(c)
  PROVE  IInv'
<1> USE CallsAssumption DEF IInv, callVars, chanVars, closeVars
<1>1. TypeOK'
  BY ZenonT(60) DEF TypeOK, ErrKinds, Workers, AwaitAnswer, Return
<1>2. MapOwn'
  BY ZenonT(60) DEF TypeOK, MapOwn, CloseState, AwaitAnswer, Return
<1>3. UniqueIds'
  BY ZenonT(60) DEF TypeOK, UniqueIds, AwaitAnswer, Return
<1>4. HandOwn'
  BY ZenonT(60) DEF TypeOK, HandOwn, CallState, Frames, Workers, AwaitAnswer, Return
<1>5. CallState'
  BY ZenonT(60) DEF TypeOK, CallState, Answered, Failed, ErrKinds, AwaitAnswer, Return
<1>6. OwnAnswer'
  BY ZenonT(60) DEF TypeOK, OwnAnswer, HandOwn, AwaitAnswer, Return
<1>7. CloseState'
  BY ZenonT(60) DEF TypeOK, CloseState, AwaitAnswer, Return
<1>8. \A d \in Calls : (Answered(d)' <=> Answered(d)) /\ (Failed(d)' <=> Failed(d))
  BY ZenonT(60) DEF Answered, Failed, ErrKinds, TypeOK, CallState, OwnAnswer, AwaitAnswer, Return
<1>9. SingleOwner'
  BY <1>8, Unmoved DEF AwaitAnswer, Return
<1> QED BY ZenonT(60), <1>1, <1>2, <1>3, <1>4, <1>5, <1>6, <1>7, <1>9 DEF IInv

\* The caller receives its error from the channel.
LEMMA AwaitErrInv ==
  ASSUME NEW c \in Calls, IInv, AwaitErr(c)
  PROVE  IInv'
<1> USE CallsAssumption DEF IInv, callVars, chanVars, closeVars
<1>1. TypeOK'
  BY ZenonT(60) DEF TypeOK, ErrKinds, Workers, AwaitErr, Return
<1>2. MapOwn'
  BY ZenonT(60) DEF TypeOK, MapOwn, CloseState, AwaitErr, Return
<1>3. UniqueIds'
  BY ZenonT(60) DEF TypeOK, UniqueIds, AwaitErr, Return
<1>4. HandOwn'
  BY ZenonT(60) DEF TypeOK, HandOwn, CallState, Frames, Workers, AwaitErr, Return
<1>5. CallState'
  BY ZenonT(60) DEF TypeOK, CallState, Answered, Failed, ErrKinds, AwaitErr, Return
<1>6. OwnAnswer'
  BY ZenonT(60) DEF TypeOK, OwnAnswer, HandOwn, AwaitErr, Return
<1>7. CloseState'
  BY ZenonT(60) DEF TypeOK, CloseState, AwaitErr, Return
<1>8. \A d \in Calls : (Answered(d)' <=> Answered(d)) /\ (Failed(d)' <=> Failed(d))
  BY ZenonT(60) DEF Answered, Failed, ErrKinds, TypeOK, CallState, AwaitErr, Return
<1>9. SingleOwner'
  BY <1>8, Unmoved DEF AwaitErr, Return
<1> QED BY ZenonT(60), <1>1, <1>2, <1>3, <1>4, <1>5, <1>6, <1>7, <1>9 DEF IInv

\* The deadline of a call passes.
LEMMA ExpireInv ==
  ASSUME NEW c \in Calls, IInv, Expire(c)
  PROVE  IInv'
<1> USE CallsAssumption DEF IInv, callVars, chanVars, closeVars
<1>1. TypeOK'
  BY ZenonT(60) DEF TypeOK, ErrKinds, Workers, Expire
<1>2. MapOwn'
  BY ZenonT(60) DEF TypeOK, MapOwn, CloseState, Expire
<1>3. UniqueIds'
  BY ZenonT(60) DEF TypeOK, UniqueIds, Expire
<1>4. HandOwn'
  BY ZenonT(60) DEF TypeOK, HandOwn, CallState, Frames, Workers, Expire
<1>5. CallState'
  BY ZenonT(60) DEF TypeOK, CallState, Answered, Failed, ErrKinds, Expire
<1>6. OwnAnswer'
  BY ZenonT(60) DEF TypeOK, OwnAnswer, HandOwn, Expire
<1>7. CloseState'
  BY ZenonT(60) DEF TypeOK, CloseState, Expire
<1>8. \A d \in Calls : (Answered(d)' <=> Answered(d)) /\ (Failed(d)' <=> Failed(d))
  BY ZenonT(60) DEF Answered, Failed, ErrKinds, TypeOK, CallState, Expire
<1>9. SingleOwner'
  BY <1>8, Unmoved DEF Expire
<1> QED BY ZenonT(60), <1>1, <1>2, <1>3, <1>4, <1>5, <1>6, <1>7, <1>9 DEF IInv

\* The caller leaves; its entry stays where it is.
LEMMA GiveUpInv ==
  ASSUME NEW c \in Calls, IInv, GiveUp(c)
  PROVE  IInv'
<1> USE CallsAssumption DEF IInv, callVars, chanVars, closeVars
<1>0. PICK how \in {"ctx", "connection failed", "gave up"} : Return(c, how)
  BY ZenonT(60) DEF GiveUp
<1>a. /\ pc[c] = "waiting" /\ how \notin ErrKinds \cup {"none", "answer"}
      /\ pc' = [pc EXCEPT ![c] = "done"] /\ outcome' = [outcome EXCEPT ![c] = how]
      /\ UNCHANGED <<qid, pending, hand, frame, chanVars, expired, wire, closeVars, got>>
  BY ZenonT(60), <1>0 DEF GiveUp, Return, ErrKinds
<1>1. TypeOK'
  BY ZenonT(60), <1>a DEF TypeOK, ErrKinds, Workers
<1>2. MapOwn'
  BY ZenonT(60), <1>a DEF TypeOK, MapOwn, CloseState
<1>3. UniqueIds'
  BY ZenonT(60), <1>a DEF TypeOK, UniqueIds
<1>4. HandOwn'
  BY ZenonT(60), <1>a DEF TypeOK, HandOwn, CallState, Frames, Workers
<1>5. CallState'
  BY ZenonT(60), <1>a DEF TypeOK, CallState, Answered, Failed, ErrKinds
<1>6. OwnAnswer'
  BY ZenonT(60), <1>a DEF TypeOK, OwnAnswer, HandOwn
<1>7. CloseState'
  BY ZenonT(60), <1>a DEF TypeOK, CloseState
<1>8. \A d \in Calls : (Answered(d)' <=> Answered(d)) /\ (Failed(d)' <=> Failed(d))
  BY ZenonT(60), <1>a DEF Answered, Failed, ErrKinds, TypeOK, CallState
<1>9. SingleOwner'
  BY ZenonT(60), <1>a, <1>8, Unmoved
<1> QED BY ZenonT(60), <1>1, <1>2, <1>3, <1>4, <1>5, <1>6, <1>7, <1>9 DEF IInv

\* conn.Close().
LEMMA CloseConnInv ==
  ASSUME IInv, CloseConn
  PROVE  IInv'
<1> USE CallsAssumption DEF IInv, callVars, chanVars, closeVars
<1>1. TypeOK'
  BY ZenonT(60) DEF TypeOK, ErrKinds, Workers, CloseConn
<1>2. MapOwn'
  BY ZenonT(60) DEF TypeOK, MapOwn, CloseState, CloseConn
<1>3. UniqueIds'
  BY ZenonT(60) DEF TypeOK, UniqueIds, CloseConn
<1>4. HandOwn'
  BY ZenonT(60) DEF TypeOK, HandOwn, CallState, Frames, Workers, CloseConn
<1>5. CallState'
  BY ZenonT(60) DEF TypeOK, CallState, Answered, Failed, ErrKinds, CloseConn
<1>6. OwnAnswer'
  BY ZenonT(60) DEF TypeOK, OwnAnswer, HandOwn, CloseConn
<1>7. CloseState'
  BY ZenonT(60) DEF TypeOK, CloseState, CloseConn
<1>8. \A d \in Calls : (Answered(d)' <=> Answered(d)) /\ (Failed(d)' <=> Failed(d))
  BY ZenonT(60) DEF Answered, Failed, ErrKinds, TypeOK, CallState, CloseConn
<1>9. SingleOwner'
  BY ZenonT(60), <1>8, Unmoved DEF CloseConn
<1> QED BY ZenonT(60), <1>1, <1>2, <1>3, <1>4, <1>5, <1>6, <1>7, <1>9 DEF IInv

\* close(t.closed).
LEMMA CloseDoneInv ==
  ASSUME IInv, CloseDone
  PROVE  IInv'
<1> USE CallsAssumption DEF IInv, callVars, chanVars, closeVars
<1>1. TypeOK'
  BY ZenonT(60) DEF TypeOK, ErrKinds, Workers, CloseDone
<1>2. MapOwn'
  BY ZenonT(60) DEF TypeOK, MapOwn, CloseState, CloseDone
<1>3. UniqueIds'
  BY ZenonT(60) DEF TypeOK, UniqueIds, CloseDone
<1>4. HandOwn'
  BY ZenonT(60) DEF TypeOK, HandOwn, CallState, Frames, Workers, CloseDone
<1>5. CallState'
  BY ZenonT(60) DEF TypeOK, CallState, Answered, Failed, ErrKinds, CloseDone
<1>6. OwnAnswer'
  BY ZenonT(60) DEF TypeOK, OwnAnswer, HandOwn, CloseDone
<1>7. CloseState'
  BY ZenonT(60) DEF TypeOK, CloseState, CloseDone
<1>8. \A d \in Calls : (Answered(d)' <=> Answered(d)) /\ (Failed(d)' <=> Failed(d))
  BY ZenonT(60) DEF Answered, Failed, ErrKinds, TypeOK, CallState, CloseDone
<1>9. SingleOwner'
  BY ZenonT(60), <1>8, Unmoved DEF CloseDone
<1> QED BY ZenonT(60), <1>1, <1>2, <1>3, <1>4, <1>5, <1>6, <1>7, <1>9 DEF IInv

\* failAll sends to the next entry it took: the call moves from the list
\* to the error channel.
LEMMA FailNextInv ==
  ASSUME NEW c \in Calls, IInv, FailNext(c)
  PROVE  IInv'
<1> USE CallsAssumption DEF IInv, callVars, chanVars, closeVars
<1>1. TypeOK'
  BY ZenonT(60) DEF TypeOK, ErrKinds, Workers, FailNext, SendErr
<1>2. MapOwn'
  BY ZenonT(60) DEF TypeOK, MapOwn, CloseState, FailNext, SendErr
<1>3. UniqueIds'
  BY ZenonT(60) DEF TypeOK, UniqueIds, FailNext, SendErr
<1>4. HandOwn'
  BY ZenonT(60) DEF TypeOK, HandOwn, CallState, Frames, Workers, FailNext, SendErr
<1>5. CallState'
  BY ZenonT(60) DEF TypeOK, CallState, Answered, Failed, ErrKinds, FailNext, SendErr
<1>6. OwnAnswer'
  BY ZenonT(60) DEF TypeOK, OwnAnswer, HandOwn, FailNext, SendErr
<1>7. CloseState'
  BY ZenonT(60) DEF TypeOK, CloseState, FailNext, SendErr
<1>8. SingleOwner'
  <2> SUFFICES ASSUME NEW d \in Calls PROVE OneOwner(d)'
    BY DEF SingleOwner
  <2>0. OneOwner(d)
    BY DEF SingleOwner
  <2>1. InMap(d)' <=> InMap(d)
    BY ZenonT(60) DEF InMap, TypeOK, FailNext, SendErr
  <2>2. InHand(d)' <=> InHand(d)
    BY ZenonT(60) DEF InHand, TypeOK, Workers, FailNext, SendErr
  <2>3. Answered(d)' <=> Answered(d)
    BY ZenonT(60) DEF Answered, TypeOK, CallState, FailNext, SendErr
  <2>4. Failed(d)' <=> (Failed(d) \/ d = c)
    BY ZenonT(60) DEF Failed, TypeOK, CallState, ErrKinds, FailNext, SendErr
  <2>5. (d \in drain)' <=> (d \in drain /\ d # c)
    BY ZenonT(60) DEF TypeOK, FailNext, SendErr
  <2>6. (qid[d] # NoId)' <=> (qid[d] # NoId)
    BY ZenonT(60) DEF TypeOK, FailNext, SendErr
  <2> QED BY <2>0, <2>1, <2>2, <2>3, <2>4, <2>5, <2>6 DEF OneOwner, FailNext
<1> QED BY ZenonT(60), <1>1, <1>2, <1>3, <1>4, <1>5, <1>6, <1>7, <1>8 DEF IInv

\* failAll takes the map: every call in it moves to failAll's list.
LEMMA failAllInv ==
  ASSUME IInv, failAll
  PROVE  IInv'
<1> USE CallsAssumption DEF IInv, callVars, chanVars, closeVars
<1>a. drain = {}
  BY ZenonT(60) DEF CloseState, failAll
<1>1. TypeOK'
  BY ZenonT(60), <1>a DEF TypeOK, ErrKinds, Workers, failAll
<1>2. MapOwn'
  BY ZenonT(60), <1>a DEF TypeOK, MapOwn, CloseState, failAll
<1>3. UniqueIds'
  BY ZenonT(60), <1>a DEF TypeOK, UniqueIds, failAll
<1>4. HandOwn'
  BY ZenonT(60), <1>a DEF TypeOK, HandOwn, CallState, Frames, Workers, failAll
<1>5. CallState'
  BY ZenonT(60), <1>a DEF TypeOK, CallState, Answered, Failed, ErrKinds, InMap, failAll
<1>6. OwnAnswer'
  BY ZenonT(60), <1>a DEF TypeOK, OwnAnswer, HandOwn, failAll
<1>7. CloseState'
  BY ZenonT(60), <1>a DEF TypeOK, CloseState, failAll
<1>8. SingleOwner'
  <2> SUFFICES ASSUME NEW d \in Calls PROVE OneOwner(d)'
    BY DEF SingleOwner
  <2>0. OneOwner(d)
    BY DEF SingleOwner
  <2>1. InMap(d)' <=> FALSE
    BY ZenonT(60), <1>a DEF InMap, TypeOK, failAll
  <2>2. InHand(d)' <=> InHand(d)
    BY ZenonT(60), <1>a DEF InHand, TypeOK, Workers, failAll
  <2>3. Answered(d)' <=> Answered(d)
    BY ZenonT(60), <1>a DEF Answered, TypeOK, CallState, failAll
  <2>4. Failed(d)' <=> Failed(d)
    BY ZenonT(60), <1>a DEF Failed, TypeOK, CallState, ErrKinds, failAll
  <2>5. (d \in drain)' <=> InMap(d)
    BY ZenonT(60), <1>a DEF TypeOK, failAll
  <2>6. (qid[d] # NoId)' <=> (qid[d] # NoId)
    BY ZenonT(60), <1>a DEF TypeOK, failAll
  <2> QED BY <1>a, <2>0, <2>1, <2>2, <2>3, <2>4, <2>5, <2>6 DEF OneOwner
<1> QED BY ZenonT(60), <1>1, <1>2, <1>3, <1>4, <1>5, <1>6, <1>7, <1>8 DEF IInv

\* gcExpired moves the expired calls from the map to the error channel.
LEMMA gcExpiredInv ==
  ASSUME IInv, gcExpired
  PROVE  IInv'
<1> USE CallsAssumption DEF IInv, callVars, chanVars, closeVars
<1> DEFINE dead == {e \in expired : InMap(e)}
<1>a. /\ pending' = [i \in Ids |-> IF pending[i] \in dead THEN NoCall ELSE pending[i]]
      /\ errCh' = [e \in Calls |-> IF e \in dead /\ errCh[e] = "none"
                                   THEN "timeout" ELSE errCh[e]]
      /\ UNCHANGED <<callVars, hand, frame, answerCh, expired, wire, closeVars>>
      /\ ~corrClosed
  BY DEF gcExpired, SendErr
<1>b. \A e \in dead : e \in Calls /\ InMap(e) /\ qid[e] # NoId
  BY ZenonT(60) DEF InMap, TypeOK
<1> HIDE DEF dead
<1>1. TypeOK'
  BY ZenonT(60), <1>a, <1>b DEF TypeOK, ErrKinds, Workers
<1>2. MapOwn'
  BY ZenonT(60), <1>a, <1>b DEF TypeOK, MapOwn, CloseState
<1>3. UniqueIds'
  BY ZenonT(60), <1>a, <1>b DEF TypeOK, UniqueIds
<1>4. HandOwn'
  BY ZenonT(60), <1>a, <1>b DEF TypeOK, HandOwn, CallState, Frames, Workers
<1>5. CallState'
  BY ZenonT(60), <1>a, <1>b DEF TypeOK, CallState, Answered, Failed, ErrKinds
<1>6. OwnAnswer'
  BY ZenonT(60), <1>a, <1>b DEF TypeOK, OwnAnswer, HandOwn
<1>7. CloseState'
  BY ZenonT(60), <1>a, <1>b DEF TypeOK, CloseState
<1>8. SingleOwner'
  <2> SUFFICES ASSUME NEW d \in Calls PROVE OneOwner(d)'
    BY DEF SingleOwner
  <2>0. OneOwner(d)
    BY DEF SingleOwner
  <2>1. InMap(d)' <=> (InMap(d) /\ d \notin dead)
    BY ZenonT(60), <1>a, <1>b DEF InMap, TypeOK
  <2>2. InHand(d)' <=> InHand(d)
    BY ZenonT(60), <1>a, <1>b DEF InHand, TypeOK, Workers
  <2>3. Answered(d)' <=> Answered(d)
    BY ZenonT(60), <1>a, <1>b DEF Answered, TypeOK, CallState
  <2>4. Failed(d)' <=> (Failed(d) \/ d \in dead)
    BY ZenonT(60), <1>a, <1>b DEF Failed, TypeOK, CallState, ErrKinds
  <2>5. (d \in drain)' <=> (d \in drain)
    BY ZenonT(60), <1>a, <1>b DEF TypeOK
  <2>6. (qid[d] # NoId)' <=> (qid[d] # NoId)
    BY ZenonT(60), <1>a, <1>b DEF TypeOK
  <2> QED BY ZenonT(60), <1>a, <1>b, <2>0, <2>1, <2>2, <2>3, <2>4, <2>5, <2>6 DEF OneOwner
<1> QED BY ZenonT(60), <1>1, <1>2, <1>3, <1>4, <1>5, <1>6, <1>7, <1>8 DEF IInv

\* corr.fail after a failed write: the call moves from the map to its own
\* hand, unless another goroutine took it first.
LEMMA WriteFrameFailsInv ==
  ASSUME NEW c \in Calls, IInv, WriteFrameFails(c)
  PROVE  IInv'
<1> USE CallsAssumption DEF IInv, callVars, chanVars, closeVars
<1>p. pc[c] = "writing"
  BY DEF WriteFrameFails
<1>q. qid[c] \in Ids
  BY ZenonT(60), <1>p DEF TypeOK, CallState
<1>0. qid[c] \in Ids /\ hand[c] = NoCall
  BY <1>p, <1>q DEF HandOwn
<1>a. qid[c] \in Ids /\ pending[qid[c]] \in {NoCall, c} /\ hand[c] = NoCall
  BY ZenonT(60), <1>0 DEF TypeOK, MapOwn, UniqueIds
<1>b. pending[qid[c]] = c <=> InMap(c)
  BY <1>a DEF InMap
<1>c. InMap(c) => hand[Reader] # c
  BY ZenonT(60) DEF SingleOwner, OneOwner, InHand, Workers
<1>1. TypeOK'
  BY ZenonT(60), <1>a, <1>b, <1>c DEF TypeOK, ErrKinds, Workers, WriteFrameFails, Take
<1>2. MapOwn'
  BY ZenonT(60), <1>a, <1>b, <1>c DEF TypeOK, MapOwn, CloseState, WriteFrameFails, Take
<1>3. UniqueIds'
  BY ZenonT(60), <1>a, <1>b, <1>c DEF TypeOK, UniqueIds, WriteFrameFails, Take
<1>4. HandOwn'
  BY <1>a, <1>b, <1>c, ZenonT(60) DEF TypeOK, HandOwn, CallState, Frames, Workers, WriteFrameFails, Take
<1>5. CallState'
  BY <1>a, <1>b, <1>c, ZenonT(60) DEF TypeOK, CallState, Answered, Failed, ErrKinds, WriteFrameFails, Take
<1>6. OwnAnswer'
  BY ZenonT(60), <1>a, <1>b, <1>c DEF TypeOK, OwnAnswer, HandOwn, WriteFrameFails, Take
<1>7. CloseState'
  BY ZenonT(60), <1>a, <1>b, <1>c DEF TypeOK, CloseState, WriteFrameFails, Take
<1>8. SingleOwner'
  <2> SUFFICES ASSUME NEW d \in Calls PROVE OneOwner(d)'
    BY DEF SingleOwner
  <2>0. OneOwner(d)
    BY DEF SingleOwner
  <2>1. InMap(d)' <=> (InMap(d) /\ d # c)
    BY ZenonT(60), <1>a, <1>b, <1>c DEF InMap, TypeOK, UniqueIds, WriteFrameFails, Take
  <2>2. InHand(d)' <=> (InHand(d) \/ (d = c /\ InMap(c)))
    BY ZenonT(60), <1>a, <1>b, <1>c DEF InHand, TypeOK, Workers, WriteFrameFails, Take
  <2>3. Answered(d)' <=> Answered(d)
    BY ZenonT(60), <1>a, <1>b, <1>c DEF Answered, TypeOK, CallState, WriteFrameFails, Take
  <2>4. Failed(d)' <=> Failed(d)
    BY ZenonT(60), <1>a, <1>b, <1>c DEF Failed, TypeOK, CallState, ErrKinds, WriteFrameFails, Take
  <2>5. (d \in drain)' <=> (d \in drain)
    BY ZenonT(60), <1>a, <1>b, <1>c DEF TypeOK, WriteFrameFails, Take
  <2>6. (qid[d] # NoId)' <=> (qid[d] # NoId)
    BY ZenonT(60), <1>a, <1>b, <1>c DEF TypeOK, WriteFrameFails, Take
  <2> QED BY ZenonT(60), <1>a, <1>b, <1>c, <2>0, <2>1, <2>2, <2>3, <2>4, <2>5, <2>6 DEF OneOwner
<1> QED BY ZenonT(60), <1>1, <1>2, <1>3, <1>4, <1>5, <1>6, <1>7, <1>8 DEF IInv

\* The send of corr.fail.
LEMMA FailOwnInv ==
  ASSUME NEW c \in Calls, IInv, FailOwn(c)
  PROVE  IInv'
<1> USE CallsAssumption DEF IInv, callVars, chanVars, closeVars
<1>a. hand[c] = c /\ qid[c] # NoId /\ hand[Reader] # c
  BY DEF FailOwn, HandOwn, CallState
<1>b. InHand(c)
  BY ZenonT(60), <1>a DEF InHand, Workers
<1>1. TypeOK'
  BY ZenonT(60), <1>a, <1>b DEF TypeOK, ErrKinds, Workers, FailOwn, SendErr
<1>2. MapOwn'
  BY ZenonT(60), <1>a, <1>b DEF TypeOK, MapOwn, CloseState, FailOwn, SendErr
<1>3. UniqueIds'
  BY ZenonT(60), <1>a, <1>b DEF TypeOK, UniqueIds, FailOwn, SendErr
<1>4. HandOwn'
  BY ZenonT(60), <1>a, <1>b DEF TypeOK, HandOwn, CallState, Frames, Workers, FailOwn, SendErr
<1>5. CallState'
  BY ZenonT(60), <1>a, <1>b DEF TypeOK, CallState, Answered, Failed, ErrKinds, FailOwn, SendErr
<1>6. OwnAnswer'
  BY ZenonT(60), <1>a, <1>b DEF TypeOK, OwnAnswer, HandOwn, FailOwn, SendErr
<1>7. CloseState'
  BY ZenonT(60), <1>a, <1>b DEF TypeOK, CloseState, FailOwn, SendErr
<1>8. SingleOwner'
  <2> SUFFICES ASSUME NEW d \in Calls PROVE OneOwner(d)'
    BY DEF SingleOwner
  <2>0. OneOwner(d)
    BY DEF SingleOwner
  <2>1. InMap(d)' <=> InMap(d)
    BY ZenonT(60), <1>a, <1>b DEF InMap, TypeOK, FailOwn, SendErr
  <2>2. InHand(d)' <=> (InHand(d) /\ d # c)
    BY <1>a, <1>b, ZenonT(60) DEF InHand, TypeOK, Workers, HandOwn, FailOwn, SendErr
  <2>3. Answered(d)' <=> Answered(d)
    BY ZenonT(60), <1>a, <1>b DEF Answered, TypeOK, CallState, FailOwn, SendErr
  <2>4. Failed(d)' <=> (Failed(d) \/ d = c)
    BY ZenonT(60), <1>a, <1>b DEF Failed, TypeOK, CallState, ErrKinds, FailOwn, SendErr
  <2>5. (d \in drain)' <=> (d \in drain)
    BY ZenonT(60), <1>a, <1>b DEF TypeOK, FailOwn, SendErr
  <2>6. (qid[d] # NoId)' <=> (qid[d] # NoId)
    BY ZenonT(60), <1>a, <1>b DEF TypeOK, FailOwn, SendErr
  <2> QED BY ZenonT(60), <1>a, <1>b, <2>0, <2>1, <2>2, <2>3, <2>4, <2>5, <2>6 DEF OneOwner
<1> QED BY ZenonT(60), <1>1, <1>2, <1>3, <1>4, <1>5, <1>6, <1>7, <1>8 DEF IInv

\* The reader takes the call its frame answers out of the map.
LEMMA ReadFrameInv ==
  ASSUME NEW c \in Calls, NEW k \in {"answer", "error"}, IInv, ReadFrame(c, k)
  PROVE  IInv'
<1> USE CallsAssumption DEF IInv, callVars, chanVars, closeVars
<1>a. qid[c] \in Ids /\ pending[qid[c]] = c /\ InMap(c)
  BY ZenonT(60) DEF ReadFrame, TypeOK, MapOwn, UniqueIds, CallState, InMap
<1>b. ~InHand(c) /\ pc[c] # "failing"
  BY <1>a DEF SingleOwner, OneOwner, InHand, Workers, HandOwn
<1>c. [kind |-> k, payload |-> c] \in Frames
  BY ZenonT(60) DEF Frames
<1>1. TypeOK'
  BY ZenonT(60), <1>a, <1>b, <1>c DEF TypeOK, ErrKinds, Workers, ReadFrame, Take
<1>2. MapOwn'
  BY ZenonT(60), <1>a, <1>b, <1>c DEF TypeOK, MapOwn, CloseState, ReadFrame, Take
<1>3. UniqueIds'
  BY ZenonT(60), <1>a, <1>b, <1>c DEF TypeOK, UniqueIds, ReadFrame, Take
<1>4. HandOwn'
  BY ZenonT(60), <1>a, <1>b, <1>c DEF TypeOK, HandOwn, CallState, Frames, Workers, ReadFrame, Take
<1>5. CallState'
  BY ZenonT(60), <1>a, <1>b, <1>c DEF TypeOK, CallState, Answered, Failed, ErrKinds, ReadFrame, Take
<1>6. OwnAnswer'
  BY ZenonT(60), <1>a, <1>b, <1>c DEF TypeOK, OwnAnswer, HandOwn, ReadFrame, Take
<1>7. CloseState'
  BY ZenonT(60), <1>a, <1>b, <1>c DEF TypeOK, CloseState, ReadFrame, Take
<1>8. SingleOwner'
  <2> SUFFICES ASSUME NEW d \in Calls PROVE OneOwner(d)'
    BY DEF SingleOwner
  <2>0. OneOwner(d)
    BY ZenonT(60) DEF SingleOwner
  <2>1. InMap(d)' <=> (InMap(d) /\ d # c)
    BY ZenonT(60), <1>a, <1>b, <1>c DEF InMap, TypeOK, UniqueIds, ReadFrame, Take
  <2>2. InHand(d)' <=> (InHand(d) \/ d = c)
    BY <1>a, <1>b, <1>c, ZenonT(60) DEF InHand, TypeOK, Workers, ReadFrame, Take
  <2>3. Answered(d)' <=> Answered(d)
    BY ZenonT(60), <1>a, <1>b, <1>c DEF Answered, TypeOK, CallState, ReadFrame, Take
  <2>4. Failed(d)' <=> Failed(d)
    BY ZenonT(60), <1>a, <1>b, <1>c DEF Failed, TypeOK, CallState, ErrKinds, ReadFrame, Take
  <2>5. (d \in drain)' <=> (d \in drain)
    BY ZenonT(60), <1>a, <1>b, <1>c DEF TypeOK, ReadFrame, Take
  <2>6. (qid[d] # NoId)' <=> (qid[d] # NoId)
    BY ZenonT(60), <1>a, <1>b, <1>c DEF TypeOK, ReadFrame, Take
  <2> QED BY <1>a, <1>b, <1>c, <2>0, <2>1, <2>2, <2>3, <2>4, <2>5, <2>6 DEF OneOwner
<1> QED BY ZenonT(60), <1>1, <1>2, <1>3, <1>4, <1>5, <1>6, <1>7, <1>8 DEF IInv

\* The reader sends to the call in its hand.
LEMMA DeliverInv ==
  ASSUME IInv, Deliver
  PROVE  IInv'
<1> USE CallsAssumption DEF IInv, callVars, chanVars, closeVars
<1> DEFINE h == hand[Reader]
<1>a. h \in Calls /\ frame.payload = h /\ qid[h] # NoId /\ pc[h] # "failing" /\ InHand(h)
  BY ZenonT(60) DEF Deliver, HandOwn, TypeOK, InHand, Workers
<1>b. ~Answered(h) /\ ~Failed(h)
  BY ZenonT(60), <1>a DEF SingleOwner, OneOwner
<1>d. answerCh[h] = NoCall /\ errCh[h] = "none"
  BY ZenonT(60), <1>b DEF Answered, Failed
<1>c. /\ answerCh' = IF frame.kind = "answer" THEN [answerCh EXCEPT ![h] = h] ELSE answerCh
      /\ errCh' = IF frame.kind = "answer" THEN errCh
                ELSE [e \in Calls |-> IF e = h THEN "proxy" ELSE errCh[e]]
      /\ hand' = [hand EXCEPT ![Reader] = NoCall]
      /\ frame' = NoFrame
      /\ UNCHANGED <<callVars, pending, expired, wire, closeVars>>
  <2>1. CASE frame.kind = "answer"
    BY ZenonT(60), <1>a, <1>d, <2>1 DEF Deliver, SendAnswer, TypeOK
  <2>2. CASE frame.kind # "answer"
    <3>1. errCh' = [e \in Calls |-> IF e \in {h} /\ errCh[e] = "none"
                                   THEN "proxy" ELSE errCh[e]]
      BY ZenonT(60), <2>2 DEF Deliver, SendErr
    <3>2. errCh' = [e \in Calls |-> IF e = h THEN "proxy" ELSE errCh[e]]
      BY ZenonT(60), <3>1, <1>d
    <3> QED BY ZenonT(60), <2>2, <3>2 DEF Deliver
  <2> QED BY ZenonT(60), <2>1, <2>2
<1> HIDE DEF h
<1>1. TypeOK'
  BY ZenonT(60), <1>a, <1>b, <1>c DEF TypeOK, ErrKinds, Workers
<1>2. MapOwn'
  BY ZenonT(60), <1>a, <1>b, <1>c DEF TypeOK, MapOwn, CloseState
<1>3. UniqueIds'
  BY ZenonT(60), <1>a, <1>b, <1>c DEF TypeOK, UniqueIds
<1>4. HandOwn'
  BY ZenonT(60), <1>a, <1>b, <1>c DEF TypeOK, HandOwn, CallState, Frames, Workers
<1>5. CallState'
  BY ZenonT(60), <1>a, <1>b, <1>c DEF TypeOK, CallState, Answered, Failed, ErrKinds
<1>6. OwnAnswer'
  BY ZenonT(60), <1>a, <1>b, <1>c DEF TypeOK, OwnAnswer, HandOwn
<1>7. CloseState'
  BY ZenonT(60), <1>a, <1>b, <1>c DEF TypeOK, CloseState
<1>8. SingleOwner'
  <2> SUFFICES ASSUME NEW d \in Calls PROVE OneOwner(d)'
    BY DEF SingleOwner
  <2>0. OneOwner(d)
    BY DEF SingleOwner
  <2>1. InMap(d)' <=> InMap(d)
    BY ZenonT(60), <1>a, <1>b, <1>c DEF InMap, TypeOK
  <2>2. InHand(d)' <=> (InHand(d) /\ d # h)
    BY ZenonT(60), <1>a, <1>b, <1>c DEF InHand, TypeOK, Workers, HandOwn, h
  <2>3. Answered(d)' <=> (Answered(d) \/ (d = h /\ frame.kind = "answer"))
    BY ZenonT(60), <1>a, <1>b, <1>c DEF Answered, TypeOK
  <2>4. Failed(d)' <=> (Failed(d) \/ (d = h /\ frame.kind # "answer"))
    BY ZenonT(60), <1>a, <1>b, <1>c DEF Failed, TypeOK, ErrKinds
  <2>5. (d \in drain)' <=> (d \in drain)
    BY ZenonT(60), <1>a, <1>b, <1>c DEF TypeOK
  <2>6. (qid[d] # NoId)' <=> (qid[d] # NoId)
    BY ZenonT(60), <1>a, <1>b, <1>c DEF TypeOK
  <2> QED BY ZenonT(60), <1>a, <1>b, <1>c, <2>0, <2>1, <2>2, <2>3, <2>4, <2>5, <2>6 DEF OneOwner
<1> QED BY ZenonT(60), <1>1, <1>2, <1>3, <1>4, <1>5, <1>6, <1>7, <1>8 DEF IInv

----------------------------------------------------------------------------
\* The initial state satisfies IInv.
LEMMA InitInv == Init => IInv
<1> SUFFICES ASSUME Init PROVE IInv
  OBVIOUS
<1> USE CallsAssumption DEF Init
<1>1. TypeOK
  BY ZenonT(60) DEF TypeOK, Workers
<1>2. MapOwn /\ UniqueIds /\ HandOwn /\ OwnAnswer /\ CloseState
  BY DEF MapOwn, UniqueIds, HandOwn, OwnAnswer, CloseState, Workers
<1>3. CallState
  BY DEF CallState, Answered, Failed, ErrKinds
<1>4. SingleOwner
  BY DEF SingleOwner, OneOwner, InMap, InHand, Answered, Failed, ErrKinds, Workers
<1> QED BY ZenonT(60), <1>1, <1>2, <1>3, <1>4 DEF IInv

\* Every step of Next preserves IInv.
LEMMA NextInv == IInv /\ [Next]_vars => IInv'
<1> SUFFICES ASSUME IInv, [Next]_vars PROVE IInv'
  OBVIOUS
<1>1. ASSUME NEW c \in Calls,
             \/ SendQuery(c) \/ SendQueryRefused(c)
             \/ WriteFrame(c) \/ WriteFrameFails(c) \/ FailOwn(c) \/ SendQueryFails(c)
             \/ AwaitAnswer(c) \/ AwaitErr(c) \/ GiveUp(c)
             \/ Expire(c) \/ FailNext(c)
             \/ ReadFrame(c, "answer") \/ ReadFrame(c, "error")
      PROVE  IInv'
  BY <1>1, SendQueryInv, SendQueryRefusedInv, WriteFrameInv, WriteFrameFailsInv,
     FailOwnInv, SendQueryFailsInv, AwaitAnswerInv, AwaitErrInv, GiveUpInv,
     ExpireInv, FailNextInv, ReadFrameInv
<1>2. CASE Deliver \/ gcExpired \/ CloseConn \/ failAll \/ CloseDone
  BY ZenonT(60), <1>2, DeliverInv, gcExpiredInv, CloseConnInv, failAllInv, CloseDoneInv
<1>3. CASE UNCHANGED vars
  <2> USE <1>3 DEF vars, IInv
  <2>1. (TypeOK /\ MapOwn /\ UniqueIds /\ HandOwn)'
    BY ZenonT(60) DEF TypeOK, MapOwn, UniqueIds, HandOwn
  <2>2. (CallState /\ OwnAnswer /\ CloseState)'
    BY ZenonT(60) DEF CallState, OwnAnswer, CloseState, Answered, Failed
  <2>3. SingleOwner'
    BY ZenonT(60), Unmoved DEF Answered, Failed
  <2> QED BY ZenonT(60), <2>1, <2>2, <2>3
<1> QED BY <1>1, <1>2, <1>3 DEF Next

\* IInv is an invariant of the connection.
THEOREM Invariance == Spec => []IInv
BY InitInv, NextInv, PTL DEF Spec

\* Every variable keeps its type.
THEOREM TypeCorrect == Spec => []TypeOK
<1>1. IInv => TypeOK
  BY DEF IInv
<1> QED BY <1>1, Invariance, PTL

\* deliver, fail, failAll and gcExpired resolve a registered query once,
\* whatever their order.
THEOREM ResolvedOnce == Spec => []SingleOwner
<1>1. IInv => SingleOwner
  BY DEF IInv
<1> QED BY <1>1, Invariance, PTL

\* No caller of awaitQuery or WorkerTypes receives another query's answer.
THEOREM NoCrossedAnswers == Spec => []AnswerMatches
<1>1. IInv => AnswerMatches
  BY DEF IInv, OwnAnswer, AnswerMatches
<1> QED BY <1>1, Invariance, PTL

\* When Closed() is readable every registered query is resolved or in the
\* hand of a goroutine about to resolve it.
THEOREM CloseReachesAll == Spec => []ClosedMeansResolved
<1>1. IInv => ClosedMeansResolved
  <2> SUFFICES ASSUME IInv, tr = "closed", NEW c \in Calls, qid[c] # NoId
               PROVE  InHand(c) \/ Answered(c) \/ Failed(c)
    BY DEF ClosedMeansResolved
  <2>1. OneOwner(c) /\ c \notin drain
    BY DEF IInv, SingleOwner, CloseState
  <2>2. ~InMap(c)
    BY CallsAssumption DEF IInv, CloseState, InMap
  <2> QED BY <2>1, <2>2 DEF OneOwner
<1> QED BY <1>1, Invariance, PTL

----------------------------------------------------------------------------
(* The refinement: how a step of the connection looks to QueryService.     *)

\* A step that changes no call's standing is a stuttering step.
LEMMA Quiet ==
  ASSUME \A d \in Calls : svcBar(d)' = svcBar(d) /\ retBar(d)' = retBar(d)
  PROVE  UNCHANGED QS!vars
BY DEF QS!vars

\* A step in which a caller returns and no query is resolved.
LEMMA ReturnStep ==
  ASSUME NEW c \in Calls, IInv, outcome[c] = "none",
         UNCHANGED qid, NEW how, outcome' = [outcome EXCEPT ![c] = how],
         how # "none", how = "answer" => svcBar(c) = "answered",
         \A d \in Calls : svcBar(d)' = svcBar(d)
  PROVE  QS!Next
<1>1. /\ retBar(c) = "none"
      /\ \A d \in Calls :
           retBar(d)' = IF d = c THEN (IF how = "answer" THEN "answer" ELSE "error")
                                 ELSE retBar(d)
  BY ZenonT(60) DEF retBar, IInv, TypeOK
<1>2. CASE how = "answer"
  <2>1. QS!ReturnAnswer(c)
    BY ZenonT(60), <1>1, <1>2 DEF QS!ReturnAnswer
  <2> QED BY ZenonT(60), <2>1 DEF QS!Next
<1>3. CASE how # "answer" /\ svcBar(c) = "idle"
  <2>1. QS!Refuse(c)
    BY ZenonT(60), <1>1, <1>3 DEF QS!Refuse
  <2> QED BY <2>1 DEF QS!Next
<1>4. CASE how # "answer" /\ svcBar(c) # "idle"
  <2>1. QS!ReturnError(c)
    BY ZenonT(60), <1>1, <1>4 DEF QS!ReturnError
  <2> QED BY <2>1 DEF QS!Next
<1> QED BY ZenonT(60), <1>2, <1>3, <1>4

\* A step that fails the calls of S.
LEMMA FailStep ==
  ASSUME NEW S \in SUBSET Calls, \A c \in S : svcBar(c) = "open",
         \A d \in Calls : svcBar(d)' = IF d \in S THEN "failed" ELSE svcBar(d),
         UNCHANGED outcome
  PROVE  QS!Next
<1>1. QS!Fail(S)
  BY DEF QS!Fail, retBar
<1> QED BY <1>1 DEF QS!Next

\* Every step of the connection is a step of QueryService or a stuttering
\* step.
LEMMA StepRefines == IInv /\ IInv' /\ [Next]_vars => [QS!Next]_(QS!vars)
<1> SUFFICES ASSUME IInv, IInv', [Next]_vars
             PROVE  QS!Next \/ UNCHANGED QS!vars
  OBVIOUS
<1> USE CallsAssumption DEF callVars, chanVars, closeVars
<1>t. /\ TypeOK /\ TypeOK' /\ CallState
      /\ \A d \in Calls : OneOwner(d) /\ OneOwner(d)'
  BY DEF IInv, SingleOwner
<1> DEFINE Same(d) == (Answered(d)' <=> Answered(d)) /\ (Failed(d)' <=> Failed(d))
<1>s. ASSUME UNCHANGED qid, \A d \in Calls : Same(d)
      PROVE  \A d \in Calls : svcBar(d)' = svcBar(d)
  BY <1>s DEF svcBar
<1>1. ASSUME NEW c \in Calls, SendQuery(c) PROVE QS!Next
  <2>1. PICK id \in Ids : qid' = [qid EXCEPT ![c] = id]
    BY ZenonT(60), <1>1 DEF SendQuery, register
  <2>2. /\ svcBar(c) = "idle" /\ retBar(c) = "none"
        /\ UNCHANGED outcome /\ \A d \in Calls : Same(d)
        /\ ~Answered(c) /\ ~Failed(c)
    BY <1>1, <1>t DEF SendQuery, svcBar, retBar, CallState, Answered, Failed
  <2>3. \A d \in Calls : svcBar(d)' = IF d = c THEN "open" ELSE svcBar(d)
    <3> SUFFICES ASSUME NEW d \in Calls
                 PROVE  svcBar(d)' = IF d = c THEN "open" ELSE svcBar(d)
      OBVIOUS
    <3>1. qid'[d] = IF d = c THEN id ELSE qid[d]
      BY ZenonT(60), <2>1, <1>t DEF TypeOK
    <3>2. CASE d = c
      BY ZenonT(60), <2>2, <3>1, <3>2 DEF svcBar
    <3>3. CASE d # c
      BY ZenonT(60), <2>2, <3>1, <3>3 DEF svcBar
    <3> QED BY <3>2, <3>3
  <2>4. QS!Open(c)
    BY ZenonT(60), <2>2, <2>3 DEF QS!Open, retBar
  <2> QED BY <2>4 DEF QS!Next
<1>2. ASSUME NEW c \in Calls, SendQueryRefused(c) \/ SendQueryFails(c) PROVE QS!Next
  <2>1. PICK how \in {"refused", "not sent"} : outcome' = [outcome EXCEPT ![c] = how]
    BY ZenonT(60), <1>2 DEF SendQueryRefused, SendQueryFails, Return
  <2>2. outcome[c] = "none" /\ UNCHANGED <<qid, answerCh, errCh, got>>
    BY ZenonT(60), <1>2, <1>t DEF SendQueryRefused, SendQueryFails, CallState
  <2>3. \A d \in Calls : Same(d)
    BY ZenonT(60), <2>1, <2>2, <1>t DEF Answered, Failed, TypeOK, ErrKinds
  <2> QED BY ZenonT(60), <2>1, <2>2, <2>3, <1>s, ReturnStep
<1>3. ASSUME NEW c \in Calls, AwaitAnswer(c) PROVE QS!Next
  <2>1. /\ outcome' = [outcome EXCEPT ![c] = "answer"] /\ outcome[c] = "none"
        /\ UNCHANGED qid /\ Answered(c)
    BY ZenonT(60), <1>3, <1>t DEF AwaitAnswer, Return, CallState, Answered
  <2>2. \A d \in Calls : Same(d)
    <3>1. \A d \in Calls : Answered(d)' <=> Answered(d)
      BY ZenonT(60), <1>3, <1>t DEF AwaitAnswer, Answered, TypeOK
    <3>2. \A d \in Calls : Failed(d)' <=> Failed(d)
      BY ZenonT(60), <1>3, <1>t, <2>1 DEF AwaitAnswer, Failed, TypeOK, ErrKinds
    <3> QED BY ZenonT(60), <3>1, <3>2
  <2> QED BY ZenonT(60), <2>1, <2>2, <1>s, ReturnStep DEF svcBar
<1>4. ASSUME NEW c \in Calls, AwaitErr(c) PROVE QS!Next
  <2>1. /\ outcome' = [outcome EXCEPT ![c] = errCh[c]] /\ outcome[c] = "none"
        /\ UNCHANGED qid /\ errCh[c] # "none"
    BY <1>4, <1>t DEF AwaitErr, Return, CallState
  <2>2. \A d \in Calls : Same(d)
    BY <1>4, <1>t, ZenonT(60) DEF AwaitErr, Return, Answered, Failed, TypeOK, ErrKinds
  <2>3. errCh[c] # "answer"
    BY ZenonT(60), <2>1, <1>t DEF TypeOK, ErrKinds
  <2> QED BY ZenonT(60), <2>1, <2>2, <2>3, <1>s, ReturnStep
<1>5. ASSUME NEW c \in Calls, GiveUp(c) PROVE QS!Next
  <2>1. PICK how \in {"ctx", "connection failed", "gave up"} :
          outcome' = [outcome EXCEPT ![c] = how]
    BY ZenonT(60), <1>5 DEF GiveUp, Return
  <2>2. outcome[c] = "none" /\ UNCHANGED <<qid, answerCh, errCh, got>>
    BY ZenonT(60), <1>5, <1>t DEF GiveUp, CallState
  <2>3. \A d \in Calls : Same(d)
    BY ZenonT(60), <2>1, <2>2, <1>t DEF Answered, Failed, TypeOK, ErrKinds
  <2> QED BY ZenonT(60), <2>1, <2>2, <2>3, <1>s, ReturnStep
<1>6. ASSUME NEW c \in Calls, FailOwn(c) PROVE QS!Next
  <2>1. hand[c] = c /\ InHand(c) /\ qid[c] # NoId
    BY ZenonT(60), <1>6 DEF FailOwn, IInv, HandOwn, CallState, InHand, Workers
  <2>2. svcBar(c) = "open" /\ UNCHANGED <<qid, outcome>>
    BY ZenonT(60), <1>6, <2>1, <1>t DEF OneOwner, svcBar, FailOwn
  <2>3. \A d \in Calls : /\ Answered(d)' <=> Answered(d)
                         /\ Failed(d)' <=> (Failed(d) \/ d = c)
    BY ZenonT(60), <1>6, <2>1, <1>t DEF FailOwn, SendErr, Answered, Failed, TypeOK
  <2>4. \A d \in Calls : svcBar(d)' = IF d \in {c} THEN "failed" ELSE svcBar(d)
    BY ZenonT(60), <2>1, <2>2, <2>3, <1>t DEF svcBar, OneOwner
  <2> QED BY ZenonT(60), <2>2, <2>4, FailStep
<1>7. ASSUME NEW c \in Calls, FailNext(c) PROVE QS!Next
  <2>1. c \in drain /\ qid[c] # NoId
    BY ZenonT(60), <1>7, <1>t DEF FailNext, CallState
  <2>2. svcBar(c) = "open" /\ UNCHANGED <<qid, outcome>>
    BY ZenonT(60), <1>7, <2>1, <1>t DEF OneOwner, svcBar, FailNext
  <2>3. \A d \in Calls : /\ Answered(d)' <=> Answered(d)
                         /\ Failed(d)' <=> (Failed(d) \/ d = c)
    BY ZenonT(60), <1>7, <1>t DEF FailNext, SendErr, Answered, Failed, TypeOK
  <2>4. \A d \in Calls : svcBar(d)' = IF d \in {c} THEN "failed" ELSE svcBar(d)
    BY ZenonT(60), <2>1, <2>2, <2>3, <1>t DEF svcBar, OneOwner
  <2> QED BY ZenonT(60), <2>2, <2>4, FailStep
<1>8. ASSUME gcExpired PROVE QS!Next
  <2> DEFINE dead == {c \in expired : InMap(c)}
  <2>1. /\ errCh' = [e \in Calls |-> IF e \in dead /\ errCh[e] = "none"
                                     THEN "timeout" ELSE errCh[e]]
        /\ UNCHANGED <<qid, outcome, got, answerCh>>
    BY ZenonT(60), <1>8 DEF gcExpired, SendErr
  <2>2. \A e \in dead : e \in Calls /\ InMap(e) /\ qid[e] # NoId
    BY ZenonT(60), <1>t DEF InMap, TypeOK
  <2> HIDE DEF dead
  <2>3. \A e \in dead : svcBar(e) = "open"
    BY ZenonT(60), <2>2, <1>t DEF OneOwner, svcBar
  <2>4. \A d \in Calls : /\ Answered(d)' <=> Answered(d)
                         /\ Failed(d)' <=> (Failed(d) \/ d \in dead)
    BY ZenonT(60), <2>1, <1>t DEF Answered, Failed, TypeOK
  <2>5. \A d \in Calls : svcBar(d)' = IF d \in dead THEN "failed" ELSE svcBar(d)
    BY ZenonT(60), <2>1, <2>2, <2>4, <1>t DEF svcBar, OneOwner
  <2> QED BY ZenonT(60), <2>1, <2>2, <2>3, <2>5, FailStep
<1>9. ASSUME Deliver PROVE QS!Next
  <2> DEFINE h == hand[Reader]
  <2>1. h \in Calls /\ InHand(h) /\ qid[h] # NoId /\ frame.payload = h
    BY ZenonT(60), <1>9 DEF Deliver, IInv, HandOwn, TypeOK, InHand, Workers
  <2>2. svcBar(h) = "open" /\ UNCHANGED <<qid, outcome, got>>
    BY ZenonT(60), <1>9, <2>1, <1>t DEF OneOwner, svcBar, Deliver
  <2>3. CASE frame.kind = "answer"
    <3>1. \A d \in Calls : /\ Answered(d)' <=> (Answered(d) \/ d = h)
                           /\ Failed(d)' <=> Failed(d)
      BY <1>9, <2>1, <2>2, <2>3, <1>t, ZenonT(60) DEF Deliver, SendAnswer, Answered, Failed, TypeOK
    <3> HIDE DEF h
    <3>2. \A d \in Calls : svcBar(d)' = IF d = h THEN "answered" ELSE svcBar(d)
      BY ZenonT(60), <2>1, <2>2, <3>1 DEF svcBar
    <3>3. QS!Answer(h)
      BY ZenonT(60), <2>1, <2>2, <3>2 DEF QS!Answer, retBar
    <3> QED BY <2>1, <3>3 DEF QS!Next
  <2>4. CASE frame.kind # "answer"
    <3>1. \A d \in Calls : /\ Answered(d)' <=> Answered(d)
                           /\ Failed(d)' <=> (Failed(d) \/ d = h)
      <4>1. /\ errCh' = [e \in Calls |-> IF e \in {h} /\ errCh[e] = "none"
                                        THEN "proxy" ELSE errCh[e]]
            /\ UNCHANGED answerCh
        BY ZenonT(60), <1>9, <2>4 DEF Deliver, SendErr
      <4> QED BY ZenonT(60), <4>1, <2>1, <2>2, <1>t DEF Answered, Failed, TypeOK
    <3> HIDE DEF h
    <3>2. \A d \in Calls : svcBar(d)' = IF d \in {h} THEN "failed" ELSE svcBar(d)
      BY ZenonT(60), <2>1, <2>2, <3>1, <1>t DEF svcBar, OneOwner
    <3> QED BY ZenonT(60), <2>1, <2>2, <3>2, FailStep
  <2> QED BY ZenonT(60), <2>3, <2>4
<1>10. ASSUME UNCHANGED <<qid, outcome, got, chanVars>> PROVE UNCHANGED QS!vars
  <2>1. \A d \in Calls : Same(d) /\ retBar(d)' = retBar(d)
    BY ZenonT(60), <1>10 DEF Answered, Failed, retBar
  <2> QED BY ZenonT(60), <2>1, <1>10, <1>s, Quiet
<1>11. ASSUME NEW c \in Calls,
              \/ WriteFrame(c) \/ WriteFrameFails(c) \/ Expire(c)
              \/ ReadFrame(c, "answer") \/ ReadFrame(c, "error")
       PROVE  UNCHANGED QS!vars
  BY ZenonT(60), <1>11, <1>10 DEF WriteFrame, WriteFrameFails, Expire, ReadFrame
<1>12. CASE CloseConn \/ failAll \/ CloseDone \/ UNCHANGED vars
  BY <1>12, <1>10 DEF CloseConn, failAll, CloseDone, vars
<1> QED BY <1>1, <1>2, <1>3, <1>4, <1>5, <1>6, <1>7, <1>8, <1>9, <1>11, <1>12 DEF Next

\* The connection implements QueryService: an accepted query is resolved at
\* most once, and a caller returns an answer only if its query was answered.
THEOREM Refinement == Spec => RefinesQueryService
<1>1. Init => QS!Init
  BY DEF Init, QS!Init, svcBar, retBar, Answered, Failed, ErrKinds
<1> QED BY <1>1, StepRefines, Invariance, PTL
           DEF Spec, RefinesQueryService, QS!SafetySpec

----------------------------------------------------------------------------
(* The frames.  DeliveredInOrder says nothing of what is still on the way. *)
(* The invariant gives every frame that took a seqno its place on the wire *)
(* and the seqno of its header: the frames lie back to back from where the *)
(* reader is to where the writers are, and what a break loses is at the    *)
(* end.  It was model checked, with the places computed, before the proof. *)

\* Frames that took a seqno, and the headers that were read.
Last == Len(sent)
Headers == Len(delivered) + (IF reader > 0 THEN 1 ELSE 0)

Header(f, s) == [kind |-> "header", len |-> f[3], seqno |-> s]
Byte(f) == [kind |-> "byte", of |-> f]

\* A sequence, whatever its elements.
IsSeq(s) == \E S : s \in Seq(S)

\* The sizes WriteFrame accepts.
Payloads == MinPayload .. MaxPayload

\* They are positive.
LEMMA PayloadSizes == Payloads \subseteq Nat \ {0}
BY PayloadAssumption DEF Payloads

\* Only such sizes are ever written.
FrameTypes ==
  /\ fpc \in [Writers -> {"idle", "locked", "header"}]
  /\ size \in [Writers -> Sizes \cup {0}]
  /\ calls \in [Writers -> Nat]
  /\ IsSeq(units) /\ IsSeq(sent) /\ IsSeq(delivered)
  /\ broken \in BOOLEAN
  /\ reader \in Int
  /\ \A i \in 1 .. Last : sent[i][3] \in Payloads
  /\ \A w \in Writers : fpc[w] = "header" => size[w] \in Payloads

\* writeMu is held by whoever is in WriteFrame.
Exclusive == \A w \in Writers : fpc[w] # "idle" => fMu = w

\* at[i] is where the header of frame i is, counted from the next unit to read
\* (0 and less: read already), and sq[i] its seqno.
Chained(at, sq) ==
  /\ at \in [1 .. Last + 1 -> Int]
  /\ \A i \in 1 .. Last : at[i + 1] = at[i] + 1 + sent[i][3]
  /\ \A i, k \in 1 .. Last + 1 : i < k => at[i] < at[k]
  /\ \A i \in 1 .. Last : sq[i + 1] = F!Wrap(sq[i] + 1)

\* The units that were written and not lost are those of the frames.
Placed(at, sq) ==
  /\ \A i \in Headers + 1 .. Last :
       at[i] \in 1 .. Len(units) => units[at[i]] = Header(sent[i], sq[i])
  /\ \A i \in 1 .. Last : i >= Headers =>
       \A j \in at[i] + 1 .. at[i + 1] - 1 : j \in 1 .. Len(units) => units[j] = Byte(sent[i])

\* The reader is at the payload of the last header it read, or at a header.
ReadEnd(at, sq) ==
  /\ Headers \in 0 .. Last
  /\ at[Headers + 1] = reader + 1
  /\ sq[Headers + 1] = inSeqno
  /\ reader > 0 => reader = sent[Headers][3]

\* The writers are at the end of the last frame, or one is after its header.
WriteEnd(at, sq) ==
  /\ Len(units) < at[Last + 1]
  /\ ~broken =>
       /\ sq[Last + 1] = outSeqno
       /\ (\A w \in Writers : fpc[w] # "header") => Len(units) = at[Last + 1] - 1
       /\ \A w \in Writers : fpc[w] = "header" =>
            Last > 0 /\ sent[Last] = <<w, calls[w], size[w]>> /\ Len(units) = at[Last]

Layout(at, sq) == Chained(at, sq) /\ Placed(at, sq) /\ ReadEnd(at, sq) /\ WriteEnd(at, sq)

\* The places matter as long as the reader goes on.
FrameInv ==
  /\ FrameTypes
  /\ Exclusive
  /\ reader = -1 \/ (reader >= 0 /\ \E at, sq : Layout(at, sq))
  /\ F!DeliveredInOrder

----------------------------------------------------------------------------
\* Append.
LEMMA Appended ==
  ASSUME NEW s, NEW e, IsSeq(s)
  PROVE  /\ IsSeq(Append(s, e))
         /\ Len(s) \in Nat
         /\ Len(Append(s, e)) = Len(s) + 1
         /\ \A i \in 1 .. Len(s) : Append(s, e)[i] = s[i]
         /\ Append(s, e)[Len(s) + 1] = e
<1>1. PICK S : s \in Seq(S)
      BY DEF IsSeq
<1>2. s \in Seq(S \cup {e}) /\ e \in S \cup {e}
      BY <1>1, SeqMonotonic
<1>3. Append(s, e) \in Seq(S \cup {e})
      BY <1>2
<1>4. QED
      BY <1>2, <1>3, AppendProperties DEF IsSeq

\* SubSeq within the sequence.
LEMMA Cut ==
  ASSUME NEW s, IsSeq(s), NEW m \in 1 .. Len(s) + 1, NEW n \in m - 1 .. Len(s)
  PROVE  /\ IsSeq(SubSeq(s, m, n))
         /\ Len(SubSeq(s, m, n)) = n - m + 1
         /\ \A i \in 1 .. n - m + 1 : SubSeq(s, m, n)[i] = s[m + i - 1]
<1>1. PICK S : s \in Seq(S)
      BY DEF IsSeq
<1>2. Len(s) \in Nat /\ m \in Int /\ n \in Int /\ m - 1 <= n
      BY <1>1
<1>3. \A i \in m .. n : s[i] \in S
      BY SMTT(60), <1>1, <1>2, ElementOfSeq
<1>4. /\ SubSeq(s, m, n) \in Seq(S)
      /\ Len(SubSeq(s, m, n)) = IF m <= n THEN n - m + 1 ELSE 0
      /\ \A i \in 1 .. n - m + 1 : SubSeq(s, m, n)[i] = s[m + i - 1]
      BY SMTT(60), <1>2, <1>3, SubSeqProperties
<1>5. (IF m <= n THEN n - m + 1 ELSE 0) = n - m + 1
      BY <1>2
<1>6. IsSeq(SubSeq(s, m, n))
      BY <1>4, Zenon DEF IsSeq
<1>7. QED
      BY <1>4, <1>5, <1>6, Zenon

\* Head and Tail.
LEMMA Rest ==
  ASSUME NEW s, IsSeq(s), s # << >>
  PROVE  /\ IsSeq(Tail(s)) /\ Len(s) \in Nat /\ Len(s) > 0
         /\ Head(s) = s[1]
         /\ Len(Tail(s)) = Len(s) - 1
         /\ \A i \in 1 .. Len(s) - 1 : Tail(s)[i] = s[i + 1]
<1>1. PICK S : s \in Seq(S)
      BY DEF IsSeq
<1>2. Tail(s) \in Seq(S) /\ Len(s) \in Nat /\ Len(s) > 0
      BY <1>1
<1>3. QED
      BY <1>1, <1>2, HeadTailProperties DEF IsSeq

\* m copies of e.
Copies(b, m, e) == b = [i \in 1 .. m |-> e]

\* t is s, then m times e.
Longer(t, s, m, e) ==
  /\ IsSeq(t) /\ Len(s) \in Nat
  /\ Len(t) = Len(s) + m
  /\ \A i \in 1 .. Len(s) : t[i] = s[i]
  /\ \A i \in Len(s) + 1 .. Len(s) + m : t[i] = e

\* m copies of e at the end.
LEMMA Joined ==
  ASSUME NEW s, IsSeq(s), NEW m \in Nat, NEW e, NEW b, Copies(b, m, e)
  PROVE  Longer(s \o b, s, m, e)
<1>1. PICK S : s \in Seq(S)
      BY DEF IsSeq
<1> DEFINE T == S \cup {e}
<1>2. s \in Seq(T)
      BY <1>1, SeqMonotonic
<1>3. b \in Seq(T) /\ Len(b) = m
      <2>1. b \in [1 .. m -> T]
            BY DEF Copies
      <2>2. b \in Seq(T)
            BY <2>1
      <2>3. QED
            BY <2>1, <2>2
<1>4. s \o b \in Seq(T)
      BY <1>2, <1>3
<1>5. /\ Len(s \o b) = Len(s) + Len(b)
      /\ \A i \in 1 .. Len(s) + Len(b) : (s \o b)[i] = IF i <= Len(s) THEN s[i] ELSE b[i - Len(s)]
      BY ZenonT(60), <1>2, <1>3, ConcatProperties
<1>6. Len(s) \in Nat
      BY <1>2
<1>7. \A i \in Len(s) + 1 .. Len(s) + m : (s \o b)[i] = e
      <2> SUFFICES ASSUME NEW i \in Len(s) + 1 .. Len(s) + m PROVE (s \o b)[i] = e
          BY ZenonT(60)
      <2>1. (s \o b)[i] = b[i - Len(s)] /\ i - Len(s) \in 1 .. m
            BY <1>3, <1>5, <1>6
      <2>2. QED
            BY <2>1 DEF Copies
<1>8. \A i \in 1 .. Len(s) : (s \o b)[i] = s[i]
      BY <1>3, <1>5, <1>6
<1>9. IsSeq(s \o b)
      BY <1>4 DEF IsSeq
<1>10. QED
      BY <1>3, <1>5, <1>6, <1>7, <1>8, <1>9 DEF Longer

----------------------------------------------------------------------------
\* The sequences have lengths.
LEMMA Lengths == FrameTypes => Len(units) \in Nat /\ Last \in Nat /\ Len(delivered) \in Nat
<1> SUFFICES ASSUME FrameTypes PROVE Len(units) \in Nat /\ Last \in Nat /\ Len(delivered) \in Nat
    OBVIOUS
<1>1. PICK S : units \in Seq(S)
      BY DEF FrameTypes, IsSeq
<1>2. PICK T : sent \in Seq(T)
      BY DEF FrameTypes, IsSeq
<1>3. PICK U : delivered \in Seq(U)
      BY DEF FrameTypes, IsSeq
<1>4. QED
      BY <1>1, <1>2, <1>3 DEF Last

\* What was delivered stays in order while frames are only added.
LEMMA StillInOrder ==
  ASSUME FrameTypes, F!DeliveredInOrder, delivered' = delivered, why' \in {"none", "eof"},
         Len(sent') \in Nat, Len(sent') >= Last, \A i \in 1 .. Last : sent'[i] = sent[i]
  PROVE  F!DeliveredInOrder'
<1>1. PICK S : delivered \in Seq(S)
      BY DEF FrameTypes, IsSeq
<1>2. PICK T : sent \in Seq(T)
      BY DEF FrameTypes, IsSeq
<1>3. Len(delivered) \in Nat /\ DOMAIN delivered = 1 .. Len(delivered) /\ Len(sent) \in Nat
      BY <1>1, <1>2
<1>4. \A i \in DOMAIN delivered : sent'[i] = sent[i]
      BY <1>3 DEF Last, F!DeliveredInOrder
<1>5. QED
      BY <1>3, <1>4 DEF Last, F!DeliveredInOrder

\* The layout depends on the units, the frames, the reader and the writers' end.
LEMMA LayoutSame ==
  ASSUME NEW at, NEW sq, Layout(at, sq), WriteEnd(at, sq)',
         UNCHANGED <<units, sent, delivered, reader, inSeqno>>
  PROVE  Layout(at, sq)'
<1>1. Last' = Last /\ Headers' = Headers
      BY DEF Last, Headers
<1>2. Chained(at, sq)'
      BY <1>1 DEF Layout, Chained, F!Wrap
<1>3. Placed(at, sq)'
      BY SMTT(60), <1>1 DEF Layout, Placed
<1>4. ReadEnd(at, sq)'
      BY <1>1 DEF Layout, ReadEnd
<1>5. QED
      BY <1>2, <1>3, <1>4 DEF Layout

\* A writer takes the lock or gives it back without having written.
LEMMA IdleKeeps ==
  ASSUME FrameInv, NEW w \in Writers, "free" \notin Writers,
         F!Lock(w) \/ F!Refuse(w) \/ (broken /\ (F!WriteHeader(w) \/ F!WritePayload(w)))
  PROVE  FrameInv'
<1> USE DEF F!Unlock
<1>1. UNCHANGED <<units, sent, delivered, reader, inSeqno, broken, why>>
      BY SMTT(60) DEF F!Lock, F!Refuse, F!WriteHeader, F!WritePayload
<1>2. FrameTypes'
      <2>1. fpc' \in [Writers -> {"idle", "locked", "header"}]
            BY ZenonT(60) DEF FrameInv, FrameTypes, F!Lock, F!Refuse, F!WriteHeader, F!WritePayload
      <2>2. size' \in [Writers -> Sizes \cup {0}] /\ calls' \in [Writers -> Nat]
            <3>1. CASE F!Lock(w)
              <4>1. calls[w] \in Nat
                    BY SMTT(60) DEF FrameInv, FrameTypes
              <4>2. calls' \in [Writers -> Nat]
                    BY SMTT(60), <3>1, <4>1 DEF FrameInv, FrameTypes, F!Lock
              <4>3. size' \in [Writers -> Sizes \cup {0}]
                    BY SMTT(60), <3>1 DEF FrameInv, FrameTypes, F!Lock
              <4>4. QED
                    BY <4>2, <4>3
            <3>2. CASE ~F!Lock(w)
                  BY SMTT(60), <3>2 DEF FrameInv, FrameTypes, F!Refuse, F!WriteHeader, F!WritePayload
            <3>3. QED
                  BY <3>1, <3>2
      <2>3. \A v \in Writers : fpc'[v] = "header" => fpc[v] = "header" /\ size'[v] = size[v]
            BY DEF FrameInv, FrameTypes, F!Lock, F!Refuse, F!WriteHeader, F!WritePayload
      <2>4. QED
            BY <1>1, <2>1, <2>2, <2>3 DEF FrameInv, FrameTypes, Last, IsSeq
<1>3. Exclusive'
      BY ZenonT(60) DEF FrameInv, FrameTypes, Exclusive, F!Lock, F!Refuse, F!WriteHeader, F!WritePayload
<1>4. F!DeliveredInOrder'
      BY <1>1 DEF FrameInv, F!DeliveredInOrder
<1>5. ASSUME NEW at, NEW sq, Layout(at, sq) PROVE Layout(at, sq)'
      <2>1. Last' = Last
            BY ZenonT(60), <1>1 DEF Last
      <2>2. CASE broken
            BY <1>1, <1>5, <2>1, <2>2, LayoutSame DEF Layout, WriteEnd
      <2>3. CASE ~broken
        <3>1. F!Lock(w) \/ F!Refuse(w)
              BY SMTT(60), <2>3
        <3>2. \A v \in Writers : fpc[v] # "header"
          <4>1. Exclusive
                BY ZenonT(60) DEF FrameInv
          <4>2. (fpc[w] = "idle" /\ fMu = "free") \/ fpc[w] = "locked"
                BY ZenonT(60), <3>1 DEF F!Lock, F!Refuse
          <4>3. fpc[w] # "header" /\ (fMu = "free" \/ fMu = w)
                BY ZenonT(60), <4>1, <4>2 DEF Exclusive
          <4>4. QED
                BY ZenonT(60), <4>1, <4>3 DEF Exclusive
        <3>3. \A v \in Writers : fpc'[v] # "header"
          <4>1. fpc' = [fpc EXCEPT ![w] = "locked"] \/ fpc' = [fpc EXCEPT ![w] = "idle"]
                BY ZenonT(60), <3>1 DEF F!Lock, F!Refuse
          <4>2. fpc \in [Writers -> {"idle", "locked", "header"}]
                BY ZenonT(60) DEF FrameInv, FrameTypes
          <4>3. QED
                BY ZenonT(60), <3>2, <4>1, <4>2
        <3>4. outSeqno' = outSeqno
              BY ZenonT(60), <3>1 DEF F!Lock, F!Refuse
        <3>5. WriteEnd(at, sq)'
              BY <1>1, <1>5, <2>1, <2>3, <3>2, <3>3, <3>4 DEF Layout, WriteEnd
        <3>6. QED
              BY <1>1, <1>5, <3>5, LayoutSame
      <2>4. QED
            BY <2>2, <2>3
<1>6. QED
      BY SMTT(60), <1>1, <1>2, <1>3, <1>4, <1>5 DEF FrameInv

\* A header is written: a frame is added, and its header is the last unit.
LEMMA HeaderKeeps ==
  ASSUME FrameInv, NEW w \in Writers, ~broken, F!WriteHeader(w)
  PROVE  FrameInv'
<1>1. PICK n : n = Last
      OBVIOUS
<1>2. PICK k : k = size[w]
      OBVIOUS
<1>3. PICK f : f = <<w, calls[w], size[w]>>
      BY ZenonT(60)
<1> DEFINE u == Header(f, outSeqno)
<1>4. /\ k \in Payloads /\ k \in Nat \ {0} /\ f[3] = k
      /\ units' = Append(units, u)
      /\ sent' = Append(sent, f)
      /\ fpc' = [fpc EXCEPT ![w] = "header"]
      /\ outSeqno' = F!Wrap(outSeqno + 1)
      /\ UNCHANGED <<fMu, size, calls, broken, inSeqno, reader, why, delivered>>
      <2>1. k \in Payloads
            BY ZenonT(60), <1>2 DEF F!WriteHeader, Payloads
      <2>2. k \in Nat \ {0}
            BY ZenonT(60), <2>1, PayloadSizes
      <2>3. QED
            BY <1>2, <1>3, <2>1, <2>2 DEF F!WriteHeader, Header
<1>5. /\ IsSeq(units') /\ Len(units) \in Nat /\ Len(units') = Len(units) + 1
      /\ \A i \in 1 .. Len(units) : units'[i] = units[i]
      /\ units'[Len(units) + 1] = u
      BY SMTT(60), <1>4, Appended DEF FrameInv, FrameTypes
<1>6. /\ IsSeq(sent') /\ n \in Nat /\ Last' = n + 1 /\ Len(sent') = n + 1
      /\ \A i \in 1 .. n : sent'[i] = sent[i]
      /\ sent'[n + 1] = f
      BY SMTT(60), <1>1, <1>4, Appended DEF FrameInv, FrameTypes, Last
<1>7. FrameTypes'
      <2>1. \A i \in 1 .. Last' : sent'[i][3] \in Payloads
            <3> SUFFICES ASSUME NEW i \in 1 .. n + 1 PROVE sent'[i][3] \in Payloads
                BY SMTT(60), <1>6
            <3>1. CASE i = n + 1
                  BY <1>4, <1>6, <3>1
            <3>2. CASE i \in 1 .. n
                  BY SMTT(60), <1>1, <1>6, <3>2 DEF FrameInv, FrameTypes
            <3>3. QED
                  BY <1>6, <3>1, <3>2
      <2>2. IsSeq(delivered')
            BY <1>4 DEF FrameInv, FrameTypes
      <2>3. fpc' \in [Writers -> {"idle", "locked", "header"}]
            BY <1>4 DEF FrameInv, FrameTypes
      <2>4. \A v \in Writers : fpc'[v] = "header" => size'[v] \in Payloads
            BY ZenonT(60), <1>2, <1>4 DEF FrameInv, FrameTypes
      <2>5. QED
            BY SMTT(60), <1>4, <1>5, <1>6, <2>1, <2>2, <2>3, <2>4 DEF FrameInv, FrameTypes
<1>8. Exclusive'
      BY SMTT(60), <1>4 DEF FrameInv, FrameTypes, Exclusive, F!WriteHeader
<1>9. F!DeliveredInOrder'
      BY <1>1, <1>4, <1>6, StillInOrder DEF FrameInv, F!DeliveredInOrder
<1>10. ASSUME NEW at, NEW sq, Layout(at, sq), reader >= 0 PROVE \E a, s : Layout(a, s)'
  <2> DEFINE a == [i \in 1 .. n + 2 |-> IF i = n + 2 THEN at[n + 1] + 1 + k ELSE at[i]]
             s == [i \in 1 .. n + 2 |-> IF i = n + 2 THEN F!Wrap(sq[n + 1] + 1) ELSE sq[i]]
  <2>1. /\ a \in [1 .. n + 2 -> Int] /\ at \in [1 .. n + 1 -> Int]
        /\ \A i \in 1 .. n + 1 : a[i] = at[i] /\ s[i] = sq[i]
        /\ a[n + 2] = at[n + 1] + 1 + k
        /\ s[n + 2] = F!Wrap(sq[n + 1] + 1)
        BY SMTT(60), <1>1, <1>4, <1>6, <1>10 DEF Layout, Chained
  <2> HIDE DEF a, s
  <2>2. \A v \in Writers : fpc[v] = "header" => FALSE
        BY ZenonT(60) DEF FrameInv, FrameTypes, Exclusive, F!WriteHeader
  <2>3. Len(units) = at[n + 1] - 1 /\ sq[n + 1] = outSeqno
        BY <1>1, <1>10, <2>2 DEF Layout, WriteEnd
  <2>4. Chained(a, s)'
    <3>1. \A i \in 1 .. n + 1 : a[i + 1] = a[i] + 1 + sent'[i][3]
          <4> SUFFICES ASSUME NEW i \in 1 .. n + 1 PROVE a[i + 1] = a[i] + 1 + sent'[i][3]
              BY SMTT(60)
          <4>1. CASE i = n + 1
                BY <1>4, <1>6, <2>1, <4>1
          <4>2. CASE i \in 1 .. n
            <5>1. i \in 1 .. n + 1 /\ i + 1 \in 1 .. n + 1
                  BY SMTT(60), <1>6, <4>2
            <5>2. at[i + 1] = at[i] + 1 + sent[i][3]
                  BY SMTT(60), <1>1, <1>10, <4>2 DEF Layout, Chained
            <5>3. QED
                  BY ZenonT(60), <1>6, <2>1, <4>2, <5>1, <5>2
          <4>3. QED
                BY <1>6, <4>1, <4>2
    <3>2. \A i, j \in 1 .. n + 2 : i < j => a[i] < a[j]
          <4> SUFFICES ASSUME NEW i \in 1 .. n + 2, NEW j \in 1 .. n + 2, i < j PROVE a[i] < a[j]
              OBVIOUS
          <4>0. \A x, y \in 1 .. n + 1 : x < y => at[x] < at[y]
                BY SMTT(60), <1>1, <1>10 DEF Layout, Chained
          <4>1. CASE j = n + 2
            <5>1. at[i] <= at[n + 1] /\ i \in 1 .. n + 1
                  BY SMTT(60), <1>6, <2>1, <4>0, <4>1
            <5>2. at[i] \in Int /\ at[n + 1] \in Int /\ a[i] = at[i]
                  BY SMTT(60), <1>6, <2>1, <5>1
            <5>3. QED
                  BY SMTT(60), <1>4, <2>1, <4>1, <5>1, <5>2
          <4>2. CASE j \in 1 .. n + 1
                BY SMTT(60), <1>6, <2>1, <4>0, <4>2
          <4>3. QED
                BY <1>6, <4>1, <4>2
    <3>3. \A i \in 1 .. n + 1 : s[i + 1] = F!Wrap(s[i] + 1)
          <4> SUFFICES ASSUME NEW i \in 1 .. n + 1 PROVE s[i + 1] = F!Wrap(s[i] + 1)
              OBVIOUS
          <4>1. CASE i = n + 1
                BY <1>6, <2>1, <4>1
          <4>2. CASE i \in 1 .. n
            <5>1. s[i + 1] = sq[i + 1] /\ s[i] = sq[i]
                  BY <1>6, <2>1, <4>2
            <5>2. sq[i + 1] = F!Wrap(sq[i] + 1)
                  BY ZenonT(60), <1>1, <1>10, <4>2 DEF Layout, Chained
            <5>3. QED
                  BY <5>1, <5>2
          <4>3. QED
                BY <1>6, <4>1, <4>2
    <3>4. (n + 1) + 1 = n + 2
          BY <1>6
    <3>5. QED
          BY ZenonT(60), <1>6, <2>1, <3>1, <3>2, <3>3, <3>4 DEF Chained
  <2>5. Headers' = Headers /\ Headers \in 0 .. n
        BY ZenonT(60), <1>1, <1>4, <1>10 DEF Headers, Layout, ReadEnd
  <2>6. Placed(a, s)'
    <3>1. ASSUME NEW i \in Headers + 1 .. n + 1, a[i] \in 1 .. Len(units) + 1
          PROVE  units'[a[i]] = Header(sent'[i], s[i])
          <4>1. CASE i = n + 1
                BY SMTT(60), <1>5, <1>6, <2>1, <2>3, <4>1
          <4>2. CASE i \in 1 .. n
            <5>1. a[i] = at[i] /\ s[i] = sq[i] /\ at[i] < at[n + 1] /\ i \in Headers + 1 .. n
                  BY SMTT(60), <1>1, <1>6, <1>10, <2>1, <2>5, <3>1, <4>2 DEF Layout, Chained
            <5>2. at[i] \in 1 .. Len(units)
                  BY SMTT(60), <1>5, <1>6, <2>1, <2>3, <3>1, <4>2, <5>1
            <5>3. units[at[i]] = Header(sent[i], sq[i])
                  BY ZenonT(60), <1>1, <1>10, <5>1, <5>2 DEF Layout, Placed
            <5>4. QED
                  BY ZenonT(60), <1>5, <1>6, <4>2, <5>1, <5>2, <5>3
          <4>3. QED
                BY SMTT(60), <1>6, <2>5, <4>1, <4>2
    <3>2. ASSUME NEW i \in 1 .. n + 1, i >= Headers, NEW j \in a[i] + 1 .. a[i + 1] - 1,
                 j \in 1 .. Len(units) + 1
          PROVE  units'[j] = Byte(sent'[i])
          <4>1. CASE i = n + 1
                BY SMTT(60), <1>5, <1>6, <2>1, <2>3, <3>2, <4>1
          <4>2. CASE i \in 1 .. n
            <5>0. i \in 1 .. n + 1 /\ i + 1 \in 1 .. n + 1 /\ n + 1 \in 1 .. n + 1
                  BY <1>6, <4>2
            <5>1. /\ a[i] = at[i] /\ a[i + 1] = at[i + 1] /\ at[i + 1] <= at[n + 1]
                  /\ at[i] \in Int /\ at[i + 1] \in Int /\ at[n + 1] \in Int
              <6>1. \A x, y \in 1 .. n + 1 : x < y => at[x] < at[y]
                    BY <1>1, <1>10 DEF Layout, Chained
              <6>2. at[i + 1] <= at[n + 1]
                <7>1. CASE i + 1 = n + 1
                      BY <2>1, <5>0, <7>1
                <7>2. CASE i + 1 < n + 1
                      BY SMTT(60), <2>1, <5>0, <6>1, <7>2
                <7>3. QED
                      BY <1>6, <4>2, <7>1, <7>2
              <6>3. QED
                    BY ZenonT(60), <2>1, <5>0, <6>2
            <5>2. j \in at[i] + 1 .. at[i + 1] - 1 /\ j \in 1 .. Len(units)
                  BY SMTT(60), <1>5, <2>3, <3>2, <5>1
            <5>3. units[j] = Byte(sent[i])
                  BY <1>1, <1>10, <3>2, <4>2, <5>2 DEF Layout, Placed
            <5>4. QED
                  BY ZenonT(60), <1>5, <1>6, <4>2, <5>2, <5>3
          <4>3. QED
                BY SMTT(60), <1>6, <4>1, <4>2
    <3>3. QED
          BY ZenonT(60), <1>5, <1>6, <2>5, <3>1, <3>2 DEF Placed
  <2>7. ReadEnd(a, s)'
    <3>1. /\ at[Headers + 1] = reader + 1
          /\ sq[Headers + 1] = inSeqno
          /\ reader > 0 => reader = sent[Headers][3]
          BY <1>10 DEF Layout, ReadEnd
    <3>2. Headers + 1 \in 1 .. n + 1
          BY <1>6, <2>5
    <3>3. a[Headers + 1] = at[Headers + 1] /\ s[Headers + 1] = sq[Headers + 1]
          BY <2>1, <3>2
    <3>4. reader > 0 => Headers \in 1 .. n
      BY SMTT(60), <1>6, <2>5, Lengths DEF FrameInv, Headers
    <3>5. Headers \in 0 .. n + 1
          BY SMTT(60), <1>6, <2>5
    <3>6. QED
          BY ZenonT(60), <1>4, <1>6, <2>5, <3>1, <3>3, <3>4, <3>5 DEF ReadEnd
  <2>8. WriteEnd(a, s)'
    <3>1. Len(units') = a[n + 1] /\ a[n + 1] < a[n + 2] /\ s[n + 2] = outSeqno'
          BY SMTT(60), <1>4, <1>5, <1>6, <2>1, <2>3
    <3>2. \A v \in Writers : fpc'[v] = "header" => v = w
          BY <1>4, <2>2 DEF FrameInv, FrameTypes
    <3>3. fpc'[w] = "header"
          BY ZenonT(60), <1>4 DEF FrameInv, FrameTypes
    <3>4. sent'[n + 1] = <<w, calls'[w], size'[w]>>
          BY <1>3, <1>4, <1>6
    <3>5. QED
          BY SMTT(60), <1>6, <3>1, <3>2, <3>3, <3>4 DEF WriteEnd
  <2>9. Layout(a, s)'
        BY SMTT(60), <2>4, <2>6, <2>7, <2>8 DEF Layout
  <2>10. QED
        BY ZenonT(60), <2>9
<1>11. QED
      BY <1>4, <1>7, <1>8, <1>9, <1>10 DEF FrameInv

\* The payload is written: it completes the last frame.
LEMMA PayloadKeeps ==
  ASSUME FrameInv, NEW w \in Writers, "free" \notin Writers, ~broken, F!WritePayload(w)
  PROVE  FrameInv'
<1>1. PICK n : n = Last
      OBVIOUS
<1>2. PICK k : k = size[w]
      OBVIOUS
<1>3. PICK f : f = <<w, calls[w], size[w]>>
      BY ZenonT(60)
<1>4. /\ k \in Payloads /\ k \in Nat \ {0}
      /\ units' = units \o [i \in 1 .. k |-> Byte(f)]
      /\ fpc' = [fpc EXCEPT ![w] = "idle"]
      /\ UNCHANGED <<size, calls, outSeqno, broken, inSeqno, reader, why, sent, delivered>>
      <2>1. k \in Payloads
            BY ZenonT(60), <1>2 DEF FrameInv, FrameTypes, F!WritePayload
      <2>2. k \in Nat \ {0}
            BY ZenonT(60), <2>1, PayloadSizes
      <2>3. QED
            BY ZenonT(60), <1>2, <1>3, <2>1, <2>2 DEF F!WritePayload, F!Unlock, Byte
<1>5. /\ IsSeq(units') /\ Len(units) \in Nat
      /\ Len(units') = Len(units) + k
      /\ \A i \in 1 .. Len(units) : units'[i] = units[i]
      /\ \A i \in Len(units) + 1 .. Len(units) + k : units'[i] = Byte(f)
      <2>1. k \in Nat /\ IsSeq(units)
            BY <1>4 DEF FrameInv, FrameTypes
      <2>2. PICK e : e = Byte(f)
            OBVIOUS
      <2>3. PICK b : Copies(b, k, e)
            BY ZenonT(60) DEF Copies
      <2>4. units' = units \o b
            BY <1>4, <2>2, <2>3 DEF Copies
      <2>5. Longer(units \o b, units, k, e)
            BY ZenonT(60), <2>1, <2>3, Joined
      <2>6. QED
            BY ZenonT(60), <2>2, <2>4, <2>5 DEF Longer
<1>6. n \in Nat /\ Last' = n /\ Headers' = Headers
      BY <1>1, <1>4, Lengths DEF FrameInv, Last, Headers
<1>7. \A v \in Writers : fpc'[v] # "header"
      BY ZenonT(60), <1>4 DEF FrameInv, FrameTypes, Exclusive, F!WritePayload
<1>8. FrameTypes'
      <2>1. fpc' \in [Writers -> {"idle", "locked", "header"}]
            BY ZenonT(60), <1>4 DEF FrameInv, FrameTypes
      <2>2. QED
            BY ZenonT(60), <1>1, <1>4, <1>5, <1>6, <1>7, <2>1 DEF FrameInv, FrameTypes, IsSeq
<1>9. Exclusive'
      BY ZenonT(60), <1>4 DEF FrameInv, FrameTypes, Exclusive, F!WritePayload
<1>10. F!DeliveredInOrder'
      BY ZenonT(60), <1>4 DEF FrameInv, F!DeliveredInOrder
<1>11. ASSUME NEW at, NEW sq, Layout(at, sq), reader >= 0 PROVE Layout(at, sq)'
  <2>1. /\ n > 0 /\ sent[n] = f /\ Len(units) = at[n]
        BY ZenonT(60), <1>1, <1>3, <1>11 DEF Layout, WriteEnd, F!WritePayload
  <2>2. /\ at \in [1 .. n + 1 -> Int]
        /\ \A i, j \in 1 .. n + 1 : i < j => at[i] < at[j]
        /\ \A i \in 1 .. n : at[i + 1] = at[i] + 1 + sent[i][3]
        BY SMTT(60), <1>1, <1>11 DEF Layout, Chained
  <2>3. n \in 1 .. n /\ at[n] \in Int /\ at[n + 1] = at[n] + 1 + k
        BY SMTT(60), <1>2, <1>3, <1>6, <2>1, <2>2
  <2>4. Len(units') = at[n + 1] - 1
        BY <1>4, <1>5, <2>1, <2>3
  <2>5. Chained(at, sq)'
        BY ZenonT(60), <1>1, <1>4, <1>6, <1>11 DEF Layout, Chained, F!Wrap
  <2>6. Placed(at, sq)'
    <3>1. ASSUME NEW i \in Headers + 1 .. n, at[i] \in 1 .. Len(units')
          PROVE  units'[at[i]] = Header(sent[i], sq[i])
          <4>1. i \in 1 .. n
                BY SMTT(60), <1>1, <1>6, <1>11, <3>1 DEF Layout, ReadEnd
          <4>2. at[i] <= at[n]
                BY SMTT(60), <1>6, <2>2, <2>3, <4>1
          <4>3. at[i] \in 1 .. Len(units)
                BY SMTT(60), <1>5, <2>1, <3>1, <4>2
          <4>4. units[at[i]] = Header(sent[i], sq[i])
                BY ZenonT(60), <1>1, <1>11, <3>1, <4>3 DEF Layout, Placed
          <4>5. QED
                BY ZenonT(60), <1>5, <4>3, <4>4
    <3>2. ASSUME NEW i \in 1 .. n, i >= Headers, NEW j \in at[i] + 1 .. at[i + 1] - 1,
                 j \in 1 .. Len(units')
          PROVE  units'[j] = Byte(sent[i])
          <4>1. CASE j \in 1 .. Len(units)
            <5>1. units[j] = Byte(sent[i])
                  BY ZenonT(60), <1>1, <1>11, <3>2, <4>1 DEF Layout, Placed
            <5>2. QED
                  BY ZenonT(60), <1>5, <4>1, <5>1
          <4>2. CASE j \in Len(units) + 1 .. Len(units) + k
            <5>1. i = n
              <6> SUFFICES ASSUME i # n PROVE FALSE
                  OBVIOUS
              <6>1. i + 1 \in 1 .. n /\ at[i] \in Int /\ at[i + 1] \in Int
                    BY SMTT(60), <1>6, <2>2, <3>2
              <6>2. at[i + 1] <= at[n]
                <7>1. CASE i + 1 = n
                      BY SMTT(60), <2>3, <7>1
                <7>2. CASE i + 1 < n
                      BY SMTT(60), <1>6, <2>2, <2>3, <6>1, <7>2
                <7>3. QED
                      BY <1>6, <2>3, <6>1, <7>1, <7>2
              <6>3. QED
                    BY SMTT(60), <1>5, <2>1, <2>3, <3>2, <4>2, <6>1, <6>2
            <5>2. QED
                  BY ZenonT(60), <1>5, <2>1, <4>2, <5>1
          <4>3. QED
                BY SMTT(60), <1>4, <1>5, <3>2, <4>1, <4>2
    <3>3. QED
          BY ZenonT(60), <1>4, <1>6, <3>1, <3>2 DEF Placed
  <2>7. ReadEnd(at, sq)'
        BY ZenonT(60), <1>1, <1>4, <1>6, <1>11 DEF Layout, ReadEnd
  <2>8. WriteEnd(at, sq)'
    <3>1. sq[n + 1] = outSeqno
          BY <1>1, <1>11 DEF Layout, WriteEnd
    <3>2. Len(units') < at[n + 1]
          <4>1. at[n + 1] \in Int
                BY <1>4, <2>3
          <4>2. QED
                BY <2>4, <4>1
    <3>3. QED
          BY ZenonT(60), <1>4, <1>6, <1>7, <2>4, <3>1, <3>2 DEF WriteEnd
  <2>9. QED
        BY <2>5, <2>6, <2>7, <2>8 DEF Layout
<1>12. QED
      BY <1>4, <1>8, <1>9, <1>10, <1>11 DEF FrameInv

\* The connection breaks: what is left of the units stays where it was.
LEMMA BreakKeeps == ASSUME FrameInv, F!Break PROVE FrameInv'
<1>1. PICK n \in 0 .. Len(units) : units' = SubSeq(units, 1, n)
      BY DEF F!Break
<1>2. broken' /\ UNCHANGED <<fpc, size, calls, fMu, outSeqno, inSeqno, reader, why, sent, delivered>>
      BY DEF F!Break
<1>3. Len(units) \in Nat /\ Last \in Nat
      BY ZenonT(60), Lengths DEF FrameInv
<1>4. IsSeq(units') /\ Len(units') = n /\ \A i \in 1 .. n : units'[i] = units[i]
      <2>1. 1 \in 1 .. Len(units) + 1 /\ n \in 1 - 1 .. Len(units) /\ n - 1 + 1 = n
            BY SMTT(60), <1>3
      <2>2. /\ IsSeq(units') /\ Len(units') = n - 1 + 1
            /\ \A i \in 1 .. n - 1 + 1 : units'[i] = units[1 + i - 1]
            BY <1>1, <2>1, Cut DEF FrameInv, FrameTypes
      <2>3. QED
            BY <1>3, <2>1, <2>2
<1>5. Last' = Last /\ Headers' = Headers
      BY <1>2 DEF Last, Headers
<1>6. FrameTypes' /\ Exclusive'
      BY ZenonT(60), <1>2, <1>4, <1>5 DEF FrameInv, FrameTypes, Exclusive, IsSeq, F!Break
<1>7. F!DeliveredInOrder'
      BY ZenonT(60), <1>2 DEF FrameInv, F!DeliveredInOrder
<1>8. ASSUME NEW at, NEW sq, Layout(at, sq) PROVE Layout(at, sq)'
  <2>1. Chained(at, sq)'
        BY ZenonT(60), <1>2, <1>5, <1>8 DEF Layout, Chained, F!Wrap
  <2>2. Placed(at, sq)'
    <3>1. \A j \in 1 .. Len(units') : j \in 1 .. Len(units) /\ units'[j] = units[j]
          BY <1>3, <1>4
    <3>2. QED
          BY ZenonT(60), <1>2, <1>5, <1>8, <3>1 DEF Layout, Placed
  <2>3. ReadEnd(at, sq)'
        BY ZenonT(60), <1>2, <1>5, <1>8 DEF Layout, ReadEnd
  <2>4. WriteEnd(at, sq)'
    <3>1. at[Last + 1] \in Int /\ Len(units) < at[Last + 1]
          BY <1>3, <1>8 DEF Layout, Chained, WriteEnd
    <3>2. QED
          BY SMTT(60), <1>2, <1>3, <1>4, <1>5, <3>1 DEF WriteEnd
  <2>5. QED
        BY <2>1, <2>2, <2>3, <2>4 DEF Layout
<1>9. QED
      BY <1>2, <1>6, <1>7, <1>8 DEF FrameInv

\* Intervals and sums move with their ends.
LEMMA Shift ==
  ASSUME NEW d \in Int, NEW x \in Int, NEW y \in Int
  PROVE  /\ \A s \in Int : y = x + 1 + s => y - d = (x - d) + 1 + s
         /\ \A j \in Int : j \in (x - d) + 1 .. (y - d) - 1 => j + d \in x + 1 .. y - 1
         /\ \A j \in Int : d >= 0 /\ j \in 1 .. x - d => j + d \in 1 .. x
OBVIOUS

\* The reader took d units.
Taken(d) ==
  /\ Len(units') = Len(units) - d
  /\ \A i \in 1 .. Len(units) - d : units'[i] = units[i + d]

\* The positions a are those of at, d units nearer.
Moved(a, at, n, d) == a = [i \in 1 .. n + 1 |-> at[i] - d]

\* The reader takes d units: every frame is d units nearer.
LEMMA Nearer ==
  ASSUME FrameTypes, NEW at, NEW sq, Layout(at, sq), NEW n, n = Last, NEW d \in Nat,
         d <= Len(units), Taken(d),
         Headers \in Nat, Headers' \in Nat, Headers' >= Headers,
         UNCHANGED <<fpc, size, calls, outSeqno, broken, sent>>,
         NEW a, Moved(a, at, n, d)
  PROVE  /\ \A i \in 1 .. n + 1 : a[i] = at[i] - d /\ at[i] \in Int
         /\ Chained(a, sq)' /\ Placed(a, sq)' /\ WriteEnd(a, sq)'
<1>1. n \in Nat /\ Last' = n /\ Len(units) \in Nat
      BY ZenonT(60), Lengths DEF Last
<1>2. /\ at \in [1 .. n + 1 -> Int]
      /\ \A i \in 1 .. n : at[i + 1] = at[i] + 1 + sent[i][3]
      /\ \A i, k \in 1 .. n + 1 : i < k => at[i] < at[k]
      /\ \A i \in 1 .. n : sq[i + 1] = F!Wrap(sq[i] + 1)
      BY ZenonT(60) DEF Layout, Chained
<1>3. a \in [1 .. n + 1 -> Int] /\ \A i \in 1 .. n + 1 : a[i] = at[i] - d /\ at[i] \in Int
      BY SMTT(60), <1>2 DEF Moved
<1>4. Chained(a, sq)'
  <2>1. \A i \in 1 .. n : a[i + 1] = a[i] + 1 + sent[i][3]
        <3> SUFFICES ASSUME NEW i \in 1 .. n PROVE a[i + 1] = a[i] + 1 + sent[i][3]
            BY ZenonT(60)
        <3>1. i \in 1 .. n + 1 /\ i + 1 \in 1 .. n + 1 /\ sent[i][3] \in Int
          <4>1. i \in 1 .. Last
                BY ZenonT(60)
          <4>2. sent[i][3] \in Nat \ {0}
                BY ZenonT(60), <4>1, PayloadSizes DEF FrameTypes
          <4>3. QED
                BY SMTT(60), <1>1, <4>2
        <3>2. at[i + 1] = at[i] + 1 + sent[i][3]
              BY ZenonT(60), <1>2
        <3>3. /\ a[i] = at[i] - d /\ a[i + 1] = at[i + 1] - d
              /\ at[i] \in Int /\ at[i + 1] \in Int
              BY <1>3, <3>1
        <3>4. d \in Int
              OBVIOUS
        <3>5. PICK x : x = at[i]
              OBVIOUS
        <3>6. PICK y : y = at[i + 1]
              BY ZenonT(60)
        <3>7. PICK s : s = sent[i][3]
              BY ZenonT(60)
        <3>8. x \in Int /\ y \in Int /\ s \in Int /\ y = x + 1 + s
              BY ZenonT(60), <3>1, <3>2, <3>3, <3>5, <3>6, <3>7
        <3>9. y - d = (x - d) + 1 + s
              BY ONLY SMTT(60), <3>4, <3>8, Shift
        <3>10. QED
              BY ONLY <3>3, <3>5, <3>6, <3>7, <3>9, Zenon
  <2>2. \A i, j \in 1 .. n + 1 : i < j => a[i] < a[j]
        BY <1>2, <1>3
  <2>3. QED
        BY ZenonT(60), <1>1, <1>2, <1>3, <2>1, <2>2 DEF Chained
<1>5. Placed(a, sq)'
  <2>1. ASSUME NEW i \in Headers' + 1 .. n, a[i] \in 1 .. Len(units) - d
        PROVE  units'[a[i]] = Header(sent[i], sq[i])
        <3>1. i \in 1 .. n + 1 /\ i \in Headers + 1 .. n
          <4>1. PICK h : h = Headers
                OBVIOUS
          <4>2. PICK g : g = Headers'
                OBVIOUS
          <4>3. h \in Nat /\ g \in Nat /\ g >= h /\ i \in g + 1 .. n
                BY ZenonT(60), <2>1, <4>1, <4>2
          <4>4. i \in h + 1 .. n /\ i \in 1 .. n + 1
                BY SMTT(60), <1>1, <4>3
          <4>5. QED
                BY <4>1, <4>4
        <3>2. at[i] = a[i] + d /\ at[i] \in 1 .. Len(units)
          <4>1. a[i] = at[i] - d /\ at[i] \in Int /\ d \in Int
                BY SMTT(60), <1>3, <3>1
          <4>2. QED
                BY SMTT(60), <1>1, <2>1, <4>1
        <3>3. units[at[i]] = Header(sent[i], sq[i])
              BY ZenonT(60), <3>1, <3>2 DEF Layout, Placed
        <3>4. QED
              BY ZenonT(60), <2>1, <3>2, <3>3 DEF Taken
  <2>2. ASSUME NEW i \in 1 .. n, i >= Headers', NEW j \in a[i] + 1 .. a[i + 1] - 1,
               j \in 1 .. Len(units) - d
        PROVE  units'[j] = Byte(sent[i])
        <3>1. i \in 1 .. n + 1 /\ i + 1 \in 1 .. n + 1 /\ i >= Headers
              BY <1>1, <2>2
        <3>2. j + d \in at[i] + 1 .. at[i + 1] - 1 /\ j + d \in 1 .. Len(units)
          <4>1. /\ a[i] = at[i] - d /\ at[i] \in Int /\ d \in Int
                /\ a[i + 1] = at[i + 1] - d /\ at[i + 1] \in Int
                BY SMTT(60), <1>3, <3>1
          <4>2. j \in Int /\ Len(units) \in Int /\ d >= 0
                BY <1>1, <2>2, <4>1
          <4>3. j + d \in at[i] + 1 .. at[i + 1] - 1
                BY ZenonT(60), <2>2, <4>1, <4>2, Shift
          <4>4. j + d \in 1 .. Len(units)
                BY ZenonT(60), <2>2, <4>1, <4>2, Shift
          <4>5. QED
                BY ZenonT(60), <4>3, <4>4
        <3>3. units[j + d] = Byte(sent[i])
              BY <3>1, <3>2 DEF Layout, Placed
        <3>4. QED
              BY SMTT(60), <2>2, <3>3 DEF Taken
  <2>3. QED
        BY ZenonT(60), <1>1, <2>1, <2>2 DEF Placed, Taken
<1>6. WriteEnd(a, sq)'
  <2>1. n + 1 \in 1 .. n + 1
        BY SMTT(60), <1>1
  <2>2. Len(units') < a[n + 1]
        BY SMTT(60), <1>1, <1>3, <2>1 DEF Layout, WriteEnd, Taken
  <2>3. ~broken => sq[n + 1] = outSeqno
        BY ZenonT(60) DEF Layout, WriteEnd
  <2>4. ~broken /\ (\A w \in Writers : fpc[w] # "header") => Len(units') = a[n + 1] - 1
        <3>1. ~broken /\ (\A w \in Writers : fpc[w] # "header") => Len(units) = at[n + 1] - 1
              BY ZenonT(60) DEF Layout, WriteEnd
        <3>2. a[n + 1] = at[n + 1] - d /\ at[n + 1] \in Int /\ d \in Int
              BY <1>3, <2>1
        <3>3. Len(units') = Len(units) - d
              BY ZenonT(60) DEF Taken
        <3>4. Len(units) = at[n + 1] - 1 => Len(units') = a[n + 1] - 1
              BY SMTT(60), <1>1, <3>2, <3>3
        <3>5. QED
              BY ZenonT(60), <3>1, <3>4
  <2>5. ASSUME ~broken, NEW w \in Writers, fpc[w] = "header"
        PROVE  n > 0 /\ sent[n] = <<w, calls[w], size[w]>> /\ Len(units') = a[n]
        <3>1. n > 0 /\ sent[n] = <<w, calls[w], size[w]>> /\ Len(units) = at[n]
              BY ZenonT(60), <2>5 DEF Layout, WriteEnd
        <3>2. n \in 1 .. n + 1
              BY SMTT(60), <1>1, <3>1
        <3>3. QED
              BY <1>1, <1>3, <3>1, <3>2 DEF Taken
  <2>6. QED
        BY ZenonT(60), <1>1, <2>2, <2>3, <2>4, <2>5 DEF WriteEnd
<1>7. QED
      BY <1>3, <1>4, <1>5, <1>6

\* The reader takes a header: it is that of the next frame, with the length and
\* the seqno it expects.
LEMMA ReadHeaderKeeps == ASSUME FrameInv, F!ReadHeader PROVE FrameInv'
<1>1. reader = 0 /\ units # << >>
      BY ZenonT(60) DEF F!ReadHeader
<1>2. PICK at, sq : Layout(at, sq)
      BY <1>1 DEF FrameInv
<1>3. PICK n : n = Last
      OBVIOUS
<1>4. PICK r : r = Len(delivered)
      BY ZenonT(60)
<1>5. n \in Nat /\ r \in Nat /\ Headers = r
      BY SMTT(60), <1>1, <1>3, <1>4, Lengths DEF FrameInv, Headers
<1>6. /\ IsSeq(Tail(units)) /\ Len(units) \in Nat /\ Len(units) > 0
      /\ Head(units) = units[1]
      /\ Len(Tail(units)) = Len(units) - 1
      /\ \A i \in 1 .. Len(units) - 1 : Tail(units)[i] = units[i + 1]
      BY SMTT(60), <1>1, Rest DEF FrameInv, FrameTypes
<1>7. /\ at \in [1 .. n + 1 -> Int]
      /\ \A i \in 1 .. n : at[i + 1] = at[i] + 1 + sent[i][3]
      /\ \A i, k \in 1 .. n + 1 : i < k => at[i] < at[k]
      /\ \A i \in 1 .. n : sq[i + 1] = F!Wrap(sq[i] + 1)
      BY SMTT(60), <1>2, <1>3 DEF Layout, Chained
<1>8. r \in 0 .. n /\ at[r + 1] = 1 /\ sq[r + 1] = inSeqno
      BY SMTT(60), <1>1, <1>2, <1>3, <1>5 DEF Layout, ReadEnd
<1>9. Len(units) < at[n + 1]
      BY ZenonT(60), <1>2, <1>3 DEF Layout, WriteEnd
<1>10. r + 1 \in 1 .. n
      BY SMTT(60), <1>5, <1>6, <1>7, <1>8, <1>9
<1>11. Head(units) = Header(sent[r + 1], inSeqno) /\ sent[r + 1][3] \in Payloads
      <2>1. units[1] = Header(sent[r + 1], inSeqno)
            <3>1. r + 1 \in Headers + 1 .. Last /\ at[r + 1] \in 1 .. Len(units)
                  BY SMTT(60), <1>3, <1>5, <1>6, <1>8, <1>10
            <3>2. QED
                  BY ZenonT(60), <1>2, <1>8, <3>1 DEF Layout, Placed
      <2>2. QED
            BY ZenonT(60), <1>3, <1>6, <1>10, <2>1 DEF FrameInv, FrameTypes
<1>12. PICK k : k = sent[r + 1][3]
      OBVIOUS
<1>13. /\ inSeqno' = F!Wrap(inSeqno + 1)
       /\ reader' = k /\ k \in Nat \ {0}
       /\ units' = Tail(units)
       /\ UNCHANGED <<fpc, size, calls, fMu, outSeqno, broken, why, sent, delivered>>
      <2>1. /\ Head(units).kind = "header" /\ Head(units).len = k /\ Head(units).seqno = inSeqno
            /\ k \in MinPayload .. MaxPayload
            <3>1. k \in MinPayload .. MaxPayload
                  BY ZenonT(60), <1>11, <1>12 DEF Payloads
            <3>2. QED
                  BY SMTT(60), <1>11, <1>12, <3>1 DEF Header
      <2>2. QED
            <3>1. k \in Nat \ {0}
                  BY ZenonT(60), <1>11, <1>12, PayloadSizes
            <3>2. QED
                  BY ZenonT(60), <2>1, <3>1 DEF F!ReadHeader
<1>14. Last' = n /\ Headers' = r + 1
      BY SMTT(60), <1>3, <1>4, <1>5, <1>13 DEF Last, Headers
<1>15. FrameTypes' /\ Exclusive'
      BY SMTT(60), <1>3, <1>6, <1>13, <1>14 DEF FrameInv, FrameTypes, Exclusive, IsSeq
<1>16. F!DeliveredInOrder'
      BY ZenonT(60), <1>13 DEF FrameInv, F!DeliveredInOrder
<1>17. PICK a : Moved(a, at, n, 1)
      BY ZenonT(60) DEF Moved
<1>18. /\ \A i \in 1 .. n + 1 : a[i] = at[i] - 1 /\ at[i] \in Int
       /\ Chained(a, sq)' /\ Placed(a, sq)' /\ WriteEnd(a, sq)'
      <2>1. /\ 1 \in Nat /\ 1 <= Len(units) /\ Taken(1)
            /\ Headers \in Nat /\ Headers' \in Nat /\ Headers' >= Headers
            BY SMTT(60), <1>5, <1>6, <1>13, <1>14 DEF Taken
      <2>2. QED
            BY ZenonT(60), <1>2, <1>3, <1>13, <1>17, <2>1, Nearer DEF FrameInv
<1>19. ReadEnd(a, sq)'
  <2>1. r + 1 \in 1 .. n + 1 /\ r + 2 \in 1 .. n + 1 /\ r + 1 + 1 = r + 2
        BY SMTT(60), <1>5, <1>10
  <2>2. at[r + 2] = at[r + 1] + 1 + k /\ sq[r + 2] = F!Wrap(sq[r + 1] + 1)
        BY ZenonT(60), <1>7, <1>10, <1>12, <2>1
  <2>3. a[r + 2] = k + 1
        BY SMTT(60), <1>8, <1>13, <1>18, <2>1, <2>2
  <2>4. sq[r + 2] = inSeqno'
        BY <1>8, <1>13, <2>2
  <2>5. Headers' + 1 = r + 2 /\ Headers' \in 0 .. n
        BY <1>5, <1>10, <1>14
  <2>6. QED
        BY ZenonT(60), <1>12, <1>13, <1>14, <2>3, <2>4, <2>5 DEF ReadEnd
<1>20. \E x, y : Layout(x, y)'
      <2>1. Layout(a, sq)'
            BY ZenonT(60), <1>18, <1>19 DEF Layout
      <2>2. QED
            BY <2>1
<1>21. QED
      BY <1>13, <1>15, <1>16, <1>20 DEF FrameInv

\* The reader takes a payload: it is that of the frame whose header it read.
LEMMA ReadPayloadKeeps == ASSUME FrameInv, F!ReadPayload PROVE FrameInv'
<1>1. PICK d : d = reader
      BY ZenonT(60)
<1>2. /\ d \in Nat /\ d > 0 /\ Len(units) >= d
      /\ delivered' = Append(delivered, SubSeq(units, 1, d))
      /\ units' = SubSeq(units, d + 1, Len(units))
      /\ reader' = 0
      /\ UNCHANGED <<fpc, size, calls, fMu, outSeqno, broken, inSeqno, why, sent>>
      BY SMTT(60), <1>1 DEF F!ReadPayload, FrameInv, FrameTypes
<1>3. PICK at, sq : Layout(at, sq)
      BY SMTT(60), <1>1, <1>2 DEF FrameInv
<1>4. PICK n : n = Last
      OBVIOUS
<1>5. PICK r : r = Len(delivered)
      BY ZenonT(60)
<1>6. n \in Nat /\ r \in Nat /\ Len(units) \in Nat /\ Headers = r + 1
      BY ZenonT(60), <1>1, <1>2, <1>4, <1>5, Lengths DEF FrameInv, Headers
<1>7. /\ IsSeq(units') /\ Len(units') = Len(units) - d
      /\ \A i \in 1 .. Len(units) - d : units'[i] = units[i + d]
      <2>1. /\ d + 1 \in 1 .. Len(units) + 1 /\ Len(units) \in (d + 1) - 1 .. Len(units)
            /\ Len(units) - (d + 1) + 1 = Len(units) - d
            BY <1>2, <1>6
      <2>2. /\ IsSeq(units') /\ Len(units') = Len(units) - (d + 1) + 1
            /\ \A i \in 1 .. Len(units) - (d + 1) + 1 : units'[i] = units[(d + 1) + i - 1]
            BY ZenonT(60), <1>2, <2>1, Cut DEF FrameInv, FrameTypes
      <2>3. \A i \in 1 .. Len(units) - d : (d + 1) + i - 1 = i + d
            BY <1>2, <1>6
      <2>4. QED
            BY ZenonT(60), <2>1, <2>2, <2>3
<1>8. PICK p : p = SubSeq(units, 1, d)
      BY ZenonT(60)
<1>9. /\ IsSeq(delivered') /\ Len(delivered') = r + 1
      /\ \A i \in 1 .. r : delivered'[i] = delivered[i]
      /\ delivered'[r + 1] = p
      BY SMTT(60), <1>2, <1>5, <1>8, Appended DEF FrameInv, FrameTypes
<1>10. Last' = n /\ Headers' = r + 1
      BY SMTT(60), <1>2, <1>4, <1>6, <1>9 DEF Last, Headers
<1>11. FrameTypes' /\ Exclusive'
      <2>1. IsSeq(units') /\ IsSeq(delivered') /\ IsSeq(sent')
            BY ZenonT(60), <1>2, <1>7, <1>9 DEF FrameInv, FrameTypes
      <2>2. QED
            BY <1>2, <1>4, <1>10, <2>1 DEF FrameInv, FrameTypes, Exclusive
<1>12. PICK a : Moved(a, at, n, d)
      BY ZenonT(60) DEF Moved
<1>13. /\ \A i \in 1 .. n + 1 : a[i] = at[i] - d /\ at[i] \in Int
       /\ Chained(a, sq)' /\ Placed(a, sq)' /\ WriteEnd(a, sq)'
      <2>1. Taken(d) /\ Headers \in Nat /\ Headers' \in Nat /\ Headers' >= Headers
            BY SMTT(60), <1>6, <1>7, <1>10 DEF Taken
      <2>2. QED
            BY ZenonT(60), <1>2, <1>3, <1>4, <1>12, <2>1, Nearer DEF FrameInv
<1>14. /\ r + 1 \in 1 .. n /\ at[r + 2] = d + 1 /\ sq[r + 2] = inSeqno
       /\ sent[r + 1][3] = d
      <2>1. r + 1 + 1 = r + 2
            BY SMTT(60), <1>6
      <2>2. QED
            BY SMTT(60), <1>1, <1>2, <1>3, <1>4, <1>6, <2>1 DEF Layout, ReadEnd
<1>15. ReadEnd(a, sq)'
      <2>1. r + 2 \in 1 .. n + 1 /\ r + 1 + 1 = r + 2 /\ r + 1 \in 0 .. n
            BY SMTT(60), <1>6, <1>14
      <2>2. a[r + 2] = 1
            BY SMTT(60), <1>2, <1>13, <1>14, <2>1
      <2>3. QED
            BY SMTT(60), <1>2, <1>10, <1>14, <2>1, <2>2 DEF ReadEnd
<1>16. \E x, y : Layout(x, y)'
      <2>1. Layout(a, sq)'
            BY <1>13, <1>15 DEF Layout
      <2>2. QED
            BY <2>1
<1>17. PICK f : f = sent[r + 1]
      BY ZenonT(60)
<1>18. p = [j \in 1 .. f[3] |-> Byte(f)]
  <2>1. /\ IsSeq(p) /\ Len(p) = d /\ \A j \in 1 .. d : p[j] = units[j]
        <3>1. 1 \in 1 .. Len(units) + 1 /\ d \in 1 - 1 .. Len(units) /\ d - 1 + 1 = d
              BY SMTT(60), <1>2, <1>6
        <3>2. /\ IsSeq(p) /\ Len(p) = d - 1 + 1
              /\ \A i \in 1 .. d - 1 + 1 : p[i] = units[1 + i - 1]
              BY ZenonT(60), <1>8, <3>1, Cut DEF FrameInv, FrameTypes
        <3>3. \A i \in 1 .. d : 1 + i - 1 = i
              BY SMTT(60), <1>2
        <3>4. QED
              BY ZenonT(60), <3>1, <3>2, <3>3
  <2>2. at[r + 1] = 0
        <3>1. at[r + 1 + 1] = at[r + 1] + 1 + sent[r + 1][3]
              BY ZenonT(60), <1>3, <1>4, <1>14 DEF Layout, Chained
        <3>2. at[r + 1] \in Int /\ r + 1 + 1 = r + 2
              BY SMTT(60), <1>6, <1>13, <1>14
        <3>3. QED
              BY SMTT(60), <1>2, <1>14, <3>1, <3>2
  <2>3. \A j \in 1 .. d : units[j] = Byte(f)
        <3> SUFFICES ASSUME NEW j \in 1 .. d PROVE units[j] = Byte(f)
            BY SMTT(60)
        <3>1. j \in at[r + 1] + 1 .. at[r + 1 + 1] - 1 /\ j \in 1 .. Len(units)
          <4>1. r + 1 + 1 = r + 2
                BY SMTT(60), <1>6
          <4>2. QED
                BY SMTT(60), <1>2, <1>6, <1>14, <2>2, <4>1
        <3>2. QED
              BY SMTT(60), <1>3, <1>4, <1>6, <1>14, <1>17, <3>1 DEF Layout, Placed
  <2>4. PICK S : p \in Seq(S)
        BY <2>1 DEF IsSeq
  <2>5. p = [j \in 1 .. d |-> p[j]]
        BY <2>1, <2>4
  <2>6. QED
        BY ZenonT(60), <1>14, <1>17, <2>1, <2>3, <2>5
<1>19. F!DeliveredInOrder'
  <2>1. PICK S : delivered' \in Seq(S)
        BY ZenonT(60), <1>9 DEF IsSeq
  <2>2. DOMAIN delivered' = 1 .. r + 1
        BY SMTT(60), <1>9, <2>1
  <2>3. PICK T : delivered \in Seq(T)
        BY DEF FrameInv, FrameTypes, IsSeq
  <2>4. DOMAIN delivered = 1 .. r
        BY SMTT(60), <1>5, <2>3
  <2>5. ASSUME NEW i \in 1 .. r + 1
        PROVE  delivered'[i] = [j \in 1 .. sent[i][3] |-> [kind |-> "byte", of |-> sent[i]]]
        <3>1. CASE i = r + 1
              BY ZenonT(60), <1>9, <1>17, <1>18, <3>1 DEF Byte
        <3>2. CASE i \in 1 .. r
          <4>1. delivered'[i] = delivered[i]
                BY ZenonT(60), <1>9, <3>2
          <4>2. delivered[i] = [j \in 1 .. sent[i][3] |-> [kind |-> "byte", of |-> sent[i]]]
                BY ZenonT(60), <2>4, <3>2 DEF FrameInv, F!DeliveredInOrder
          <4>3. QED
                BY ZenonT(60), <4>1, <4>2
        <3>3. QED
              BY SMTT(60), <1>6, <3>1, <3>2
  <2>6. Len(delivered') <= Len(sent') /\ why' \in {"none", "eof"}
        BY SMTT(60), <1>2, <1>4, <1>6, <1>9, <1>14 DEF Last, FrameInv, F!DeliveredInOrder
  <2>7. QED
        <3>1. sent' = sent
              BY ZenonT(60), <1>2
        <3>2. \A i \in DOMAIN delivered' :
                delivered'[i] = [j \in 1 .. sent'[i][3] |-> [kind |-> "byte", of |-> sent'[i]]]
              BY ZenonT(60), <2>2, <2>5, <3>1
        <3>3. QED
              BY <2>6, <3>2, Zenon DEF F!DeliveredInOrder
<1>20. QED
      BY <1>2, <1>11, <1>16, <1>19 DEF FrameInv

\* The reader meets the end of a broken connection.
LEMMA ReadEOFKeeps == ASSUME FrameInv, F!ReadEOF PROVE FrameInv'
<1>1. /\ reader' = -1 /\ why' = "eof"
      /\ UNCHANGED <<fpc, size, calls, fMu, outSeqno, units, broken, inSeqno, sent, delivered>>
      BY ZenonT(60) DEF F!ReadEOF, F!ReadFails
<1>2. FrameTypes' /\ Exclusive'
      BY SMTT(60), <1>1 DEF FrameInv, FrameTypes, Exclusive, Last, IsSeq
<1>3. F!DeliveredInOrder'
      BY ZenonT(60), <1>1 DEF FrameInv, F!DeliveredInOrder
<1>4. QED
      BY <1>1, <1>2, <1>3 DEF FrameInv

\* Nothing was sent: the reader and the writers are at the same place.
LEMMA FrameBegins == F!Init => FrameInv
<1> SUFFICES ASSUME F!Init PROVE FrameInv
    OBVIOUS
<1> USE DEF F!Init
<1>1. << >> \in Seq({}) /\ Len(<< >>) = 0 /\ DOMAIN << >> = 1 .. 0
      OBVIOUS
<1>2. Last = 0 /\ Headers = 0
      BY <1>1 DEF Last, Headers
<1>3. FrameTypes /\ Exclusive
      <2>1. IsSeq(units) /\ IsSeq(sent) /\ IsSeq(delivered)
            BY ZenonT(60), <1>1 DEF IsSeq
      <2>2. /\ fpc \in [Writers -> {"idle", "locked", "header"}]
            /\ size \in [Writers -> Sizes \cup {0}]
            /\ calls \in [Writers -> Nat]
            BY ZenonT(60)
      <2>3. \A w \in Writers : fpc[w] # "header" /\ ~(fpc[w] # "idle")
            BY ZenonT(60)
      <2>4. \A i \in 1 .. Last : sent[i][3] \in Payloads
            BY SMTT(60), <1>2
      <2>5. reader \in Int
            OBVIOUS
      <2>6. broken \in BOOLEAN
            BY Zenon
      <2>7. QED
            BY ONLY <2>1, <2>2, <2>3, <2>4, <2>5, <2>6, Zenon DEF FrameTypes, Exclusive
<1>4. F!DeliveredInOrder
      BY SMTT(60), <1>1 DEF F!DeliveredInOrder
<1>5. PICK at : at = [i \in 1 .. 1 |-> 1]
      BY ZenonT(60)
<1>6. PICK sq : sq = [i \in 1 .. 1 |-> 0]
      BY ZenonT(60)
<1>7. at \in [1 .. 1 -> Int] /\ at[1] = 1 /\ sq[1] = 0
      BY SMTT(60), <1>5, <1>6
<1>8. Layout(at, sq)
      BY SMTT(60), <1>1, <1>2, <1>7 DEF Layout, Chained, Placed, ReadEnd, WriteEnd
<1>9. QED
      BY <1>3, <1>4, <1>8 DEF FrameInv

\* Every step of a writer, of the reader and of the network.
LEMMA FrameKeeps == ASSUME FrameInv, "free" \notin Writers, [F!Next]_(F!vars) PROVE FrameInv'
<1>1. CASE UNCHANGED F!vars
  <2>1. UNCHANGED <<fpc, size, calls, fMu, outSeqno, units, broken, inSeqno, reader, why, sent, delivered>>
        BY ZenonT(60), <1>1 DEF F!vars
  <2>2. Last' = Last
        BY ZenonT(60), <2>1 DEF Last
  <2>3. FrameTypes' /\ Exclusive'
        BY ZenonT(60), <2>1, <2>2 DEF FrameInv, FrameTypes, Exclusive, IsSeq
  <2>4. F!DeliveredInOrder'
        BY ZenonT(60), <2>1 DEF FrameInv, F!DeliveredInOrder
  <2>5. ASSUME NEW at, NEW sq, Layout(at, sq) PROVE Layout(at, sq)'
        BY ZenonT(60), <2>1, <2>2, <2>5, LayoutSame DEF Layout, WriteEnd
  <2>6. QED
        BY ZenonT(60), <2>1, <2>3, <2>4, <2>5 DEF FrameInv
<1>2. ASSUME NEW w \in Writers, F!Lock(w) \/ F!Refuse(w) \/ F!WriteHeader(w) \/ F!WritePayload(w)
      PROVE  FrameInv'
      BY ZenonT(60), <1>2, IdleKeeps, HeaderKeeps, PayloadKeeps
<1>3. CASE F!ReadHeader \/ F!ReadPayload \/ F!ReadEOF \/ F!Break
      BY ZenonT(60), <1>3, ReadHeaderKeeps, ReadPayloadKeeps, ReadEOFKeeps, BreakKeeps
<1>4. QED
      BY ZenonT(60), <1>1, <1>2, <1>3 DEF F!Next

\* ReadFrame returns whole payloads, each as one WriteFrame call wrote it, in the
\* order of their seqnos, none twice and none left out, and never meets a wrong
\* seqno or length, for any number of goroutines under writeMu, any number of
\* calls, wherever the connection breaks and however often the counters wrap.
THEOREM FramesInOrder == F!Spec => []DeliveredInOrder
<1>1. FrameInv => DeliveredInOrder
      BY DEF FrameInv, DeliveredInOrder
<1>2. FrameInv /\ [F!Next]_(F!vars) => FrameInv'
      BY FrameKeeps, WritersAssumption
<1>3. QED
      BY FrameBegins, <1>1, <1>2, PTL DEF F!Spec
=============================================================================
