---------------------------- MODULE ProgramProofs ---------------------------
(***************************************************************************)
(* The two programs.  The runner: what /jsonstats may show, for any number *)
(* of endpoints and any balances (module Runner), and what the chat        *)
(* handler sends, for any models, any number of sessions and any requests  *)
(* (module Passthrough).  The commands that change something outside the   *)
(* process: wallet withdraw (module Withdraw), for any balances and any    *)
(* number of transactions, and init and config generate (module Setup),    *)
(* for any commands given one after the other, each of which may be killed *)
(* at any step.                                                            *)
(*                                                                         *)
(* NeverMixed is not inductive: that the second list agrees with the first *)
(* when it is set follows from where the discovery goroutine is, since it  *)
(* alone writes them.  Lists says what they hold at each place.            *)
(***************************************************************************)
EXTENDS ChatRunner, MCCommands, WellFoundedInduction, TLAPS

Before == {"start", "list", "dial", "publishConnections", "pause", "stopped"}

\* The two lists, by the place of the discovery goroutine.
Lists ==
  /\ pc \in Before \cup {"publishProxies", "wait", "clearConnections", "clearProxies"}
  /\ pc \in Before => ProxyConnections = 0 /\ Proxies = 0
  /\ pc = "publishProxies" => ProxyConnections = gen /\ Proxies = 0
  /\ pc \in {"wait", "clearConnections"} => ProxyConnections = Proxies
  /\ pc = "clearProxies" => ProxyConnections = 0

\* There is a session when one is published.
HasSession == pc \in {"publishConnections", "publishProxies"} => status # "none"

IInv == Lists /\ HasSession

\* Both lists are empty at the start.
LEMMA InitIInv == Init => IInv
BY DEF Init, IInv, Lists, HasSession, Before

\* Every step of the discovery goroutine keeps the lists in order.
LEMMA DiscoveryKeeps == IInv /\ Discovery => IInv'
<1> SUFFICES ASSUME IInv, Discovery PROVE IInv'
    OBVIOUS
<1> USE DEF IInv, Lists, HasSession, Before, session, state
<1>1. CASE runDiscovery \/ ListProxies \/ NoProxies
      BY <1>1 DEF runDiscovery, ListProxies, NoProxies
<1>2. CASE Connected
      BY <1>2 DEF Connected
<1>3. CASE ConnectFails
      BY <1>3 DEF ConnectFails, NextEndpoint
<1>4. CASE isTerminalClientSessionError
      BY <1>4 DEF isTerminalClientSessionError
<1>5. CASE SetProxyConnections \/ SetProxies
      BY <1>5 DEF SetProxyConnections, SetProxies
<1>6. CASE waitSessionReadyOrContext
      BY <1>6 DEF waitSessionReadyOrContext
<1>7. CASE ClearProxyConnections
      BY <1>7 DEF ClearProxyConnections
<1>8. CASE ClearProxies
      BY <1>8 DEF ClearProxies, NextEndpoint
<1>9. CASE Pause
      BY <1>9 DEF Pause
<1>10. QED
      BY <1>1, <1>2, <1>3, <1>4, <1>5, <1>6, <1>7, <1>8, <1>9 DEF Discovery

\* The other goroutines leave the lists and their owner alone.
LEMMA OthersKeep ==
  IInv /\ (LoseSession \/ handleJSONStats \/ pollWalletBalance \/ ChainMoves \/ Shutdown)
  => IInv' /\ UNCHANGED <<pc, ProxyConnections, Proxies, gen>>
<1> SUFFICES ASSUME IInv, LoseSession \/ handleJSONStats \/ pollWalletBalance \/ ChainMoves \/ Shutdown
             PROVE  UNCHANGED <<pc, ProxyConnections, Proxies, gen>> /\ (status = "none" <=> status' = "none")
    BY DEF IInv, Lists, HasSession, Before
<1>1. CASE LoseSession
      BY <1>1 DEF LoseSession, disc, state
<1>2. CASE handleJSONStats \/ pollWalletBalance \/ ChainMoves
      BY <1>2 DEF handleJSONStats, pollWalletBalance, ChainMoves, disc, session, state
<1>3. CASE Shutdown
      BY <1>3 DEF Shutdown, Stop, disc, state
<1>4. QED
      BY <1>1, <1>2, <1>3

\* Every step of every goroutine.
LEMMA NextIInv == IInv /\ [Next]_vars => IInv'
<1> SUFFICES ASSUME IInv, [Next]_vars PROVE IInv'
    OBVIOUS
<1>1. CASE UNCHANGED vars
      BY <1>1 DEF vars, IInv, Lists, HasSession, Before
<1>2. CASE Next
      BY <1>2, DiscoveryKeeps, OthersKeep DEF Next
<1>3. QED
      BY <1>1, <1>2

\* /jsonstats never shows two sessions side by side, nor a session once
\* discovery has stopped or pauses, although the two lists are set and cleared
\* in separate critical sections (SetProxyConnections, SetProxies).
THEOREM MixedNever == Spec => []NeverMixed
<1>1. IInv => NeverMixed
      BY DEF IInv, Lists, NeverMixed, Before
<1>2. QED
      BY <1>1, InitIInv, NextIInv, PTL DEF Spec

\* Nothing is published before its session was ready (runDiscovery).
THEOREM PublishedOnceReady == Spec => EmptyUntilReady
<1> DEFINE Step ==
      \A l \in {ProxyConnections', Proxies'} \ {ProxyConnections, Proxies, 0} :
        l = gen /\ pc \in {"publishConnections", "publishProxies"} /\ status # "none"
<1>1. ASSUME IInv, Next PROVE Step
  <2>1. CASE SetProxyConnections \/ SetProxies
        BY <1>1, <2>1 DEF SetProxyConnections, SetProxies, IInv, HasSession
  <2>2. CASE ClearProxyConnections \/ ClearProxies
        BY <2>2 DEF ClearProxyConnections, ClearProxies
  <2>3. CASE UNCHANGED <<ProxyConnections, Proxies>>
        BY <2>3
  <2>4. CASE Discovery /\ ~(SetProxyConnections \/ SetProxies \/ ClearProxyConnections \/ ClearProxies)
        BY <2>4, <2>3 DEF Discovery, runDiscovery, ListProxies, NoProxies, Connected, ConnectFails,
           isTerminalClientSessionError, waitSessionReadyOrContext, Pause, state
  <2>5. CASE ~Discovery
        BY <1>1, <2>5, <2>3, OthersKeep DEF Next
  <2>6. QED
        BY <2>1, <2>2, <2>4, <2>5
<1>2. IInv /\ [Next]_vars => [Step]_vars
      BY <1>1
<1>3. QED
      BY <1>2, InitIInv, NextIInv, PTL DEF Spec, EmptyUntilReady

----------------------------------------------------------------------------
(* One chat request.                                                       *)

BodyFields == {"kind", "model", "tools", "stream", "rejected"}

\* A non-empty set of numbers has a least one.
LEMMA SmallestExists ==
  ASSUME NEW S, S \subseteq Nat, S # {}
  PROVE  \E x \in S : \A y \in S : x <= y
<1> DEFINE R == {ss \in Nat \X Nat : ss[1] < ss[2]}
<1>1. IsWellFoundedOn(R, Nat)
      BY NatLessThanWellFounded DEF OpToRel
<1> HIDE DEF R
<1>2. PICK x \in S : \A y \in S : ~ (<<y, x>> \in R)
      BY ZenonT(60), <1>1, WFMin
<1>3. ASSUME NEW y \in S PROVE x <= y
  <2>1. x \in Nat /\ y \in Nat
        BY ZenonT(60)
  <2>2. <<y, x>> \notin R
        BY ZenonT(60), <1>2
  <2>3. ~(y < x)
        BY SMTT(60), <2>1, <2>2 DEF R
  <2>4. QED
        BY SMTT(60), <2>1, <2>3
<1>4. QED
      BY ZenonT(60), <1>3

\* A non-empty set of positions has a last one, which is its maximum.
LEMMA LastPosition ==
  ASSUME NEW n \in Nat, NEW S, S \subseteq 1 .. n, S # {}
  PROVE  P!Max(S) \in S /\ \A y \in S : P!Max(S) >= y
<1> DEFINE D == {n - i : i \in S}
<1>1. \A i \in S : i \in Nat /\ n - i \in Nat
      BY SMTT(60)
<1>2. D \subseteq Nat /\ D # {}
      BY ZenonT(60), <1>1
<1> HIDE DEF D
<1>3. PICK d \in D : \A e \in D : d <= e
      BY ZenonT(60), <1>2, SmallestExists
<1>4. PICK m \in S : d = n - m
      BY <1>3 DEF D
<1>5. \A y \in S : m >= y
      BY <1>3, <1>4 DEF D
<1>6. QED
      BY ZenonT(60), <1>5 DEF P!Max

\* What a map keeps of a key: nothing if it does not occur in that spelling, or
\* one of its occurrences.
LEMMA MapKeeps ==
  ASSUME NEW V, NEW occ \in P!Occurrences(V), NEW e \in BOOLEAN
  PROVE  \/ P!InMap(occ, e) = <<>> /\ \A i \in DOMAIN occ : occ[i].exact # e
         \/ \E i \in DOMAIN occ : P!InMap(occ, e) = <<occ[i]>> /\ occ[i].exact = e
<1> DEFINE places == {i \in DOMAIN occ : occ[i].exact = e}
<1>1. Len(occ) \in Nat /\ DOMAIN occ = 1 .. Len(occ)
      BY SMTT(60) DEF P!Occurrences
<1>2. P!InMap(occ, e) = IF places = {} THEN <<>> ELSE <<occ[P!Max(places)]>>
      BY ZenonT(60) DEF P!InMap
<1>3. CASE places = {}
      BY ZenonT(60), <1>2, <1>3
<1>4. CASE places # {}
  <2>1. places \subseteq 1 .. Len(occ)
        BY ZenonT(60), <1>1
  <2> HIDE DEF places
  <2>2. P!Max(places) \in places
        BY ZenonT(60), <1>1, <1>4, <2>1, LastPosition
  <2>3. P!InMap(occ, e) = <<occ[P!Max(places)]>>
        BY ZenonT(60), <1>2, <1>4
  <2>4. P!Max(places) \in DOMAIN occ /\ occ[P!Max(places)].exact = e
        BY ZenonT(60), <2>2 DEF places
  <2>5. QED
        BY ZenonT(60), <2>3, <2>4
<1>5. QED
      BY ZenonT(60), <1>3, <1>4

\* A key a map was written with: at most once with capitals, and then at most
\* once in the spelling of the code.
LEMMA MapRead ==
  ASSUME NEW c, c = <<>> \/ \E p : c = <<p>> /\ p.exact = FALSE
  PROVE  /\ P!InMap(c, TRUE) = <<>> /\ P!InMap(c \o <<>>, TRUE) = <<>>
         /\ \A o : o.exact = TRUE => P!InMap(c \o <<o>>, TRUE) = <<o>>
<1> DEFINE places(k) == {i \in DOMAIN k : k[i].exact = TRUE}
<1>1. P!InMap(c, TRUE) = <<>> /\ c \o <<>> = c
  <2>1. places(c) = {} /\ c \o <<>> = c
    <3>1. CASE c = <<>>
          BY SMTT(60), <3>1
    <3>2. ASSUME NEW p, c = <<p>>, p.exact = FALSE PROVE places(c) = {} /\ c \o <<>> = c
          BY SMTT(60), <3>2
    <3>3. QED
          BY ZenonT(60), <3>1, <3>2
  <2>2. QED
        BY ZenonT(60), <2>1 DEF P!InMap
<1>2. ASSUME NEW o, o.exact = TRUE PROVE P!InMap(c \o <<o>>, TRUE) = <<o>>
  <2>1. CASE c = <<>>
    <3>1. c \o <<o>> = <<o>> /\ places(<<o>>) = {1} /\ <<o>>[1] = o
          BY SMTT(60), <1>2, <2>1
    <3>2. P!Max({1}) = 1
          BY SMTT(60) DEF P!Max
    <3>3. {1} # {}
          OBVIOUS
    <3>4. QED
          BY ZenonT(60), <3>1, <3>2, <3>3 DEF P!InMap
  <2>2. ASSUME NEW p, c = <<p>>, p.exact = FALSE PROVE P!InMap(c \o <<o>>, TRUE) = <<o>>
    <3> DEFINE k == <<p>> \o <<o>>
    <3>1. places(k) = {2} /\ k[2] = o
      <4>1. DOMAIN k = {1, 2} /\ k[1] = p /\ k[2] = o
        <5>1. <<p>> \in Seq({p, o}) /\ <<o>> \in Seq({p, o})
              BY SMTT(60)
        <5>2. k \in Seq({p, o}) /\ Len(k) = 2 /\ k[1] = p /\ k[2] = o
              BY SMTT(60), <5>1
        <5>3. QED
              BY SMTT(60), <5>2
      <4> HIDE DEF k
      <4>2. 1 # 2
            BY SMTT(60)
      <4>3. QED
            BY ZenonT(60), <1>2, <2>2, <4>1, <4>2
    <3>2. P!Max({2}) = 2
          BY SMTT(60) DEF P!Max
    <3>3. {2} # {}
          OBVIOUS
    <3>4. QED
          BY ZenonT(60), <2>2, <3>1, <3>2, <3>3 DEF P!InMap
  <2>3. QED
        BY ZenonT(60), <2>1, <2>2
<1>3. QED
      BY ZenonT(60), <1>1, <1>2

\* Writing a map again changes nothing that a map reads of a key; a key that was
\* set is read as it was set.
LEMMA MarshalReads ==
  ASSUME NEW V, NEW occ \in P!Occurrences(V), NEW m
  PROVE  /\ P!Value(P!Marshal(occ)) = P!Value(occ)
         /\ P!Value(P!InMap(occ, FALSE) \o <<[exact |-> TRUE, value |-> m]>>) = m
         /\ P!Value(P!InMap(occ, FALSE)) = P!Absent
<1> DEFINE c == P!InMap(occ, FALSE)
<1> DEFINE d == P!InMap(occ, TRUE)
<1>1. c = <<>> \/ \E p : c = <<p>> /\ p.exact = FALSE
      BY ZenonT(60), MapKeeps
<1>2. d = <<>> \/ \E o : d = <<o>> /\ o.exact = TRUE
      BY ZenonT(60), MapKeeps
<1>3. P!Marshal(occ) = c \o d
      BY DEF P!Marshal
<1> HIDE DEF c
<1>4. /\ P!InMap(c, TRUE) = <<>> /\ P!InMap(c \o <<>>, TRUE) = <<>>
      /\ \A o : o.exact = TRUE => P!InMap(c \o <<o>>, TRUE) = <<o>>
      BY ZenonT(60), <1>1, MapRead
<1>5. P!InMap(c \o d, TRUE) = d
  <2> HIDE DEF d
  <2>1. QED
        BY ZenonT(60), <1>2, <1>4
<1>6. P!Value(P!Marshal(occ)) = P!Value(occ)
      BY ZenonT(60), <1>3, <1>5 DEF P!Value
<1>7. P!Value(c) = P!Absent
      BY ZenonT(60), <1>4 DEF P!Value
<1>8. P!Value(c \o <<[exact |-> TRUE, value |-> m]>>) = m
  <2> DEFINE o == [exact |-> TRUE, value |-> m]
  <2>1. o.exact = TRUE /\ o.value = m /\ <<o>> # <<>> /\ <<o>>[1] = o
        BY SMTT(60)
  <2> HIDE DEF o
  <2>2. P!InMap(c \o <<o>>, TRUE) = <<o>>
        BY ZenonT(60), <1>4, <2>1
  <2>3. P!Value(c \o <<o>>) = m
        BY ZenonT(60), <2>1, <2>2 DEF P!Value
  <2>4. QED
        BY ZenonT(60), <2>3 DEF o
<1>9. QED
      BY ZenonT(60), <1>6, <1>7, <1>8 DEF c

IsKey(occ) == \E V : occ \in P!Occurrences(V)
NoneBad(occ) == \A i \in DOMAIN occ : occ[i].value # "bad"

\* A sequence holds elements of its set.
LEMMA ElementsOf ==
  ASSUME NEW S, NEW s \in Seq(S), NEW i \in DOMAIN s
  PROVE  s[i] \in S
BY SMTT(60)

\* A record stays one of its kind when a field may hold more.
LEMMA RecordGrows ==
  ASSUME NEW B, NEW V, NEW m, NEW x \in [exact : B, value : V]
  PROVE  x \in [exact : B, value : V \cup {m}]
BY SMTT(60)

\* What the steps leave of a key is again one.
LEMMA StaysKey ==
  ASSUME NEW occ, IsKey(occ), NEW m
  PROVE  /\ IsKey(P!Marshal(occ)) /\ IsKey(P!InMap(occ, FALSE))
         /\ IsKey(P!InMap(occ, FALSE) \o <<[exact |-> TRUE, value |-> m]>>)
<1>1. PICK V : occ \in P!Occurrences(V)
      BY ZenonT(60) DEF IsKey
<1> DEFINE W == V \cup {m}
<1> DEFINE O == [exact : BOOLEAN, value : W]
<1> DEFINE o == [exact |-> TRUE, value |-> m]
<1>2. \A i \in DOMAIN occ : occ[i] \in O
  <2>1. \A i \in DOMAIN occ : occ[i] \in [exact : BOOLEAN, value : V]
        BY ZenonT(60), <1>1, ElementsOf DEF P!Occurrences
  <2>2. \A x \in [exact : BOOLEAN, value : V] : x \in O
        BY ZenonT(60), RecordGrows
  <2>3. QED
        BY ZenonT(60), <2>1, <2>2
<1>3. o \in O
      BY SMTT(60)
<1> HIDE DEF O, o
<1>4. ASSUME NEW e \in BOOLEAN PROVE P!InMap(occ, e) \in Seq(O)
  <2>1. P!InMap(occ, e) = <<>> \/ \E i \in DOMAIN occ : P!InMap(occ, e) = <<occ[i]>>
        BY ZenonT(60), <1>1, MapKeeps
  <2>2. <<>> \in Seq(O) /\ \A x \in O : <<x>> \in Seq(O)
        BY SMTT(60)
  <2>3. QED
        BY ZenonT(60), <1>2, <2>1, <2>2
<1>5. \A x, y \in Seq(O) : x \o y \in Seq(O)
      BY SMTT(60)
<1>6. <<o>> \in Seq(O)
      BY SMTT(60), <1>3
<1>7. /\ P!Marshal(occ) \in Seq(O) /\ P!InMap(occ, FALSE) \in Seq(O)
      /\ P!InMap(occ, FALSE) \o <<o>> \in Seq(O)
      BY ZenonT(60), <1>4, <1>5, <1>6 DEF P!Marshal
<1>8. QED
      BY ZenonT(60), <1>7 DEF IsKey, P!Occurrences, O, o

\* A key that is spelled in one way only.
LEMMA ExactKey ==
  ASSUME NEW occ, IsKey(occ), P!AllExact(occ)
  PROVE  /\ P!AllExact(P!Marshal(occ)) /\ P!InMap(occ, FALSE) = <<>>
         /\ NoneBad(occ) => NoneBad(P!Marshal(occ))
         /\ Len(occ) \in Nat /\ DOMAIN occ = 1 .. Len(occ)
         /\ Len(occ) > 0 => P!Value(occ) = occ[Len(occ)].value
         /\ Len(occ) = 0 => P!Value(occ) = P!Absent
<1>1. PICK V : occ \in P!Occurrences(V)
      BY ZenonT(60) DEF IsKey
<1>2. P!InMap(occ, FALSE) = <<>>
  <2>1. \A i \in DOMAIN occ : occ[i].exact = TRUE
        BY SMTT(60), <1>1 DEF P!AllExact, P!Occurrences
  <2>2. \A i \in DOMAIN occ : occ[i].exact # FALSE
        BY ZenonT(60), <2>1
  <2>3. QED
        BY ZenonT(60), <1>1, <2>2, MapKeeps
<1>3. P!InMap(occ, TRUE) = <<>> \/ \E i \in DOMAIN occ : P!InMap(occ, TRUE) = <<occ[i]>>
      BY ZenonT(60), <1>1, MapKeeps
<1>4. P!Marshal(occ) = P!InMap(occ, TRUE)
  <2>1. <<>> \o <<>> = <<>> /\ \A x : <<>> \o <<x>> = <<x>>
        BY SMTT(60)
  <2>2. QED
        BY ZenonT(60), <1>2, <1>3, <2>1 DEF P!Marshal
<1>5. P!AllExact(P!Marshal(occ)) /\ (NoneBad(occ) => NoneBad(P!Marshal(occ)))
  <2>1. DOMAIN <<>> = {} /\ \A x : DOMAIN <<x>> = {1} /\ <<x>>[1] = x
        BY SMTT(60)
  <2>2. QED
        BY ZenonT(60), <1>3, <1>4, <2>1 DEF P!AllExact, NoneBad
<1>6. Len(occ) \in Nat /\ DOMAIN occ = 1 .. Len(occ)
      BY SMTT(60), <1>1 DEF P!Occurrences
<1> DEFINE places == {i \in DOMAIN occ : occ[i].exact = TRUE}
<1>7. places = 1 .. Len(occ)
  <2>1. \A i \in DOMAIN occ : occ[i].exact = TRUE
        BY SMTT(60), <1>1 DEF P!AllExact, P!Occurrences
  <2>2. QED
        BY ZenonT(60), <1>6, <2>1
<1>8. P!InMap(occ, TRUE) = IF places = {} THEN <<>> ELSE <<occ[P!Max(places)]>>
      BY ZenonT(60) DEF P!InMap
<1> HIDE DEF places
<1>9. ASSUME Len(occ) > 0 PROVE P!Value(occ) = occ[Len(occ)].value
  <2>1. Len(occ) \in 1 .. Len(occ)
        BY SMTT(60), <1>6, <1>9
  <2>2. P!Max(places) \in 1 .. Len(occ) /\ P!Max(places) >= Len(occ)
    <3>1. places # {} /\ places \subseteq 1 .. Len(occ)
          BY ZenonT(60), <1>7, <2>1
    <3>2. QED
          BY ZenonT(60), <1>6, <1>7, <2>1, <3>1, LastPosition
  <2>3. P!Max(places) = Len(occ) /\ places # {}
        BY SMTT(60), <1>6, <1>7, <2>1, <2>2
  <2>4. P!InMap(occ, TRUE) = <<occ[Len(occ)]>>
        BY ZenonT(60), <1>8, <2>3
  <2>5. \A x : <<x>> # <<>> /\ <<x>>[1] = x
        BY SMTT(60)
  <2>6. QED
        BY ZenonT(60), <2>4, <2>5 DEF P!Value
<1>10. ASSUME Len(occ) = 0 PROVE P!Value(occ) = P!Absent
  <2>1. places = {}
        BY SMTT(60), <1>7, <1>10
  <2>2. QED
        BY ZenonT(60), <1>8, <2>1 DEF P!Value
<1>11. QED
      BY ZenonT(60), <1>2, <1>5, <1>6, <1>9, <1>10

\* The tools of the request, as they are when the body has been rewritten.
SameTools(t, r) ==
  P!AllExact(r) => P!AllExact(t) /\ P!Value(t) = P!Value(r) /\ (NoneBad(r) => NoneBad(t))

\* The body, the model and the queries, by the place of the handler: the body is
\* the client's until it is rewritten, it names the resolved model from then on,
\* and nothing is sent before it is plain.
Handled ==
  /\ DOMAIN body = BodyFields /\ body.kind \in {"object", "null", "other"}
  /\ IsKey(body.model) /\ IsKey(body.tools)
  /\ hpc \in {"start", "pick", "read", "resolve", "rewrite", "tools", "run", "collect", "done"}
  /\ hpc \in {"start", "pick", "read", "resolve", "rewrite"} => body = req.body
  /\ hpc \in {"start", "pick", "read", "resolve", "rewrite", "tools", "run"} => sent = <<>>
  /\ hpc = "rewrite" => /\ model # "" /\ model \in offered
                        /\ P!Requested(body) \in {"", "default", model}
  /\ hpc \in {"tools", "run"} => /\ model \in offered /\ P!Requested(req.body) \in {"", "default", model}
                                 /\ P!NamesModel(body, model, req.body)
  /\ hpc = "tools" => SameTools(body.tools, req.body.tools)
  /\ hpc = "run" => P!IsPlain(body, req.body)

ChatInv == Handled /\ P!SentAsResolved

\* A request that has just come in.
LEMMA ChatInit == P!Init => ChatInv
<1> SUFFICES ASSUME P!Init PROVE ChatInv
    OBVIOUS
<1>1. req.body \in P!Body
      BY ZenonT(60), RequestAssumption DEF P!Init
<1>2. DOMAIN req.body = BodyFields /\ req.body.kind \in {"object", "null", "other"}
      BY ZenonT(60), <1>1 DEF P!Body, BodyFields
<1>2a. IsKey(req.body.model) /\ IsKey(req.body.tools)
      BY ZenonT(60), <1>1 DEF P!Body, IsKey
<1>3. sent = <<>>
      BY ZenonT(60) DEF P!Init
<1>4. DOMAIN sent = {}
      BY SMTT(60), <1>3
<1>5. Handled
      BY ZenonT(60), <1>2, <1>2a DEF P!Init, Handled
<1>6. QED
      BY <1>4, <1>5 DEF ChatInv, P!SentAsResolved

\* The body that is sent, when the tools were the client's until then.
LEMMA PlainBody ==
  ASSUME DOMAIN body = BodyFields, IsKey(body.tools), SameTools(body.tools, req.body.tools)
  PROVE  P!IsPlain(IF P!requestHasTools THEN P!translateRequestBody ELSE P!forceNonStream, req.body)
<1> DEFINE b == IF P!requestHasTools THEN P!translateRequestBody ELSE P!forceNonStream
<1> DEFINE last == Len(body.tools)
<1> SUFFICES ASSUME P!AllExact(req.body.tools)
             PROVE  /\ ~b.stream
                    /\ P!Value(req.body.tools) = "some" /\ NoneBad(req.body.tools)
                         => P!Value(b.tools) = P!Absent /\ b.rejected = {}
    BY ZenonT(60) DEF P!IsPlain, NoneBad
<1>1. /\ P!AllExact(body.tools) /\ P!Value(body.tools) = P!Value(req.body.tools)
      /\ NoneBad(req.body.tools) => NoneBad(body.tools)
      BY ZenonT(60) DEF SameTools
<1>2. /\ P!InMap(body.tools, FALSE) = <<>> /\ last \in Nat /\ DOMAIN body.tools = 1 .. last
      /\ last > 0 => P!Value(body.tools) = body.tools[last].value
      /\ last = 0 => P!Value(body.tools) = P!Absent
      BY ZenonT(60), <1>1, ExactKey
<1>3. P!Value(P!InMap(body.tools, FALSE)) = P!Absent
      BY ZenonT(60), MarshalReads DEF IsKey
<1>4. P!Absent # "some"
      BY SMTT(60) DEF P!Absent
<1>5. CASE P!requestHasTools
  <2>1. P!Value(body.tools) = "some"
        BY ZenonT(60), <1>2, <1>5 DEF P!requestHasTools
  <2>2. b = [P!Marshalled(body) EXCEPT !.tools = P!InMap(body.tools, FALSE), !.stream = FALSE, !.rejected = {}]
        BY ZenonT(60), <1>4, <1>5, <2>1 DEF P!translateRequestBody
  <2>3. ~b.stream /\ b.tools = P!InMap(body.tools, FALSE) /\ b.rejected = {}
        BY ZenonT(60), <2>2 DEF P!Marshalled, BodyFields
  <2>4. QED
        BY ZenonT(60), <1>3, <2>3
<1>6. CASE ~P!requestHasTools
  <2>1. ~b.stream
        BY ZenonT(60), <1>6 DEF P!forceNonStream, P!Marshalled, BodyFields
  <2>2. ASSUME P!Value(body.tools) = "some", NoneBad(body.tools) PROVE P!requestHasTools
    <3>1. last # 0
          BY ZenonT(60), <1>2, <1>4, <2>2
    <3>2. last > 0
          BY SMTT(60), <1>2, <3>1
    <3>3. QED
          BY ZenonT(60), <1>2, <2>2, <3>2 DEF P!requestHasTools, NoneBad
  <2>3. QED
        BY ZenonT(60), <1>1, <1>6, <2>1, <2>2
<1>7. QED
      BY ZenonT(60), <1>5, <1>6

\* The steps up to the query.
LEMMA PrepareKeeps ==
  ASSUME ChatInv,
         P!checkMethod \/ P!pickSession \/ P!readBody \/ P!resolveModel \/ P!rewriteJSONModel \/ P!prepareBody
  PROVE  ChatInv'
<1> USE DEF ChatInv
<1>1. req' = req /\ sent' = sent /\ sent = <<>>
      BY ZenonT(60) DEF P!checkMethod, P!pickSession, P!readBody, P!resolveModel, P!rewriteJSONModel, P!prepareBody, Handled
<1>2. DOMAIN sent' = {}
      BY SMTT(60), <1>1
<1>3. P!SentAsResolved'
      BY ZenonT(60), <1>2 DEF P!SentAsResolved
<1>4. CASE P!checkMethod
  <2>1. hpc = "start" /\ hpc' \in {"done", "pick"} /\ UNCHANGED <<body, model, offered>>
        BY ZenonT(60), <1>4 DEF P!checkMethod, P!writeJSONError
  <2>2. QED
        BY ZenonT(60), <1>1, <1>3, <2>1 DEF Handled
<1>5. CASE P!pickSession \/ P!readBody
  <2>1. /\ hpc \in {"pick", "read"} /\ hpc' \in {"done", "read", "resolve"}
        /\ UNCHANGED <<body, model, offered>>
        BY ZenonT(60), <1>5 DEF P!pickSession, P!readBody, P!writeJSONError
  <2>2. QED
        BY ZenonT(60), <1>1, <1>3, <2>1 DEF Handled
<1>6. CASE P!resolveModel
  <2>1. hpc = "resolve" /\ hpc' \in {"done", "rewrite"} /\ UNCHANGED <<body>>
        BY <1>6 DEF P!resolveModel, P!writeJSONError
  <2>2. ASSUME hpc' = "rewrite"
        PROVE  model' # "" /\ model' \in offered' /\ P!Requested(body) \in {"", "default", model'}
    <3>1. model' \in P!Resolved /\ offered' = {Models[i] : i \in staffed}
          BY ZenonT(60), <1>6, <2>2 DEF P!resolveModel, P!writeJSONError
    <3> DEFINE named == {i \in staffed : Models[i] # ""}
    <3>2. CASE P!Requested(body) \notin {"", "default"}
          BY ZenonT(60), <3>1, <3>2 DEF P!Resolved
    <3>3. CASE P!Requested(body) \in {"", "default"}
      <4>1. \E i \in named : model' = Models[i]
            BY ZenonT(60), <3>1, <3>3 DEF P!Resolved
      <4>2. QED
            BY ZenonT(60), <3>1, <3>3, <4>1
    <3>4. QED
          BY ZenonT(60), <3>2, <3>3
  <2>3. QED
        BY ZenonT(60), <1>1, <1>3, <2>1, <2>2 DEF Handled
<1>7. CASE P!rewriteJSONModel
  <2> DEFINE set == P!InMap(body.model, FALSE) \o <<[exact |-> TRUE, value |-> model]>>
  <2>1. hpc = "rewrite" /\ hpc' \in {"done", "tools"} /\ UNCHANGED <<model, offered>>
        BY ZenonT(60), <1>7 DEF P!rewriteJSONModel, P!writeJSONError
  <2>2. \/ hpc' = "done" /\ UNCHANGED body
        \/ hpc' = "tools" /\ UNCHANGED body /\ model = P!Requested(body)
        \/ hpc' = "tools" /\ body' = [P!Marshalled(body) EXCEPT !.model = set]
        BY ZenonT(60), <1>7 DEF P!rewriteJSONModel, P!writeJSONError
  <2>3. /\ body = req.body /\ model # "" /\ model \in offered /\ DOMAIN body = BodyFields
        /\ body.kind \in {"object", "null", "other"} /\ P!Requested(body) \in {"", "default", model}
        /\ IsKey(body.model) /\ IsKey(body.tools)
        BY ZenonT(60), <2>1 DEF Handled
  <2>4. CASE hpc' = "done" /\ UNCHANGED body
        BY ZenonT(60), <1>1, <1>3, <2>1, <2>3, <2>4 DEF Handled
  <2>5. CASE hpc' = "tools" /\ UNCHANGED body /\ model = P!Requested(body)
    <3>1. P!NamesModel(body, model, req.body)
          BY ZenonT(60), <2>3, <2>5 DEF P!NamesModel
    <3>2. SameTools(body.tools, req.body.tools)
          BY ZenonT(60), <2>3 DEF SameTools
    <3>3. QED
          BY ZenonT(60), <1>1, <1>3, <2>1, <2>3, <2>5, <3>1, <3>2 DEF Handled
  <2>6. CASE hpc' = "tools" /\ body' = [P!Marshalled(body) EXCEPT !.model = set]
    <3>1. /\ DOMAIN body' = BodyFields /\ body'.kind = body.kind
          /\ body'.model = set /\ body'.tools = P!Marshal(body.tools)
          BY ZenonT(60), <2>3, <2>6 DEF BodyFields, P!Marshalled
    <3>2. IsKey(set) /\ IsKey(P!Marshal(body.tools))
          BY ZenonT(60), <2>3, StaysKey
    <3>3. P!Value(set) = model /\ P!Value(P!Marshal(body.tools)) = P!Value(body.tools)
          BY ZenonT(60), <2>3, MarshalReads DEF IsKey
    <3> HIDE DEF set
    <3>4. P!NamesModel(body', model, req.body)
          BY ZenonT(60), <3>1, <3>3 DEF P!NamesModel
    <3>5. SameTools(P!Marshal(body.tools), body.tools)
          BY ZenonT(60), <2>3, <3>3, ExactKey DEF SameTools
    <3>6. SameTools(body'.tools, req.body.tools)
          BY ZenonT(60), <2>3, <3>1, <3>5
    <3>7. /\ IsKey(body'.model) /\ IsKey(body'.tools) /\ model' = model /\ offered' = offered
          BY ZenonT(60), <2>1, <3>1, <3>2
    <3>8. QED
          BY ZenonT(60), <1>1, <1>3, <2>1, <2>3, <2>6, <3>1, <3>4, <3>6, <3>7 DEF Handled
  <2>7. QED
        BY ZenonT(60), <2>2, <2>4, <2>5, <2>6
<1>8. CASE P!prepareBody
  <2>1. /\ hpc = "tools" /\ hpc' = "run" /\ UNCHANGED <<model, offered>>
        /\ body' = IF P!requestHasTools THEN P!translateRequestBody ELSE P!forceNonStream
        BY <1>8 DEF P!prepareBody
  <2>2. /\ DOMAIN body = BodyFields /\ body.kind \in {"object", "null", "other"}
        /\ IsKey(body.model) /\ IsKey(body.tools)
        /\ P!NamesModel(body, model, req.body) /\ SameTools(body.tools, req.body.tools)
        /\ model \in offered /\ P!Requested(req.body) \in {"", "default", model}
        BY ZenonT(60), <2>1 DEF Handled
  <2>3. /\ DOMAIN body' = BodyFields /\ body'.kind = body.kind
        /\ body'.model \in {body.model, P!Marshal(body.model)}
        /\ body'.tools \in {body.tools, P!Marshal(body.tools), P!InMap(body.tools, FALSE)}
    <3> DEFINE less == [P!Marshalled(body) EXCEPT !.tools = P!InMap(body.tools, FALSE)]
    <3>0. \/ P!translateRequestBody = body
          \/ P!translateRequestBody = [less EXCEPT !.stream = FALSE, !.rejected = {}]
          \/ P!translateRequestBody = [less EXCEPT !.rejected = @ \ {"tool_choice"}]
          BY DEF P!translateRequestBody
    <3>1. \/ body' = body \/ body' = P!forceNonStream
          \/ body' = [less EXCEPT !.stream = FALSE, !.rejected = {}]
          \/ body' = [less EXCEPT !.rejected = @ \ {"tool_choice"}]
          BY ZenonT(60), <2>1, <3>0
    <3>2. CASE body' = body
          BY ZenonT(60), <2>2, <3>2
    <3>3. CASE body' = P!forceNonStream
          BY ZenonT(60), <2>2, <3>3 DEF P!forceNonStream, P!Marshalled, BodyFields
    <3>4. CASE body' = [less EXCEPT !.stream = FALSE, !.rejected = {}]
          BY ZenonT(60), <2>2, <3>4 DEF P!Marshalled, BodyFields
    <3>5. CASE body' = [less EXCEPT !.rejected = @ \ {"tool_choice"}]
          BY ZenonT(60), <2>2, <3>5 DEF P!Marshalled, BodyFields
    <3>6. QED
          BY ZenonT(60), <3>1, <3>2, <3>3, <3>4, <3>5
  <2>4. P!Value(body'.model) = P!Value(body.model) /\ IsKey(body'.model) /\ IsKey(body'.tools)
        BY ZenonT(60), <2>2, <2>3, MarshalReads, StaysKey DEF IsKey
  <2>5. P!NamesModel(body', model, req.body)
        BY ZenonT(60), <2>2, <2>4 DEF P!NamesModel
  <2>6. P!IsPlain(body', req.body)
        BY ZenonT(60), <2>1, <2>2, PlainBody
  <2>7. QED
        BY ZenonT(60), <1>1, <1>3, <2>1, <2>2, <2>3, <2>4, <2>5, <2>6 DEF Handled
<1>9. QED
      BY ZenonT(60), <1>4, <1>5, <1>6, <1>7, <1>8

\* Every step of the handler and every change of the sessions.
LEMMA ChatNext == ChatInv /\ [P!Next]_(P!vars) => ChatInv'
<1> SUFFICES ASSUME ChatInv, [P!Next]_(P!vars) PROVE ChatInv'
    OBVIOUS
<1> USE DEF ChatInv
<1>1. CASE P!RunQuery
  <2>1. hpc = "run" /\ hpc' \in {"done", "collect"} /\ UNCHANGED <<req, body, sess, model, offered>>
        BY ZenonT(60), <1>1 DEF P!RunQuery, P!writeJSONError
  <2>2. Handled'
        BY ZenonT(60), <2>1 DEF Handled
  <2>3. CASE UNCHANGED sent
        BY ZenonT(60), <2>1, <2>2, <2>3 DEF P!SentAsResolved
  <2>4. CASE sent' = Append(sent, [sess |-> sess, model |-> model, body |-> body])
    <3>1. sent = <<>>
          BY ZenonT(60), <2>1 DEF Handled
    <3>2. sent' = <<[sess |-> sess, model |-> model, body |-> body]>>
          BY SMTT(60), <2>4, <3>1
    <3>3. DOMAIN sent' = {1} /\ sent'[1] = [sess |-> sess, model |-> model, body |-> body]
          BY SMTT(60), <3>2
    <3>4. /\ sent'[1].model = model /\ sent'[1].body = body /\ sent'[1].sess = sess
          BY SMTT(60), <3>3
    <3>5. /\ model \in offered /\ P!Requested(req.body) \in {"", "default", model}
          /\ P!NamesModel(body, model, req.body) /\ P!IsPlain(body, req.body)
          BY ZenonT(60), <2>1 DEF Handled
    <3>6. P!SentAsResolved'
          BY ZenonT(60), <2>1, <3>3, <3>4, <3>5 DEF P!SentAsResolved
    <3>7. QED
          BY ZenonT(60), <2>2, <3>6
  <2>5. QED
        BY ZenonT(60), <1>1, <2>3, <2>4 DEF P!RunQuery
<1>2. CASE P!Collect
  <2>1. hpc' = "done" /\ UNCHANGED <<req, body, sess, model, offered, sent>>
        BY ZenonT(60), <1>2 DEF P!Collect, P!writeJSONError
  <2>2. QED
        BY ZenonT(60), <2>1 DEF Handled, P!SentAsResolved
<1>3. CASE P!Environment
  <2>1. UNCHANGED <<hpc, req, body, sess, model, offered, sent>>
        BY <1>3 DEF P!Environment, P!local
  <2>2. QED
        BY ZenonT(60), <2>1 DEF Handled, P!SentAsResolved
<1>4. CASE UNCHANGED P!vars
  <2>1. UNCHANGED <<hpc, req, body, sess, model, offered, sent>>
        BY <1>4 DEF P!vars
  <2>2. QED
        BY ZenonT(60), <2>1 DEF Handled, P!SentAsResolved
<1>5. QED
      BY ZenonT(60), <1>1, <1>2, <1>3, <1>4, PrepareKeeps DEF P!Next, P!Handler

\* handleChatCompletions: the query names a model that had a worker and is the
\* client's unless it was left open, goes to the session whose models were asked,
\* and its body names that model and is plain as far as probe and map agree; for
\* every list of models and every request, with each key any number of times.
THEOREM AsResolved == P!Spec => []SentAsResolved
<1>1. ChatInv => SentAsResolved
      BY DEF ChatInv, SentAsResolved
<1>2. QED
      BY <1>1, ChatInit, ChatNext, PTL DEF P!Spec

----------------------------------------------------------------------------
(* wallet withdraw.  While nobody has touched the wallet since its first   *)
(* snapshot and the message has not been executed, the account is what     *)
(* that snapshot says, and so is every later snapshot; neither test of the *)
(* poll accepts one that is equal to the first.  Both hypotheses, once     *)
(* lost, stay lost.                                                        *)

Accounts == [status : {"none", "uninit", "active"}, balance : Nat, lt : Nat, seqno : Nat]

SnapshotsOf == [active : BOOLEAN, balance : Nat, lt : Nat]

WithdrawTypes ==
  /\ src \in Accounts
  /\ before \in [source : SnapshotsOf, dest : Nat]
  /\ dst \in Nat
  /\ ~swept => src.lt # 0

\* No one has touched the wallet: neither another sender nor the message.
Untouched == quiet /\ ~swept

\* The snapshots of an untouched wallet are its state.
Snapshots ==
  /\ Untouched /\ wpc \in {"dest", "seqno", "send", "poll", "judge"}
       => before.source = fetchAccountSnapshot(src)
  /\ Untouched /\ wpc = "judge" /\ now.ok => now.source = before.source

Verdict == outcome # "none" => wpc = "done"

WithdrawInv == WithdrawTypes /\ Snapshots /\ Verdict /\ QuietConfirmation

\* A withdrawal that has not begun.
LEMMA WithdrawBegins == WithdrawInit => WithdrawInv
<1> SUFFICES ASSUME WithdrawInit PROVE WithdrawInv
    OBVIOUS
<1>1. WithdrawTypes
  <2>1. src \in Accounts /\ src.lt = 1
        BY DEF WithdrawInit, Accounts
  <2>2. QED
        BY <2>1 DEF WithdrawInit, WithdrawTypes, SnapshotsOf, NoSnapshot
<1>2. Snapshots /\ Verdict /\ QuietConfirmation
      BY DEF WithdrawInit, Snapshots, Verdict, QuietConfirmation
<1>3. QED
      BY <1>1, <1>2 DEF WithdrawInv

\* A snapshot equal to the one before confirms nothing.
LEMMA SameIsNotDrained ==
  ASSUME WithdrawTypes, Untouched, before.source = fetchAccountSnapshot(src),
         now.source = before.source, NEW b \in BOOLEAN
  PROVE  ~walletDrainedFrom(now.source, before.source) /\ ~Moved(b)
<1>1. before.source.lt = src.lt /\ before.source.balance = src.balance
      BY DEF fetchAccountSnapshot
<1>2. src.lt \in Nat /\ src.lt # 0 /\ src.balance \in Nat
      BY SMTT(60) DEF WithdrawTypes, Accounts, Untouched
<1>3. QED
      BY <1>1, <1>2 DEF walletDrainedFrom, Moved

\* The command's own steps.
LEMMA CommandKeeps ==
  ASSUME WithdrawInv,
         \/ SourceBefore \/ DestBefore \/ queryWalletSeqno \/ SendExternalMessage
         \/ Polls \/ Timeout
  PROVE  WithdrawInv'
<1> USE DEF WithdrawInv, Snapshots, Verdict, QuietConfirmation, Untouched, accounts
<1>1. CASE SourceBefore
  <2>1. fetchAccountSnapshot(src) \in SnapshotsOf
        BY DEF fetchAccountSnapshot, SnapshotsOf, WithdrawTypes, Accounts
  <2>2. UNCHANGED <<src, dst, swept, now>>
        BY <1>1 DEF SourceBefore
  <2>3. CASE Fails /\ UNCHANGED before
    <3>1. WithdrawTypes'
          BY <2>2, <2>3 DEF WithdrawTypes
    <3>2. wpc' = "done" /\ outcome' # "confirmed"
          BY <2>3 DEF Fails
    <3>3. QED
          BY <3>1, <3>2
  <2>4. CASE before' = [before EXCEPT !.source = fetchAccountSnapshot(src)]
    <3>1. before' \in [source : SnapshotsOf, dest : Nat] /\ before'.source = fetchAccountSnapshot(src)
          BY <2>1, <2>4 DEF WithdrawTypes
    <3>2. WithdrawTypes'
          BY <2>2, <3>1 DEF WithdrawTypes
    <3>3. wpc' \in {"dest", "done"} /\ (wpc' = "done" => outcome' = "failed") /\ (wpc' = "dest" => UNCHANGED outcome)
          BY <1>1 DEF SourceBefore, Fails
    <3>4. QED
          BY <1>1, <2>2, <3>1, <3>2, <3>3 DEF SourceBefore, fetchAccountSnapshot
  <2>5. QED
        BY <1>1, <2>3, <2>4 DEF SourceBefore
<1>2. CASE DestBefore
  <2>1. before' \in [source : SnapshotsOf, dest : Nat] /\ before'.source = before.source
        BY <1>2 DEF DestBefore, WithdrawTypes
  <2>2. WithdrawTypes'
        BY <1>2, <2>1 DEF DestBefore, WithdrawTypes
  <2>3. QED
        BY <1>2, <2>1, <2>2 DEF DestBefore, Fails, fetchAccountSnapshot
<1>3. CASE queryWalletSeqno
      BY SMTT(60), <1>3 DEF queryWalletSeqno, Fails, fetchAccountSnapshot, WithdrawTypes
<1>4. CASE SendExternalMessage
      BY <1>4 DEF SendExternalMessage, Fails, fetchAccountSnapshot, WithdrawTypes
<1>5. CASE FetchSource
      BY <1>5 DEF FetchSource, fetchAccountSnapshot, WithdrawTypes
<1>6. ASSUME NEW b \in BOOLEAN, waitWalletWithdrawConfirmation(b) PROVE WithdrawInv'
  <2>1. WithdrawTypes'
        BY SMTT(60), <1>6 DEF waitWalletWithdrawConfirmation, WithdrawTypes
  <2>2. wpc = "judge" /\ outcome = "none" /\ UNCHANGED <<before, now, src, swept, quiet>>
        BY <1>6 DEF waitWalletWithdrawConfirmation
  <2>3. CASE Untouched
    <3>1. ~(now.ok /\ (walletDrainedFrom(now.source, before.source) \/ Moved(b)))
          BY <2>2, <2>3, SameIsNotDrained
    <3>2. wpc' = "poll" /\ UNCHANGED outcome
          BY <1>6, <3>1 DEF waitWalletWithdrawConfirmation
    <3>3. QED
          BY <2>1, <2>2, <3>2 DEF fetchAccountSnapshot
  <2>4. CASE ~Untouched
        BY <1>6, <2>1, <2>2, <2>4 DEF waitWalletWithdrawConfirmation
  <2>5. QED
        BY <2>3, <2>4
<1>7. CASE Timeout
      BY <1>7 DEF Timeout, WithdrawTypes
<1>8. QED
      BY <1>1, <1>2, <1>3, <1>4, <1>5, <1>6, <1>7 DEF Polls

\* The chain only ever spoils the two hypotheses.
LEMMA ChainKeeps ==
  ASSUME WithdrawInv, Chain
  PROVE  WithdrawInv'
<1> USE DEF WithdrawInv, Snapshots, Verdict, QuietConfirmation, Untouched, cli
<1>1. CASE Execute
  <2>1. WithdrawTypes'
        BY <1>1 DEF Execute, WithdrawTypes, Accounts, NoAccount
  <2>2. QED
        BY <1>1, <2>1 DEF Execute
<1>2. CASE Deposit
  <2>1. WithdrawTypes'
    <3>1. src.balance \in Nat /\ src.lt \in Nat /\ MaxTx \in Nat
          BY WithdrawAssumption DEF WithdrawTypes, Accounts
    <3>2. src.balance + 1 \in Nat /\ src.lt + 1 \in Nat \ {0} /\ MaxTx + 1 \in Nat \ {0}
          BY <3>1
    <3>3. src' \in Accounts /\ src'.lt # 0
          BY ZenonT(60), <1>2, <3>2 DEF Deposit, WithdrawTypes, Accounts
    <3>4. QED
          BY <1>2, <3>3 DEF Deposit, WithdrawTypes
  <2>2. QED
        BY <1>2, <2>1 DEF Deposit
<1>3. CASE RunnerSpends
  <2>1. WithdrawTypes'
    <3>1. src.balance \in Nat /\ src.balance > 0 /\ src.lt \in Nat /\ src.seqno \in Nat
          BY <1>3 DEF RunnerSpends, WithdrawTypes, Accounts
    <3>2. src.balance - 1 \in Nat /\ src.lt + 1 \in Nat \ {0} /\ src.seqno + 1 \in Nat
          BY <3>1
    <3>3. QED
          BY ZenonT(60), <1>3, <3>2 DEF RunnerSpends, WithdrawTypes, Accounts
  <2>2. QED
        BY <1>3, <2>1 DEF RunnerSpends
<1>4. CASE DestMoves
      BY <1>4, WithdrawAssumption DEF DestMoves, WithdrawTypes, fetchAccountSnapshot
<1>5. QED
      BY <1>1, <1>2, <1>3, <1>4 DEF Chain

\* Every step of the command, of the chain and of the other senders.
LEMMA WithdrawKeeps == WithdrawInv /\ [WithdrawNext]_withdrawVars => WithdrawInv'
<1> SUFFICES ASSUME WithdrawInv, [WithdrawNext]_withdrawVars PROVE WithdrawInv'
    OBVIOUS
<1>1. CASE UNCHANGED withdrawVars
      BY <1>1 DEF withdrawVars, WithdrawInv, WithdrawTypes, Snapshots, Verdict, QuietConfirmation, Untouched, fetchAccountSnapshot
<1>2. CASE WithdrawNext
      BY <1>2, CommandKeeps, ChainKeeps DEF WithdrawNext
<1>3. QED
      BY <1>1, <1>2

\* A wallet that nobody else uses meanwhile is reported as swept only when it
\* was (waitWalletWithdrawConfirmation, walletDrainedFrom).
THEOREM QuietIsRight == WithdrawSpec => []QuietConfirmation
<1>1. WithdrawInv => QuietConfirmation
      BY DEF WithdrawInv
<1>2. QED
      BY <1>1, WithdrawBegins, WithdrawKeeps, PTL DEF WithdrawSpec

----------------------------------------------------------------------------
(* init and config generate.  The argument follows the one command that    *)
(* runs: what it has checked or written stays so until it ends, as nobody  *)
(* else writes.  Commands at the same time are excluded by hypothesis:     *)
(* with them KeepsWallet fails.                                            *)

Names == {"wallet", "config", "ton"}
Keys == Commands \cup {Seed}
Contents == {Absent, Torn} \cup {Whole(k) : k \in Keys}

SetupTypes ==
  /\ stage \in [Commands -> {"idle", "preflight", "stat", "truncate", "write", "ok", "failed"}]
  /\ at \in [Commands -> {1, 2, 3}]
  /\ key \in [Commands -> Keys]
  /\ files \in [Names -> Contents]

OneAtATime == \A c, d \in Commands : Active(c) /\ Active(d) => c = d

Writing(c) == stage[c] \in {"stat", "truncate", "write"}

\* An init has written the outputs before the one it is at.
InitPlaced(c) ==
  /\ key[c] = c
  /\ Writing(c) /\ at[c] # 1 => files["wallet"] = Whole(c)
  /\ Writing(c) /\ at[c] = 3 => files["ton"] = Whole(Seed)

\* A config generate has read its key from the wallet that is there.
GeneratePlaced(c) ==
  /\ stage[c] # "stat"
  /\ Writing(c) => at[c] = 1 /\ files["wallet"] = Whole(key[c])

Placed == \A c \in Commands : IF c \in Generators THEN GeneratePlaced(c) ELSE InitPlaced(c)

\* What is truncated was absent, unless --force was given; what is written was
\* truncated.
Checked ==
  \A c \in Commands :
    /\ stage[c] = "truncate" /\ c \notin Generators \cup Forced => files[Outputs(c)[at[c]]] = Absent
    /\ stage[c] = "write" => files[Outputs(c)[at[c]]] = Torn

SetupInv == Concurrent = FALSE /\ SetupTypes /\ OneAtATime /\ Placed /\ Checked

\* The outputs, and their order.
LEMMA OutputsAre ==
  \A c :
    /\ c \in Generators => Outputs(c)[1] = "config" /\ Len(Outputs(c)) = 1
    /\ c \notin Generators => /\ Outputs(c)[1] = "wallet" /\ Outputs(c)[2] = "ton"
                              /\ Outputs(c)[3] = "config" /\ Len(Outputs(c)) = 3
BY DEF Outputs

\* What a file holds tells its states apart.
LEMMA ContentsAre ==
  /\ Absent \in Contents /\ Torn \in Contents
  /\ \A k \in Keys : Whole(k) \in Contents /\ Whole(k)[1] = "whole" /\ Whole(k)[2] = k
  /\ Absent[1] # "whole" /\ Torn[1] # "whole"
  /\ \A x \in Contents : x[1] = "whole" => x[2] \in Keys /\ x = Whole(x[2])
<1>1. Absent[1] # "whole" /\ Torn[1] # "whole"
      BY DEF Absent, Torn
<1>2. \A k : Whole(k)[1] = "whole" /\ Whole(k)[2] = k
      BY DEF Whole
<1>3. QED
      BY <1>1, <1>2 DEF Contents

\* No command has begun.
LEMMA SetupBegins == SetupInit /\ Concurrent = FALSE => SetupInv
<1> SUFFICES ASSUME SetupInit, Concurrent = FALSE PROVE SetupInv
    BY ZenonT(60)
<1>1. SetupTypes
      BY ContentsAre DEF SetupInit, SetupTypes, Keys, Names
<1>2. \A c \in Commands : stage[c] = "idle" /\ key[c] = c
      BY ZenonT(60) DEF SetupInit
<1>3. QED
      BY <1>1, <1>2 DEF SetupInv, OneAtATime, Active, Placed, InitPlaced, GeneratePlaced, Writing, Checked

\* A command starts when none runs.
LEMMA StartKeeps ==
  ASSUME SetupInv, NEW c \in Commands, Start(c)
  PROVE  SetupInv'
<1> USE DEF SetupInv
<1>1. /\ stage' = [stage EXCEPT ![c] = "preflight"] /\ at' = [at EXCEPT ![c] = 1]
      /\ UNCHANGED <<key, files>>
      /\ \A d \in Commands : ~Active(d)
      BY DEF Start, To
<1>2. SetupTypes'
      BY <1>1 DEF SetupTypes
<1>3. \A d \in Commands : stage'[d] \in {"idle", "ok", "failed"} \/ (d = c /\ stage'[d] = "preflight")
      BY <1>1 DEF Active, SetupTypes
<1>4. OneAtATime'
      BY SMTT(60), <1>3 DEF OneAtATime, Active
<1>5. Placed' /\ Checked'
      BY <1>1, <1>3 DEF Placed, InitPlaced, GeneratePlaced, Writing, Checked
<1>6. QED
      BY <1>2, <1>4, <1>5

\* While a command runs every other one is at rest.
LEMMA OthersRest ==
  ASSUME SetupInv, NEW c \in Commands, Active(c), NEW w, NEW i, stage' = [stage EXCEPT ![c] = w],
         at' = [at EXCEPT ![c] = i]
  PROVE  /\ stage'[c] = w /\ at'[c] = i
         /\ \A d \in Commands \ {c} : stage'[d] = stage[d] /\ at'[d] = at[d] /\ stage[d] \in {"idle", "ok", "failed"}
         /\ OneAtATime'
<1>1. stage'[c] = w /\ at'[c] = i /\ \A d \in Commands \ {c} : stage'[d] = stage[d] /\ at'[d] = at[d]
      BY DEF SetupInv, SetupTypes
<1>2. \A d \in Commands \ {c} : stage[d] \in {"idle", "ok", "failed"}
      BY DEF SetupInv, OneAtATime, Active
<1>3. OneAtATime'
      BY <1>1, <1>2 DEF OneAtATime, Active
<1>4. QED
      BY <1>1, <1>2, <1>3

\* A command ends, with what it has written in place.
LEMMA EndKeeps ==
  ASSUME SetupInv, NEW c \in Commands, Active(c), NEW i \in {1, 2, 3}, NEW w \in {"ok", "failed"},
         To(c, w, i), UNCHANGED key, files' \in [Names -> Contents]
  PROVE  SetupInv'
<1>1. stage' = [stage EXCEPT ![c] = w] /\ at' = [at EXCEPT ![c] = i]
      BY DEF To
<1>2. OneAtATime' /\ \A d \in Commands : stage'[d] \in {"idle", "ok", "failed"}
      BY ZenonT(60), <1>1, OthersRest
<1>3. SetupTypes'
      BY <1>1 DEF SetupInv, SetupTypes
<1>4. Placed' /\ Checked'
      BY ZenonT(60), <1>2 DEF SetupInv, Placed, InitPlaced, GeneratePlaced, Writing, Checked
<1>5. QED
      BY <1>2, <1>3, <1>4 DEF SetupInv

\* Commands at rest are in place and have nothing to check.
LEMMA RestPlaced ==
  ASSUME Placed, NEW c \in Commands,
         \A d \in Commands \ {c} : stage'[d] \in {"idle", "ok", "failed"},
         \A d \in Commands \ {c} : key'[d] = key[d],
         c \in Generators => GeneratePlaced(c)', c \notin Generators => InitPlaced(c)'
  PROVE  Placed'
<1>1. ASSUME NEW d \in Commands \ {c}
      PROVE  (d \in Generators => GeneratePlaced(d)') /\ (d \notin Generators => InitPlaced(d)')
  <2>1. ~Writing(d)' /\ stage'[d] # "stat"
        BY ZenonT(60) DEF Writing
  <2>2. d \notin Generators => key'[d] = d
        BY ZenonT(60) DEF Placed, InitPlaced
  <2>3. QED
        BY ZenonT(60), <2>1, <2>2 DEF InitPlaced, GeneratePlaced
<1>2. QED
      BY ZenonT(60), <1>1 DEF Placed

LEMMA RestChecked ==
  ASSUME NEW c \in Commands,
         \A d \in Commands \ {c} : stage'[d] \in {"idle", "ok", "failed"},
         stage'[c] = "truncate" /\ c \notin Generators \cup Forced => files'[Outputs(c)[at'[c]]] = Absent,
         stage'[c] = "write" => files'[Outputs(c)[at'[c]]] = Torn
  PROVE  Checked'
<1>1. \A d \in Commands \ {c} : stage'[d] # "truncate" /\ stage'[d] # "write"
      BY ZenonT(60)
<1>2. QED
      BY ZenonT(60), <1>1 DEF Checked

\* init looks at all its outputs before it writes one.
LEMMA PreflightKeeps ==
  ASSUME SetupInv, NEW c \in Commands, Preflight(c)
  PROVE  SetupInv'
<1> USE DEF SetupInv
<1>1. stage[c] = "preflight" /\ Active(c) /\ c \notin Generators /\ UNCHANGED <<key, files>> /\ at[c] \in {1, 2, 3}
      BY DEF Preflight, Active, SetupTypes
<1>2. CASE To(c, "failed", 1)
      BY ZenonT(60), <1>1, <1>2, EndKeeps DEF SetupTypes
<1>3. ASSUME NEW w \in {"preflight", "stat"}, NEW i \in {1, 2, 3}, To(c, w, i), w = "stat" => i = 1
      PROVE  SetupInv'
  <2>1. stage' = [stage EXCEPT ![c] = w] /\ at' = [at EXCEPT ![c] = i]
        BY <1>3 DEF To
  <2>2. /\ stage'[c] = w /\ at'[c] = i /\ OneAtATime'
        /\ \A d \in Commands \ {c} : stage'[d] \in {"idle", "ok", "failed"}
        BY ZenonT(60), <1>1, <2>1, OthersRest
  <2>3. SetupTypes'
        BY SMTT(60), <1>1, <2>1 DEF SetupTypes
  <2>4. InitPlaced(c)'
    <3>1. key'[c] = c
          BY ZenonT(60), <1>1 DEF Placed, InitPlaced
    <3>2. Writing(c)' => at'[c] = 1
          BY ZenonT(60), <1>3, <2>2 DEF Writing
    <3>3. 1 # 3
          BY SMTT(60)
    <3>4. QED
          BY ZenonT(60), <3>1, <3>2, <3>3 DEF InitPlaced
  <2>5. Placed' /\ Checked'
    <3>1. stage'[c] # "truncate" /\ stage'[c] # "write"
          BY ZenonT(60), <2>2
    <3>2. QED
          BY ZenonT(60), <1>1, <2>2, <2>4, <3>1, RestPlaced, RestChecked
  <2>6. QED
        BY <2>2, <2>3, <2>5
<1>4. Len(Checks) = 3
      BY DEF Checks
<1>5. CASE at[c] < 3 /\ To(c, "preflight", at[c] + 1)
  <2>1. at[c] + 1 \in {1, 2, 3}
        BY <1>1, <1>5
  <2>2. QED
        BY ZenonT(60), <1>3, <1>5, <2>1
<1>6. CASE To(c, "stat", 1)
      BY <1>3, <1>6
<1>7. QED
      BY ZenonT(60), <1>2, <1>4, <1>5, <1>6 DEF Preflight

\* config generate reads its key from the wallet.
LEMMA GenerateKeeps ==
  ASSUME SetupInv, NEW c \in Commands, cmdConfigGenerate(c)
  PROVE  SetupInv'
<1> USE DEF SetupInv
<1>1. stage[c] = "preflight" /\ Active(c) /\ c \in Generators /\ UNCHANGED files
      BY DEF cmdConfigGenerate, Active
<1>2. CASE To(c, "failed", 1) /\ UNCHANGED key
      BY ZenonT(60), <1>1, <1>2, EndKeeps DEF SetupTypes
<1>3. CASE /\ files["wallet"][1] = "whole"
           /\ key' = [key EXCEPT ![c] = files["wallet"][2]]
           /\ To(c, "truncate", 1)
  <2>1. stage' = [stage EXCEPT ![c] = "truncate"] /\ at' = [at EXCEPT ![c] = 1]
        BY <1>3 DEF To
  <2>2. /\ stage'[c] = "truncate" /\ at'[c] = 1 /\ OneAtATime'
        /\ \A d \in Commands \ {c} : stage'[d] \in {"idle", "ok", "failed"}
        BY ZenonT(60), <1>1, <2>1, OthersRest
  <2>3. files["wallet"] \in Contents
        BY DEF SetupTypes, Names
  <2>4. files["wallet"][2] \in Keys /\ files["wallet"] = Whole(files["wallet"][2])
        BY <1>3, <2>3, ContentsAre
  <2>5. SetupTypes'
        BY <1>1, <1>3, <2>1, <2>4 DEF SetupTypes
  <2>6. key'[c] = files["wallet"][2] /\ \A d \in Commands \ {c} : key'[d] = key[d]
        BY <1>3 DEF SetupTypes
  <2>7. GeneratePlaced(c)'
        BY ZenonT(60), <1>1, <2>2, <2>4, <2>6 DEF GeneratePlaced
  <2>8. Placed'
        BY ZenonT(60), <1>1, <2>2, <2>6, <2>7, RestPlaced
  <2>9. Checked'
    <3>1. stage'[c] # "write"
          BY ZenonT(60), <2>2
    <3>2. QED
          BY ZenonT(60), <1>1, <2>2, <3>1, RestChecked
  <2>10. QED
        BY <2>2, <2>5, <2>8, <2>9
<1>4. QED
      BY ZenonT(60), <1>2, <1>3 DEF cmdConfigGenerate

\* init looks at its next output.
LEMMA StatKeeps ==
  ASSUME SetupInv, NEW c \in Commands, Stat(c)
  PROVE  SetupInv'
<1> USE DEF SetupInv
<1>1. stage[c] = "stat" /\ Active(c) /\ UNCHANGED <<key, files>> /\ at[c] \in {1, 2, 3}
      BY SMTT(60) DEF Stat, Active, SetupTypes
<1>2. c \notin Generators
      BY <1>1 DEF Placed, GeneratePlaced
<1>3. CASE To(c, "failed", at[c])
      BY ZenonT(60), <1>1, <1>3, EndKeeps DEF SetupTypes
<1>4. CASE preflightOutputFile(c, Outputs(c)[at[c]]) /\ To(c, "truncate", at[c])
  <2>1. stage' = [stage EXCEPT ![c] = "truncate"] /\ at' = [at EXCEPT ![c] = at[c]]
        BY <1>4 DEF To
  <2>2. /\ stage'[c] = "truncate" /\ at'[c] = at[c] /\ OneAtATime'
        /\ \A d \in Commands \ {c} : stage'[d] \in {"idle", "ok", "failed"}
        BY ZenonT(60), <1>1, <2>1, OthersRest
  <2>3. SetupTypes'
        BY <1>1, <2>1 DEF SetupTypes
  <2>4. InitPlaced(c)'
        BY ZenonT(60), <1>1, <1>2, <2>2 DEF Placed, InitPlaced, Writing
  <2>5. Placed'
        BY ZenonT(60), <1>1, <1>2, <2>2, <2>4, RestPlaced
  <2>6. c \notin Forced => files[Outputs(c)[at[c]]] = Absent
        BY SMTT(60), <1>4 DEF preflightOutputFile
  <2>7. Checked'
    <3>1. stage'[c] # "write"
          BY ZenonT(60), <2>2
    <3>2. QED
          BY ZenonT(60), <1>1, <2>2, <2>6, <3>1, RestChecked
  <2>8. QED
        BY <2>2, <2>3, <2>5, <2>7
<1>5. QED
      BY ZenonT(60), <1>3, <1>4 DEF Stat

\* Truncating spares what has been written before.
LEMMA TruncateKeeps ==
  ASSUME SetupInv, NEW c \in Commands, Truncate(c)
  PROVE  SetupInv'
<1> USE DEF SetupInv
<1>1. stage[c] = "truncate" /\ Active(c) /\ UNCHANGED key /\ at[c] \in {1, 2, 3}
      BY DEF Truncate, Active, SetupTypes
<1> DEFINE out == Outputs(c)[at[c]]
<1>2. files' = [files EXCEPT ![out] = Torn] /\ stage' = [stage EXCEPT ![c] = "write"] /\ at' = [at EXCEPT ![c] = at[c]]
      BY DEF Truncate, To
<1>3. /\ stage'[c] = "write" /\ at'[c] = at[c] /\ OneAtATime'
      /\ \A d \in Commands \ {c} : stage'[d] \in {"idle", "ok", "failed"}
      BY ZenonT(60), <1>1, <1>2, OthersRest
<1>4. c \in Generators => at[c] = 1
      BY <1>1 DEF Placed, GeneratePlaced, Writing
<1>5. /\ out \in Names
      /\ c \in Generators => out = "config"
      /\ c \notin Generators /\ at[c] # 1 => out # "wallet"
      /\ at[c] = 3 => out # "ton"
      BY <1>1, <1>4, OutputsAre DEF Names
<1>6. files' \in [Names -> Contents] /\ files'[out] = Torn /\ \A f \in Names \ {out} : files'[f] = files[f]
  <2>1. files \in [Names -> Contents] /\ Torn \in Contents
        BY ContentsAre DEF SetupTypes
  <2>2. QED
        BY <1>2, <1>5, <2>1
<1>7. SetupTypes'
      BY <1>1, <1>2, <1>6 DEF SetupTypes
<1>8. c \in Generators => GeneratePlaced(c)'
      BY ZenonT(60), <1>1, <1>3, <1>4, <1>5, <1>6 DEF Placed, GeneratePlaced, Writing, Names
<1>9. c \notin Generators => InitPlaced(c)'
      BY ZenonT(60), <1>1, <1>3, <1>5, <1>6 DEF Placed, InitPlaced, Writing, Names
<1>10. Placed'
      BY ZenonT(60), <1>1, <1>3, <1>8, <1>9, RestPlaced
<1>11. Checked'
  <2>1. stage'[c] # "truncate"
        BY ZenonT(60), <1>3
  <2>2. QED
        BY ZenonT(60), <1>3, <1>6, <2>1, RestChecked
<1>12. QED
      BY <1>3, <1>7, <1>10, <1>11

\* A file is completed, and the next output is looked at.
LEMMA WriteKeeps ==
  ASSUME SetupInv, NEW c \in Commands, Write(c)
  PROVE  SetupInv'
<1> USE DEF SetupInv
<1>1. stage[c] = "write" /\ Active(c) /\ UNCHANGED key /\ at[c] \in {1, 2, 3} /\ key[c] \in Keys
      BY SMTT(60) DEF Write, Active, SetupTypes
<1> DEFINE out == Outputs(c)[at[c]]
<1>2. files' = [files EXCEPT ![out] = Content(c, out)]
      BY DEF Write
<1>3. c \in Generators => at[c] = 1
      BY SMTT(60), <1>1 DEF Placed, GeneratePlaced, Writing
<1>4. /\ out \in Names
      /\ c \notin Generators => /\ at[c] = 1 => out = "wallet"
                                /\ at[c] = 2 => out = "ton"
      BY <1>1, <1>3, OutputsAre DEF Names
<1>5. Content(c, out) \in Contents
      BY <1>1, ContentsAre DEF Content, Keys
<1>6. files' \in [Names -> Contents] /\ files'[out] = Content(c, out) /\ \A f \in Names \ {out} : files'[f] = files[f]
  <2>1. files \in [Names -> Contents]
        BY DEF SetupTypes
  <2>2. QED
        BY <1>2, <1>4, <1>5, <2>1
<1>7. CASE To(c, "ok", at[c])
      BY ZenonT(60), <1>1, <1>6, <1>7, EndKeeps
<1>8. CASE at[c] < Len(Outputs(c)) /\ To(c, "stat", at[c] + 1)
  <2> DEFINE n == Len(Outputs(c))
  <2>a. at[c] < n /\ (c \in Generators => n = 1) /\ (c \notin Generators => n = 3)
        BY <1>8, OutputsAre
  <2> HIDE DEF n
  <2>1. c \notin Generators
        BY SMTT(60), <1>3, <2>a
  <2>2. at[c] \in {1, 2}
        BY <1>1, <2>1, <2>a
  <2>3. at[c] + 1 \in {2, 3} /\ at[c] + 1 # 1 /\ (at[c] + 1 = 3 => at[c] = 2)
        BY <2>2
  <2>4. stage' = [stage EXCEPT ![c] = "stat"] /\ at' = [at EXCEPT ![c] = at[c] + 1]
        BY <1>8 DEF To
  <2>5. /\ stage'[c] = "stat" /\ at'[c] = at[c] + 1 /\ OneAtATime'
        /\ \A d \in Commands \ {c} : stage'[d] \in {"idle", "ok", "failed"}
        BY ZenonT(60), <1>1, <2>4, OthersRest
  <2>6. SetupTypes'
        BY SMTT(60), <1>1, <1>6, <2>3, <2>4 DEF SetupTypes
  <2>7. key[c] = c /\ (at[c] = 2 => files["wallet"] = Whole(c))
        BY <1>1, <2>1 DEF Placed, InitPlaced, Writing
  <2>8. files'["wallet"] = Whole(c)
    <3>1. CASE at[c] = 1
          BY SMTT(60), <1>4, <1>6, <2>1, <2>7, <3>1 DEF Content
    <3>2. CASE at[c] = 2
          BY SMTT(60), <1>4, <1>6, <2>1, <2>7, <3>2 DEF Names
    <3>3. QED
          BY SMTT(60), <2>2, <3>1, <3>2
  <2>9. at[c] = 2 => files'["ton"] = Whole(Seed)
        BY SMTT(60), <1>4, <1>6, <2>1 DEF Content
  <2>10. InitPlaced(c)'
        BY <1>1, <2>3, <2>5, <2>7, <2>8, <2>9 DEF InitPlaced
  <2>11. Placed'
        BY ZenonT(60), <1>1, <2>1, <2>5, <2>10, RestPlaced
  <2>12. Checked'
    <3>1. stage'[c] # "truncate" /\ stage'[c] # "write"
          BY ZenonT(60), <2>5
    <3>2. QED
          BY ZenonT(60), <2>5, <3>1, RestChecked
  <2>13. QED
        BY <2>5, <2>6, <2>11, <2>12
<1>9. QED
      BY ZenonT(60), <1>7, <1>8 DEF Write

\* Every step of every command, a kill included.
LEMMA SetupGoesOn == SetupInv /\ [SetupNext]_setupVars => SetupInv'
<1> SUFFICES ASSUME SetupInv, [SetupNext]_setupVars PROVE SetupInv'
    OBVIOUS
<1>1. CASE UNCHANGED setupVars
      BY <1>1 DEF setupVars, SetupInv, SetupTypes, OneAtATime, Active, Placed, InitPlaced, GeneratePlaced, Writing,
                  Checked, Outputs
<1>2. ASSUME NEW c \in Commands, Die(c) PROVE SetupInv'
      BY ZenonT(60), <1>2, EndKeeps DEF Die, SetupInv, SetupTypes
<1>3. QED
      BY SMTT(60), <1>1, <1>2, StartKeeps, PreflightKeeps, GenerateKeeps, StatKeeps, TruncateKeeps, WriteKeeps
         DEF SetupNext

\* Commands that run one at a time never destroy a key they were not forced to
\* (writeOutputFile), however earlier ones were cut short.
THEOREM WalletKept == SetupSpec /\ Concurrent = FALSE => KeepsWallet
<1> DEFINE Step == files["wallet"][1] = "whole" /\ files'["wallet"] # files["wallet"]
                     => \E c \in Forced : Active(c)
<1>1. SetupInv /\ [SetupNext]_setupVars => [Step]_setupVars
  <2> SUFFICES ASSUME SetupInv, SetupNext, files["wallet"][1] = "whole", files'["wallet"] # files["wallet"]
               PROVE  \E c \in Forced : Active(c)
      OBVIOUS
  <2>1. PICK c \in Commands : Truncate(c) \/ Write(c)
        BY ZenonT(60) DEF SetupNext, Start, Preflight, cmdConfigGenerate, Stat, Die
  <2>2. at[c] \in {1, 2, 3} /\ Active(c) /\ files \in [Names -> Contents]
        BY <2>1 DEF SetupInv, SetupTypes, Truncate, Write, Active
  <2>3. Outputs(c)[at[c]] = "wallet"
    <3> DEFINE out == Outputs(c)[at[c]]
    <3>1. \E v : files' = [files EXCEPT ![out] = v]
          BY ZenonT(60), <2>1 DEF Truncate, Write
    <3> HIDE DEF out
    <3>2. out # "wallet" => files'["wallet"] = files["wallet"]
          BY <2>2, <3>1 DEF Names
    <3>3. QED
          BY <3>2 DEF out
  <2>4. files["wallet"] # Torn /\ files["wallet"] # Absent
        BY SMTT(60), ContentsAre
  <2>5. stage[c] = "truncate"
        BY SMTT(60), <2>1, <2>3, <2>4 DEF SetupInv, Checked, Truncate, Write
  <2>6. c \notin Generators
    <3>1. c \in Generators => at[c] = 1
          BY <2>5 DEF SetupInv, Placed, GeneratePlaced, Writing
    <3>2. QED
          BY <2>3, <3>1, OutputsAre
  <2>7. c \in Forced
        BY <2>3, <2>4, <2>5, <2>6 DEF SetupInv, Checked
  <2>8. QED
        BY SMTT(60), <2>2, <2>7
<1>2. QED
      BY <1>1, SetupBegins, SetupGoesOn, PTL DEF SetupSpec, KeepsWallet

\* A command that reports success (cmdInit, cmdConfigGenerate) leaves a wallet and
\* a configuration of one key, whatever earlier commands left behind.
THEOREM PairOnSuccess == SetupSpec /\ Concurrent = FALSE => SuccessMeansPair
<1> DEFINE Step == \A c \in Commands : stage'[c] = "ok" /\ stage[c] # "ok" =>
                     /\ files'["wallet"][1] = "whole"
                     /\ files'["config"] = files'["wallet"]
                     /\ c \notin Generators => files'["ton"] = Whole(Seed)
<1>1. SetupInv /\ [SetupNext]_setupVars => [Step]_setupVars
  <2> SUFFICES ASSUME SetupInv, SetupNext, NEW c \in Commands, stage'[c] = "ok", stage[c] # "ok"
               PROVE  /\ files'["wallet"][1] = "whole"
                      /\ files'["config"] = files'["wallet"]
                      /\ c \notin Generators => files'["ton"] = Whole(Seed)
      OBVIOUS
  <2>1. stage \in [Commands -> {"idle", "preflight", "stat", "truncate", "write", "ok", "failed"}]
        BY SMTT(60) DEF SetupInv, SetupTypes
  <2>2. Write(c) /\ To(c, "ok", at[c])
    <3>1. PICK d \in Commands :
            Start(d) \/ Preflight(d) \/ cmdConfigGenerate(d) \/ Stat(d) \/ Truncate(d) \/ Write(d) \/ Die(d)
          BY ZenonT(60) DEF SetupNext
    <3>2. \E w, i : To(d, w, i) /\ (w = "ok" => Write(d) /\ i = at[d])
      <4>1. CASE Write(d)
        <5>1. To(d, "stat", at[d] + 1) \/ To(d, "ok", at[d])
              BY ZenonT(60), <4>1 DEF Write
        <5>2. CASE To(d, "stat", at[d] + 1)
          <6>1. "stat" # "ok"
                BY SMTT(60)
          <6>2. WITNESS "stat", at[d] + 1
          <6>3. QED
                BY ZenonT(60), <5>2, <6>1
        <5>3. CASE To(d, "ok", at[d])
              BY ZenonT(60), <4>1, <5>3
        <5>4. QED
              BY <5>1, <5>2, <5>3
      <4>2. CASE ~Write(d)
        <5>1. Stat(d) => To(d, "truncate", at[d]) \/ To(d, "failed", at[d])
              BY ZenonT(60) DEF Stat
        <5>2. \E w \in {"preflight", "failed", "stat", "truncate", "write"} : \E i : To(d, w, i)
              BY ZenonT(60), <3>1, <4>2, <5>1 DEF Start, Preflight, cmdConfigGenerate, Truncate, Die
        <5>3. QED
              BY ZenonT(60), <5>2
      <4>3. QED
            BY SMTT(60), <4>1, <4>2
    <3>3. PICK w, i : To(d, w, i) /\ (w = "ok" => Write(d) /\ i = at[d])
          BY <3>2
    <3>4. d = c /\ w = "ok"
          BY <2>1, <3>3 DEF To
    <3>5. QED
          BY <3>3, <3>4
  <2>3. /\ stage[c] = "write" /\ at[c] \in {1, 2, 3} /\ key[c] \in Keys
        /\ files \in [Names -> Contents]
        BY <2>2 DEF Write, SetupInv, SetupTypes
  <2>4. ~(at[c] < Len(Outputs(c)))
    <3>1. at[c] < Len(Outputs(c)) => stage'[c] = "stat"
          BY ZenonT(60), <2>1, <2>2 DEF Write, To
    <3>2. QED
          BY <3>1
  <2>5. c \in Generators => at[c] = 1
        BY ZenonT(60), <2>3 DEF SetupInv, Placed, GeneratePlaced, Writing
  <2>6. c \notin Generators => at[c] = 3
        BY SMTT(60), <2>3, <2>4, OutputsAre
  <2>7. Outputs(c)[at[c]] = "config"
        BY SMTT(60), <2>5, <2>6, OutputsAre
  <2>8. files' = [files EXCEPT !["config"] = Whole(key[c])]
        BY <2>2, <2>7 DEF Write, Content
  <2>9. files'["config"] = Whole(key[c]) /\ files'["wallet"] = files["wallet"] /\ files'["ton"] = files["ton"]
        BY SMTT(60), <2>3, <2>8 DEF Names
  <2>10. files["wallet"] = Whole(key[c]) /\ (c \notin Generators => files["ton"] = Whole(Seed))
        BY <2>3, <2>6 DEF SetupInv, Placed, InitPlaced, GeneratePlaced, Writing
  <2>11. QED
        BY SMTT(60), <2>3, <2>9, <2>10, ContentsAre
<1>2. QED
      BY <1>1, SetupBegins, SetupGoesOn, PTL DEF SetupSpec, SuccessMeansPair
=============================================================================
