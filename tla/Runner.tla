------------------------------- MODULE Runner -------------------------------
(***************************************************************************)
(* The runner process (cmd/gocoon-runner): the discovery goroutine that    *)
(* connects to the first registered proxy and publishes it in RunnerState, *)
(* the balance poller, the /jsonstats handler that reads RunnerState under *)
(* its lock, and the main goroutine that shuts everything down.            *)
(*                                                                         *)
(* A session is known by a generation that differs from the one before.    *)
(***************************************************************************)
EXTENDS Integers

CONSTANTS NumEndpoints,    \* endpoints of the first proxy
          Balances         \* balances of the wallet

VARIABLES
  main,      \* "serving", "draining" (cp.Shutdown), "cancelled" (discCancel), "closed" (cli.Close)
  pc,        \* the discovery goroutine
  ep,        \* the endpoint it is at
  terminal,  \* it stops after clearing the report
  version,   \* the client knows the root contract's version
  gen,       \* generation of the last session
  status,    \* its status: "none", "ready", "lost"
  ProxyConnections, Proxies,   \* RunnerState: 0 or a generation
  report,    \* last /jsonstats answer
  chain,     \* external: the wallet account, [active, balance]
  WalletBalance

vars == <<main, pc, ep, terminal, version, gen, status, ProxyConnections, Proxies, report, chain, WalletBalance>>
disc == <<pc, ep, terminal, version>>
session == <<gen, status>>
state == <<ProxyConnections, Proxies>>
rest == <<main, version, report, chain, WalletBalance>>

Ctx == main \in {"serving", "draining"}

Init ==
  /\ main = "serving"
  /\ pc = "start" /\ ep = 1 /\ terminal = FALSE /\ version = FALSE
  /\ gen = 2 /\ status = "none"
  /\ ProxyConnections = 0 /\ Proxies = 0
  /\ report = [conn |-> 0, proxy |-> 0, ready |-> FALSE]
  /\ chain \in [active : BOOLEAN, balance : Balances]
  /\ WalletBalance = 0

----------------------------------------------------------------------------
\* GetSummary succeeds or fails; either way the session is tried.
runDiscovery ==
  /\ pc = "start"
  /\ version' \in BOOLEAN
  /\ pc' = "list"
  /\ UNCHANGED <<ep, terminal, session, state, main, report, chain, WalletBalance>>

\* RegisteredProxies fails, or there is no proxy or no endpoint.
NoProxies ==
  /\ pc = "list"
  /\ pc' = "stopped"
  /\ UNCHANGED <<ep, terminal, session, state, rest>>

ListProxies ==
  /\ pc = "list"
  /\ pc' = "dial" /\ ep' = 1
  /\ UNCHANGED <<terminal, session, state, rest>>

\* The next endpoint, or the pause after the last.
NextEndpoint ==
  IF ep < NumEndpoints THEN pc' = "dial" /\ ep' = ep + 1 ELSE pc' = "pause" /\ UNCHANGED ep

Connected ==
  /\ pc = "dial" /\ main # "closed"
  /\ gen' = 3 - gen /\ status' = "ready"
  /\ pc' = "publishConnections"
  /\ UNCHANGED <<ep, terminal, state, rest>>

ConnectFails ==
  /\ pc = "dial"
  /\ NextEndpoint
  /\ UNCHANGED <<terminal, session, state, rest>>

\* The proxy's error names a closing or closed client.
isTerminalClientSessionError ==
  /\ pc = "dial"
  /\ terminal' = TRUE
  /\ pc' = "clearConnections"
  /\ UNCHANGED <<ep, session, state, rest>>

SetProxyConnections ==
  /\ pc = "publishConnections"
  /\ ProxyConnections' = gen
  /\ pc' = "publishProxies"
  /\ UNCHANGED <<ep, terminal, session, Proxies, rest>>

SetProxies ==
  /\ pc = "publishProxies"
  /\ Proxies' = gen
  /\ pc' = "wait"
  /\ UNCHANGED <<ep, terminal, session, ProxyConnections, rest>>

\* Mutant: only the context ends the wait.
waitSessionReadyOrContext_Context ==
  /\ pc = "wait" /\ ~Ctx
  /\ pc' = "clearConnections"
  /\ UNCHANGED <<ep, terminal, session, state, rest>>

\* The poll sees another status, or the context is done.
waitSessionReadyOrContext ==
  /\ pc = "wait" /\ (status # "ready" \/ ~Ctx)
  /\ pc' = "clearConnections"
  /\ UNCHANGED <<ep, terminal, session, state, rest>>

ClearProxyConnections ==
  /\ pc = "clearConnections"
  /\ ProxyConnections' = 0
  /\ pc' = "clearProxies"
  /\ UNCHANGED <<ep, terminal, session, Proxies, rest>>

\* Mutant: the second list is left as it is.
ClearProxies_Keeps ==
  /\ pc = "clearProxies"
  /\ IF terminal THEN pc' = "stopped" /\ UNCHANGED ep ELSE NextEndpoint
  /\ UNCHANGED <<terminal, session, state, rest>>

ClearProxies ==
  /\ pc = "clearProxies"
  /\ Proxies' = 0
  /\ IF terminal THEN pc' = "stopped" /\ UNCHANGED ep ELSE NextEndpoint
  /\ UNCHANGED <<terminal, session, ProxyConnections, rest>>

\* The select after the last endpoint; both cases may be ready.
Pause ==
  /\ pc = "pause"
  /\ \/ pc' = "stopped" /\ ~Ctx /\ UNCHANGED ep
     \/ pc' = "dial" /\ ep' = 1
  /\ UNCHANGED <<terminal, session, state, rest>>

----------------------------------------------------------------------------
\* External: the transport closes; removeOnTransportClose ends the session.
LoseSession ==
  /\ status = "ready"
  /\ status' = "lost"
  /\ UNCHANGED <<disc, gen, state, rest>>

\* ready is what was true when the answer was made.
handleJSONStats ==
  /\ main = "serving"
  /\ report' = [conn |-> ProxyConnections, proxy |-> Proxies, ready |-> status = "ready"]
  /\ UNCHANGED <<disc, session, state, main, chain, WalletBalance>>

\* One round of the poll with the two reads answered; other rounds change
\* nothing.
pollWalletBalance ==
  /\ Ctx
  /\ WalletBalance' = IF chain.active THEN chain.balance ELSE WalletBalance
  /\ UNCHANGED <<disc, session, state, main, report, chain>>

\* External: deposits, transactions, the contract's deployment and end.
ChainMoves ==
  /\ chain' \in [active : BOOLEAN, balance : Balances]
  /\ UNCHANGED <<disc, session, state, main, report, WalletBalance>>

\* The signal, then Shutdown, the deferred discCancel and cli.Close.
Stop ==
  \/ /\ main = "serving" /\ main' = "draining"
     /\ UNCHANGED status
  \/ /\ main = "draining" /\ main' = "cancelled"
     /\ UNCHANGED status
  \/ /\ main = "cancelled" /\ main' = "closed"
     /\ status' = IF status = "ready" THEN "lost" ELSE status
  
Shutdown == Stop /\ UNCHANGED <<disc, gen, state, report, chain, WalletBalance>>

Discovery ==
  \/ runDiscovery \/ ListProxies \/ NoProxies
  \/ Connected \/ ConnectFails \/ isTerminalClientSessionError
  \/ SetProxyConnections \/ SetProxies
  \/ waitSessionReadyOrContext \/ ClearProxyConnections \/ ClearProxies \/ Pause

Next == Discovery \/ LoseSession \/ handleJSONStats \/ pollWalletBalance \/ ChainMoves \/ Shutdown

Spec == Init /\ [][Next]_vars

\* The discovery goroutine runs; /jsonstats is asked again and again.
Fairness == WF_vars(Discovery) /\ WF_vars(handleJSONStats)

----------------------------------------------------------------------------
\* The two lists, set in two critical sections, never show two different
\* sessions side by side, and nothing is shown once discovery has stopped.
NeverMixed ==
  /\ ProxyConnections # 0 /\ Proxies # 0 => ProxyConnections = Proxies
  /\ pc \in {"pause", "stopped"} => ProxyConnections = 0 /\ Proxies = 0

\* A proxy is shown only once its session is Ready: state.ProxyConnections
\* and state.Proxies stay empty until then.
EmptyUntilReady ==
  [][\A l \in {ProxyConnections', Proxies'} \ {ProxyConnections, Proxies, 0} :
       l = gen /\ pc \in {"publishConnections", "publishProxies"} /\ status # "none"]_vars

\* A session that is lost leaves /jsonstats, or a newer one takes its place.
LossIsReported ==
  \A g \in 1 .. 2 :
    (gen = g /\ status = "lost") ~> (report.conn # g \/ gen # g \/ main # "serving")
=============================================================================
