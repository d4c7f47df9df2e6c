---------------------------- MODULE SessionPool ----------------------------
(***************************************************************************)
(* The sessions of a Client (pkg/cocoon/client.go) and the life of each    *)
(* one (session.go): concurrent ConnectProxy and DisconnectProxy calls,    *)
(* Client.Close, connections that die, and the goroutine that removes the  *)
(* session of a dead connection.                                           *)
(*                                                                         *)
(* A call of ConnectProxy creates at most one session, which is named      *)
(* after the call.  A critical section of Client.mu or Session.mu is one   *)
(* step.  Session.Close is two: the critical section, then the close of    *)
(* the transport it found there and of Session.done.                       *)
(***************************************************************************)
EXTENDS Naturals

CONSTANTS
  Calls,         \* calls of ConnectProxy, and the sessions they create
  Addrs,         \* proxy addresses
  NoSession      \* no session

ASSUME PoolAssumption == NoSession \notin Calls

VARIABLES
  sessions,      \* Client.sessions: address -> session
  closed,        \* Client.closed
  lost,          \* sessions another call overwrote in the map
  cpc,           \* where each call is
  addr,          \* the address it was given
  target,        \* the session it is waiting to see closed
  returned,      \* the session it returned, NoSession for an error
  status,        \* Session.status
  ref,           \* the sessions with Session.transport set
  tr,            \* the transport: "none", "open" or "closed"
  doomed,        \* sessions some goroutine has decided to Close
  dropped,       \* those among them that their own user closed
  closing,       \* Session.closeOnce: "no", "begun" or "ended"
  held,          \* sessions whose Close found a transport to close
  watch          \* removeOnTransportClose: "none", "waiting", "removing", "gone"

poolVars == <<sessions, closed, lost>>
callVars == <<cpc, addr, target, returned>>
closeVars == <<doomed, dropped, closing, held>>
clientVars == <<poolVars, callVars, status, ref, tr, closeVars, watch>>

PoolInit ==
  /\ sessions = [a \in Addrs |-> NoSession]
  /\ closed = FALSE
  /\ lost = {}
  /\ cpc = [c \in Calls |-> "idle"]
  /\ addr \in [Calls -> Addrs]
  /\ target = [c \in Calls |-> NoSession]
  /\ returned = [c \in Calls |-> NoSession]
  /\ status = [c \in Calls |-> "none"]
  /\ ref = {}
  /\ tr = [c \in Calls |-> "none"]
  /\ doomed = {}
  /\ dropped = {}
  /\ closing = [c \in Calls |-> "no"]
  /\ held = {}
  /\ watch = [c \in Calls |-> "none"]

----------------------------------------------------------------------------
isUsable(s) == status[s] = "ready" /\ s \in ref /\ tr[s] # "closed"

\* c.sessions[addr] = newSession(c, addr), whatever was there, and on to
\* connect.
Insert(c) ==
  /\ sessions' = [sessions EXCEPT ![addr[c]] = c]
  /\ lost' = lost \cup ({sessions[addr[c]]} \ {NoSession})
  /\ status' = [status EXCEPT ![c] = "connecting"]
  /\ cpc' = [cpc EXCEPT ![c] = "dialing"]

Return(c, s) ==
  /\ cpc' = [cpc EXCEPT ![c] = "done"]
  /\ returned' = [returned EXCEPT ![c] = s]

\* The critical section of removeSession: whatever session is registered at
\* address a leaves the map, to be closed after the unlock.
removeSession(a) ==
  /\ sessions' = [sessions EXCEPT ![a] = NoSession]
  /\ doomed' = doomed \cup ({sessions[a]} \ {NoSession})

----------------------------------------------------------------------------
(* ConnectProxy.                                                           *)

ConnectRefused(c) ==
  /\ cpc[c] = "idle" /\ closed
  /\ Return(c, NoSession)
  /\ UNCHANGED <<poolVars, addr, target, status, ref, tr, closeVars, watch>>

ConnectExisting(c) ==
  LET s == sessions[addr[c]] IN
  /\ cpc[c] = "idle" /\ ~closed
  /\ s # NoSession /\ isUsable(s)
  /\ Return(c, s)
  /\ UNCHANGED <<poolVars, addr, target, status, ref, tr, closeVars, watch>>

ConnectNew(c) ==
  /\ cpc[c] = "idle" /\ ~closed
  /\ sessions[addr[c]] = NoSession
  /\ Insert(c)
  /\ UNCHANGED <<closed, addr, target, returned, ref, tr, closeVars, watch>>

\* A session that is not usable, dead or still connecting, is removed and
\* closed with Client.mu released.
ConnectEvict(c) ==
  LET s == sessions[addr[c]] IN
  /\ cpc[c] = "idle" /\ ~closed
  /\ s # NoSession /\ ~isUsable(s)
  /\ removeSession(addr[c])
  /\ target' = [target EXCEPT ![c] = s]
  /\ cpc' = [cpc EXCEPT ![c] = "evicting"]
  /\ UNCHANGED <<closed, lost, addr, returned, status, ref, tr, dropped, closing, held, watch>>

\* Mutant: closed is not looked at again.
ConnectRelock_NoRecheck(c) ==
  /\ cpc[c] = "evicting" /\ closing[target[c]] = "ended"
  /\ target' = [target EXCEPT ![c] = NoSession]
  /\ Insert(c) /\ UNCHANGED returned
  /\ UNCHANGED <<closed, addr, ref, tr, closeVars, watch>>

\* existing.Close() is back: lock again, look at closed again, but not at
\* the map.
ConnectRelock(c) ==
  /\ cpc[c] = "evicting" /\ closing[target[c]] = "ended"
  /\ target' = [target EXCEPT ![c] = NoSession]
  /\ IF closed THEN Return(c, NoSession) /\ UNCHANGED <<sessions, lost, status>>
               ELSE Insert(c) /\ UNCHANGED returned
  /\ UNCHANGED <<closed, addr, ref, tr, closeVars, watch>>

----------------------------------------------------------------------------
(* Session.connect.                                                        *)

\* The transport is stored whether or not the session was closed meanwhile.
Dial(c) ==
  /\ cpc[c] = "dialing"
  /\ tr' = [tr EXCEPT ![c] = "open"]
  /\ ref' = ref \cup {c}
  /\ cpc' = [cpc EXCEPT ![c] = "shaking"]
  /\ UNCHANGED <<poolVars, addr, target, returned, status, closeVars, watch>>

DialFails(c) ==
  /\ cpc[c] = "dialing"
  /\ status' = [status EXCEPT ![c] = "crashed"]
  /\ cpc' = [cpc EXCEPT ![c] = "cleanup"]
  /\ UNCHANGED <<poolVars, addr, target, returned, ref, tr, closeVars, watch>>

HandshakeOK(c) ==
  /\ cpc[c] = "shaking" /\ tr[c] = "open"
  /\ cpc' = [cpc EXCEPT ![c] = "readying"]
  /\ UNCHANGED <<poolVars, addr, target, returned, status, ref, tr, closeVars, watch>>

\* The status becomes Ready unconditionally.
SetReady(c) ==
  /\ cpc[c] = "readying"
  /\ status' = [status EXCEPT ![c] = "ready"]
  /\ watch' = [watch EXCEPT ![c] = "waiting"]
  /\ Return(c, c)
  /\ UNCHANGED <<poolVars, addr, target, ref, tr, closeVars>>

HandshakeFails(c) ==
  /\ cpc[c] = "shaking"
  /\ status' = [status EXCEPT ![c] = "crashed"]
  /\ tr' = [tr EXCEPT ![c] = "closed"]
  /\ cpc' = [cpc EXCEPT ![c] = "cleanup"]
  /\ UNCHANGED <<poolVars, addr, target, returned, ref, closeVars, watch>>

\* ConnectProxy removes the session of its address, by now perhaps another
\* call's, and waits for its Close.
Cleanup(c) ==
  /\ cpc[c] = "cleanup"
  /\ removeSession(addr[c])
  /\ target' = [target EXCEPT ![c] = sessions[addr[c]]]
  /\ cpc' = [cpc EXCEPT ![c] = "removing"]
  /\ UNCHANGED <<closed, lost, addr, returned, status, ref, tr, dropped, closing, held, watch>>

ConnectFails(c) ==
  /\ cpc[c] = "removing"
  /\ target[c] # NoSession => closing[target[c]] = "ended"
  /\ target' = [target EXCEPT ![c] = NoSession]
  /\ Return(c, NoSession)
  /\ UNCHANGED <<poolVars, addr, status, ref, tr, closeVars, watch>>

----------------------------------------------------------------------------
(* Session.Close, run once for a session however many goroutines call it.  *)

CloseBegin(s) ==
  /\ s \in doomed /\ closing[s] = "no"
  /\ closing' = [closing EXCEPT ![s] = "begun"]
  /\ held' = IF s \in ref THEN held \cup {s} ELSE held
  /\ ref' = ref \ {s}
  /\ status' = [status EXCEPT ![s] = "disconnected"]
  /\ UNCHANGED <<poolVars, callVars, tr, doomed, dropped, watch>>

\* Mutant: Close waits for connect to be over.
CloseEnd_Waits(s) ==
  /\ closing[s] = "begun" /\ cpc[s] = "done"
  /\ closing' = [closing EXCEPT ![s] = "ended"]
  /\ tr' = [tr EXCEPT ![s] = IF s \in held THEN "closed" ELSE @]
  /\ UNCHANGED <<poolVars, callVars, status, ref, doomed, dropped, held, watch>>

CloseEnd(s) ==
  /\ closing[s] = "begun"
  /\ closing' = [closing EXCEPT ![s] = "ended"]
  /\ tr' = [tr EXCEPT ![s] = IF s \in held THEN "closed" ELSE @]
  /\ UNCHANGED <<poolVars, callVars, status, ref, doomed, dropped, held, watch>>

----------------------------------------------------------------------------
(* The connection and the goroutines around it.                            *)

TransportDies(s) ==
  /\ tr[s] = "open"
  /\ tr' = [tr EXCEPT ![s] = "closed"]
  /\ UNCHANGED <<poolVars, callVars, status, ref, closeVars, watch>>

\* Mutant: the read loop runs with a context that nothing cancels.
RunCancelled_Never(s) == FALSE

\* Session.done cancels the context of the read loop, which looks at it
\* between two frames and then closes the transport.
RunCancelled(s) ==
  /\ closing[s] = "ended" /\ tr[s] = "open"
  /\ tr' = [tr EXCEPT ![s] = "closed"]
  /\ UNCHANGED <<poolVars, callVars, status, ref, closeVars, watch>>

\* Mutant: the watcher expects the status of a session that failed.
WatchCheck_Crashed(s) ==
  /\ watch[s] = "waiting" /\ tr[s] = "closed"
  /\ watch' = [watch EXCEPT ![s] = IF s \in ref /\ status[s] = "crashed"
                                   THEN "removing" ELSE "gone"]
  /\ UNCHANGED <<poolVars, callVars, status, ref, tr, closeVars>>

\* removeOnTransportClose: the check under Session.mu, then removeSession.
WatchCheck(s) ==
  /\ watch[s] = "waiting" /\ tr[s] = "closed"
  /\ watch' = [watch EXCEPT ![s] = IF s \in ref /\ status[s] = "ready"
                                   THEN "removing" ELSE "gone"]
  /\ UNCHANGED <<poolVars, callVars, status, ref, tr, closeVars>>

WatchRemove(s) ==
  /\ watch[s] = "removing"
  /\ removeSession(addr[s])
  /\ watch' = [watch EXCEPT ![s] = "gone"]
  /\ UNCHANGED <<closed, lost, callVars, status, ref, tr, dropped, closing, held>>

----------------------------------------------------------------------------
(* DisconnectProxy, Session.Close by the session's user, Client.Close.     *)

DisconnectProxy(a) ==
  /\ sessions[a] # NoSession
  /\ removeSession(a)
  /\ UNCHANGED <<closed, lost, callVars, status, ref, tr, dropped, closing, held, watch>>

SessionClose(s) ==
  /\ \E c \in Calls : returned[c] = s
  /\ s \notin doomed
  /\ doomed' = doomed \cup {s}
  /\ dropped' = dropped \cup {s}
  /\ UNCHANGED <<poolVars, callVars, status, ref, tr, closing, held, watch>>

Mapped == {s \in Calls : \E a \in Addrs : sessions[a] = s}

\* Mutant: the map is emptied, its sessions are not closed.
ClientClose_Forgets ==
  /\ ~closed
  /\ closed' = TRUE
  /\ sessions' = [a \in Addrs |-> NoSession]
  /\ UNCHANGED <<lost, callVars, status, ref, tr, closeVars, watch>>

ClientClose ==
  /\ ~closed
  /\ closed' = TRUE
  /\ doomed' = doomed \cup Mapped
  /\ sessions' = [a \in Addrs |-> NoSession]
  /\ UNCHANGED <<lost, callVars, status, ref, tr, dropped, closing, held, watch>>

----------------------------------------------------------------------------
(* The steps of a call, of the goroutines it leaves behind, and of         *)
(* Session.Close, when no dial, handshake or connection fails of itself.   *)
Healthy(c) ==
  \/ ConnectRefused(c) \/ ConnectExisting(c) \/ ConnectNew(c)
  \/ ConnectEvict(c) \/ ConnectRelock(c)
  \/ Dial(c) \/ HandshakeOK(c) \/ SetReady(c)
  \/ tr[c] = "closed" /\ HandshakeFails(c)
  \/ Cleanup(c) \/ ConnectFails(c)
  \/ CloseBegin(c) \/ CloseEnd(c)
  \/ RunCancelled(c) \/ WatchCheck(c) \/ WatchRemove(c)

PoolNext ==
  \/ \E c \in Calls :
       \/ Healthy(c)
       \/ DialFails(c) \/ HandshakeFails(c) \/ TransportDies(c)
       \/ SessionClose(c)
  \/ \E a \in Addrs : DisconnectProxy(a)
  \/ ClientClose

PoolSpec == PoolInit /\ [][PoolNext]_clientVars

\* Goroutines keep running; the dial has a deadline and every wait of the
\* handshake a timer, and the handshake's few short frames fit the send
\* buffer of a fresh connection; the wait for the register transaction is
\* bounded by the TON library.  A peer that is no longer pinged drops the
\* connection.
Fairness ==
  \A c \in Calls :
    /\ WF_clientVars(ConnectRelock(c) \/ Cleanup(c) \/ ConnectFails(c))
    /\ WF_clientVars(Dial(c) \/ DialFails(c))
    /\ WF_clientVars(HandshakeOK(c) \/ HandshakeFails(c))
    /\ WF_clientVars(SetReady(c))
    /\ WF_clientVars(CloseBegin(c) \/ CloseEnd(c))
    /\ WF_clientVars(RunCancelled(c))
    /\ WF_clientVars(WatchCheck(c) \/ WatchRemove(c))

FairSpec == PoolSpec /\ Fairness

\* Only ConnectProxy is called and nothing fails of itself, but the Client is
\* closed at some moment.
HealthyCloseSpec ==
  PoolInit /\ [][(\E c \in Calls : Healthy(c)) \/ ClientClose]_clientVars /\ Fairness

----------------------------------------------------------------------------
(* What must hold.                                                         *)

\* The type of every variable.
TypeOK ==
  /\ sessions \in [Addrs -> Calls \cup {NoSession}]
  /\ closed \in BOOLEAN
  /\ lost \subseteq Calls
  /\ cpc \in [Calls -> {"idle", "evicting", "dialing", "shaking", "readying",
                       "cleanup", "removing", "done"}]
  /\ addr \in [Calls -> Addrs]
  /\ target \in [Calls -> Calls \cup {NoSession}]
  /\ returned \in [Calls -> Calls \cup {NoSession}]
  /\ status \in [Calls -> {"none", "connecting", "ready", "disconnected", "crashed"}]
  /\ ref \subseteq Calls
  /\ tr \in [Calls -> {"none", "open", "closed"}]
  /\ doomed \subseteq Calls
  /\ dropped \subseteq doomed
  /\ closing \in [Calls -> {"no", "begun", "ended"}]
  /\ held \subseteq Calls
  /\ watch \in [Calls -> {"none", "waiting", "removing", "gone"}]

\* A closed Client has an empty map: Close leaves it nil, so a session that
\* ConnectProxy stored after that would be a write to a nil map, a panic.
ClosedStaysEmpty == closed => \A a \in Addrs : sessions[a] = NoSession

\* A connection that is open belongs to a session that is registered or that
\* somebody has decided to Close; the one exception is a session that the
\* insertion of another call overwrote.
Accounted == \A s \in Calls : tr[s] = "open" => s \in Mapped \cup doomed \cup lost

\* A session that the pool removed never becomes registered again: the map
\* only holds sessions nobody is closing, except for the Close of a user.
MapHoldsLive ==
  \A a \in Addrs : sessions[a] # NoSession =>
    /\ sessions[a] \notin doomed \ dropped
    /\ addr[sessions[a]] = a

\* Every call of ConnectProxy returns, although calls wait for the Close of
\* each other's sessions.
ConnectReturns == \A c \in Calls : cpc[c] # "idle" ~> cpc[c] = "done"

\* A session whose connection died leaves the map, so that it is not offered
\* to requests forever, unless its user closes it first.
DeadLeavesMap ==
  \A a \in Addrs, s \in Calls :
    sessions[a] = s /\ tr[s] = "closed" ~> sessions[a] # s \/ s \in dropped

\* Closing a session at any moment of its life, before its dial is back
\* included, ends with its connection closed for good.
CloseSticks == \A s \in Calls : s \in doomed ~> [](tr[s] # "open")

\* "Close releases all sessions and resources" (client.go).
CloseReleasesAll == closed ~> [](\A s \in Calls : tr[s] # "open")
=============================================================================
