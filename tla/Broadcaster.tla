---------------------------- MODULE Broadcaster ----------------------------
(***************************************************************************)
(* LiteclientBroadcaster (pkg/cocoon/broadcaster.go): concurrent           *)
(* broadcasts from one wallet, each reading the wallet's seqno, signing a  *)
(* message for it and waiting for the transaction.  Nothing serialises     *)
(* them, and other programs (`gocoon wallet withdraw`) use the same key.   *)
(*                                                                         *)
(* The chain is external: the wallet contract executes a message only      *)
(* when it carries the current seqno, and only when the contract is        *)
(* deployed or the message brings its StateInit.                           *)
(***************************************************************************)
EXTENDS WalletService, Naturals

CONSTANTS
  MaxForeign,           \* transactions other users of the key make
  WalletCode            \* whether the broadcaster was given the wallet's code

ASSUME BroadcasterAssumption ==
  /\ MaxForeign \in Nat
  /\ WalletCode \in BOOLEAN

VARIABLES
  seqno,                \* the wallet contract's seqno
  deployed,             \* whether the wallet contract is deployed
  foreign,              \* transactions made by others so far
  pc,                   \* where each call is
  cursor,               \* calls that could read the destination's last lt
  msg,                  \* the message each call signed
  pool                  \* calls whose message the validators still hold

callVars == <<pc, cursor, msg>>
chainVars == <<seqno, deployed, foreign, pool>>
vars == <<walletVars, chainVars, callVars>>

NoMsg == [seqno |-> 0, init |-> FALSE]

Init ==
  /\ WalletInit
  /\ deployed \in BOOLEAN
  /\ seqno = IF deployed THEN 1 ELSE 0
  /\ foreign = 0
  /\ pc = [c \in Calls |-> "idle"]
  /\ cursor = {}
  /\ msg = [c \in Calls |-> NoMsg]
  /\ pool = {}

----------------------------------------------------------------------------
\* The destination's cursor is read for the log alone; failing is allowed.
accountCursor(c) ==
  /\ pc[c] = "idle" /\ Ask(c)
  /\ cursor' \in {cursor, cursor \cup {c}}
  /\ pc' = [pc EXCEPT ![c] = "seqno"]
  /\ UNCHANGED <<chainVars, msg>>

Sign(c, n, init) ==
  /\ msg' = [msg EXCEPT ![c] = [seqno |-> n, init |-> init]]
  /\ pc' = [pc EXCEPT ![c] = "send"]
  /\ UNCHANGED <<walletVars, chainVars, cursor>>

\* Any error of the get-method, that of a wallet not deployed or another,
\* stands for seqno 0 of a wallet to deploy.
querySeqno(c) ==
  /\ pc[c] = "seqno"
  /\ \/ deployed /\ Sign(c, seqno, FALSE)
     \/ WalletCode /\ Sign(c, 0, TRUE)

\* The block or the seqno cannot be read, the code to deploy is missing,
\* or the message is refused or lost on the way to the validators.
Abort(c) ==
  /\ pc[c] \in {"seqno", "send"} /\ Fail(c)
  /\ pc' = [pc EXCEPT ![c] = "done"]
  /\ UNCHANGED <<chainVars, cursor, msg>>

Send(c) ==
  /\ pc[c] = "send"
  /\ pool' = pool \cup {c}
  /\ pc' = [pc EXCEPT ![c] = "sent"]
  /\ UNCHANGED <<walletVars, seqno, deployed, foreign, cursor, msg>>

\* Mutant: the wait ends when the wallet's seqno has moved on.
Confirm_Seqno(c) ==
  /\ pc[c] = "sent" /\ seqno > msg[c].seqno
  /\ reply' = [reply EXCEPT ![c] = IF c \in cursor THEN @ ELSE "ok"]
  /\ pc' = [pc EXCEPT ![c] = IF c \in cursor THEN "watch" ELSE "done"]
  /\ UNCHANGED <<log, void, chainVars, cursor, msg>>

\* SendExternalMessageWaitTransaction finds the message's transaction, whose
\* phases are logged and not looked at; the destination is watched only if its
\* cursor is known.
Confirm(c) ==
  /\ pc[c] = "sent" /\ Confirmed(c)
  /\ IF c \in cursor THEN pc' = [pc EXCEPT ![c] = "watch"] /\ UNCHANGED walletVars
                     ELSE pc' = [pc EXCEPT ![c] = "done"] /\ Succeed(c)
  /\ UNCHANGED <<chainVars, cursor, msg>>

\* Transaction seen, listing failed or four seconds over: all return.
logDestinationTransactions(c) ==
  /\ pc[c] = "watch" /\ Succeed(c)
  /\ pc' = [pc EXCEPT ![c] = "done"]
  /\ UNCHANGED <<chainVars, cursor, msg>>

\* The caller's context ends the wait; the message stays with the validators.
GiveUp(c) ==
  /\ pc[c] = "sent" /\ Fail(c)
  /\ pc' = [pc EXCEPT ![c] = "done"]
  /\ UNCHANGED <<chainVars, cursor, msg>>

----------------------------------------------------------------------------
\* External: the wallet contract runs a message of the pool.
Accepts(c) == msg[c].seqno = seqno /\ (deployed \/ msg[c].init)

Run(c) ==
  /\ c \in pool /\ Accepts(c) /\ Execute(c)
  /\ seqno' = seqno + 1
  /\ deployed' = TRUE
  /\ UNCHANGED <<foreign, pool, callVars>>

\* External: the wallet contract accepts the message and its action phase fails;
\* the contract keeps its new data or is as it was before.
RunEmpty(c) ==
  /\ c \in pool /\ Accepts(c) /\ SendNothing(c)
  /\ \/ seqno' = seqno + 1 /\ deployed' = TRUE
     \/ UNCHANGED <<seqno, deployed>>
  /\ UNCHANGED <<foreign, pool, callVars>>

\* External: a message nobody executed in its hour is dropped.
Expire(c) ==
  /\ c \in pool
  /\ pool' = pool \ {c}
  /\ UNCHANGED <<walletVars, seqno, deployed, foreign, callVars>>

\* External: another user of the key sends from the wallet.
Foreign ==
  /\ foreign < MaxForeign
  /\ foreign' = foreign + 1
  /\ seqno' = seqno + 1
  /\ deployed' = TRUE
  /\ UNCHANGED <<walletVars, pool, callVars>>

Step(c) ==
  \/ accountCursor(c) \/ querySeqno(c) \/ Abort(c) \/ Send(c)
  \/ Confirm(c) \/ logDestinationTransactions(c) \/ GiveUp(c)

Next == Foreign \/ \E c \in Calls : Step(c) \/ Run(c) \/ RunEmpty(c) \/ Expire(c)

Spec == Init /\ [][Next]_vars

----------------------------------------------------------------------------
TypeOK ==
  /\ log \in Seq(Calls) /\ void \in SUBSET Calls
  /\ reply \in [Calls -> {"none", "pending", "ok", "error"}]
  /\ seqno \in Nat /\ deployed \in BOOLEAN /\ foreign \in 0 .. MaxForeign
  /\ pc \in [Calls -> {"idle", "seqno", "send", "sent", "watch", "done"}]
  /\ cursor \in SUBSET Calls
  /\ msg \in [Calls -> [seqno : Nat, init : BOOLEAN]]
  /\ pool \in SUBSET Calls

\* Of the broadcasts that read the same wallet seqno at most one reports
\* success, however their steps interleave with each other and with other
\* users of the key (broadcastWithValue); those whose transaction sent nothing,
\* which may leave the seqno to another, aside.
OneWinnerPerSeqno ==
  \A c, d \in Calls :
    /\ reply[c] = "ok" /\ reply[d] = "ok" /\ c # d
    /\ c \notin void /\ d \notin void
    => msg[c].seqno # msg[d].seqno

\* The wallet is deployed by at most one broadcast, and by none once it
\* exists: a transient get-method error, taken for a missing wallet, leads
\* to a message that is executed only if the wallet really was missing
\* (querySeqno, the StateInit of broadcastWithValue).
DeploysOnce ==
  \A c, d \in Calls :
    Executed(c) /\ Executed(d) /\ msg[c].init /\ msg[d].init => c = d

\* Every broadcast keeps the promises of WalletService.
Abstract == INSTANCE WalletService
ImplementsWalletService == Abstract!WalletSpec
=============================================================================
