------------------------------ MODULE Withdraw ------------------------------
(***************************************************************************)
(* gocoon wallet withdraw (cmd/gocoon/main.go): it reads the two accounts, *)
(* signs and sends one message that sweeps the node wallet, and polls both *)
(* accounts until what it sees looks like the sweep.  Deposits, and a      *)
(* runner that spends from the same wallet, go on meanwhile.               *)
(***************************************************************************)
EXTENDS Integers

CONSTANTS MaxTx,       \* bound: transactions of the source account
          MaxBalance,  \* bound: units in an account
          RunnerRuns   \* a runner uses the wallet at the same time

ASSUME WithdrawAssumption == MaxTx \in Nat /\ MaxBalance \in Nat /\ RunnerRuns \in BOOLEAN

VARIABLES
  wpc,      \* "source", "dest", "seqno", "send", "poll", "judge", "done"
  before,   \* sourceBefore and destBefore
  now,      \* the snapshots of this round
  msg,      \* the message: seqno, and whether it has a StateInit
  outcome,  \* "none", "failed", "timeout", "confirmed"
  src, dst, \* external: the accounts
  net,      \* external: the message is on its way
  swept,    \* it was executed
  quiet     \* no one else has touched the source since its snapshot

withdrawVars == <<wpc, before, now, msg, outcome, src, dst, net, swept, quiet>>
cli == <<wpc, before, now, msg, outcome>>
accounts == <<src, dst, net, swept, quiet>>

\* An account: its status, balance, the time of its last transaction and, when
\* it is active, its seqno.
NoAccount == [status |-> "none", balance |-> 0, lt |-> 0, seqno |-> 0]
NoSnapshot == [active |-> FALSE, balance |-> 0, lt |-> 0]

WithdrawInit ==
  /\ wpc = "source" /\ outcome = "none"
  /\ before = [source |-> NoSnapshot, dest |-> 0]
  /\ now = [ok |-> FALSE, source |-> NoSnapshot]
  /\ msg = [seqno |-> 0, stateInit |-> FALSE]
  /\ src \in [status : {"uninit", "active"}, balance : 0 .. 1, lt : {1}, seqno : 0 .. 1]
  /\ src.status = "uninit" => src.seqno = 0 /\ src.balance > 0
  /\ dst = 0 /\ net = FALSE /\ swept = FALSE /\ quiet = TRUE

----------------------------------------------------------------------------
fetchAccountSnapshot(acc) ==
  [active |-> acc.status = "active", balance |-> acc.balance, lt |-> acc.lt]

Fails == wpc' = "done" /\ outcome' = "failed"

SourceBefore ==
  /\ wpc = "source"
  /\ \/ Fails /\ UNCHANGED <<before, quiet>>
     \/ /\ IF src.balance = 0 THEN Fails ELSE wpc' = "dest" /\ UNCHANGED outcome
        /\ before' = [before EXCEPT !.source = fetchAccountSnapshot(src)]
        /\ quiet' = TRUE
  /\ UNCHANGED <<now, msg, src, dst, net, swept>>

DestBefore ==
  /\ wpc = "dest"
  /\ \/ Fails /\ UNCHANGED before
     \/ wpc' = "seqno" /\ before' = [before EXCEPT !.dest = dst] /\ UNCHANGED outcome
  /\ UNCHANGED <<now, msg, accounts>>

\* An error of the get method is taken for a wallet that is not deployed.
queryWalletSeqno ==
  /\ wpc = "seqno"
  /\ \/ Fails /\ UNCHANGED msg
     \/ /\ msg' \in {[seqno |-> 0, stateInit |-> TRUE]} \cup
                    IF src.status = "active" THEN {[seqno |-> src.seqno, stateInit |-> FALSE]} ELSE {}
        /\ wpc' = "send" /\ UNCHANGED outcome
  /\ UNCHANGED <<before, now, accounts>>

\* A failed send may have got through.
SendExternalMessage ==
  /\ wpc = "send"
  /\ \/ Fails /\ net' \in BOOLEAN
     \/ wpc' = "poll" /\ net' = TRUE /\ UNCHANGED outcome
  /\ UNCHANGED <<before, now, msg, src, dst, swept, quiet>>

\* The first read of a round; the second is made with the verdict.
FetchSource ==
  /\ wpc = "poll"
  /\ now' \in {[ok |-> TRUE, source |-> fetchAccountSnapshot(src)], [ok |-> FALSE, source |-> NoSnapshot]}
  /\ wpc' = "judge"
  /\ UNCHANGED <<before, msg, outcome, accounts>>

\* Mutant: a snapshot from before the message counts.
walletDrainedFrom_AnyTime(s, b) == ~s.active \/ s.balance = 0

walletDrainedFrom(s, b) ==
  /\ ~(s.lt # 0 /\ b.lt # 0 /\ s.lt <= b.lt)
  /\ ~s.active \/ s.balance = 0

Moved(destRead) ==
  destRead /\ now.source.balance < before.source.balance /\ dst > before.dest

\* Mutant: only the two balances are looked at.
waitWalletWithdrawConfirmation_Balances(destRead) ==
  /\ wpc = "judge"
  /\ IF now.ok /\ Moved(destRead)
     THEN wpc' = "done" /\ outcome' = "confirmed"
     ELSE wpc' = "poll" /\ UNCHANGED outcome
  /\ UNCHANGED <<before, now, msg, accounts>>

waitWalletWithdrawConfirmation(destRead) ==
  /\ wpc = "judge"
  /\ IF now.ok /\ (walletDrainedFrom(now.source, before.source) \/ Moved(destRead))
     THEN wpc' = "done" /\ outcome' = "confirmed"
     ELSE wpc' = "poll" /\ UNCHANGED outcome
  /\ UNCHANGED <<before, now, msg, accounts>>

Timeout ==
  /\ wpc = "poll"
  /\ wpc' = "done" /\ outcome' = "timeout"
  /\ UNCHANGED <<before, now, msg, accounts>>

----------------------------------------------------------------------------
(* External: the chain.                                                    *)

Accepts(m) ==
  \/ src.status = "active" /\ src.seqno = m.seqno /\ src.balance > 0
  \/ src.status = "uninit" /\ m.stateInit

\* Mode 160: everything goes to the destination, the account is destroyed.
Execute ==
  /\ net /\ Accepts(msg) /\ dst + src.balance <= MaxBalance
  /\ net' = FALSE /\ swept' = TRUE
  /\ dst' = dst + src.balance
  /\ src' = NoAccount
  /\ UNCHANGED <<cli, quiet>>

Deposit ==
  /\ src.lt < MaxTx /\ src.balance < MaxBalance
  /\ src' = [src EXCEPT !.balance = @ + 1, !.lt = IF swept THEN MaxTx + 1 ELSE @ + 1,
                        !.status = IF @ = "none" THEN "uninit" ELSE @]
  /\ quiet' = FALSE
  /\ UNCHANGED <<cli, dst, net, swept>>

RunnerSpends ==
  /\ RunnerRuns /\ src.status = "active" /\ src.balance > 0 /\ src.lt < MaxTx
  /\ src' = [src EXCEPT !.balance = @ - 1, !.lt = @ + 1, !.seqno = @ + 1]
  /\ quiet' = FALSE
  /\ UNCHANGED <<cli, dst, net, swept>>

DestMoves ==
  /\ dst' \in 0 .. MaxBalance
  /\ UNCHANGED <<cli, src, net, swept, quiet>>

Chain == Execute \/ Deposit \/ RunnerSpends \/ DestMoves

Polls == FetchSource \/ \E b \in BOOLEAN : waitWalletWithdrawConfirmation(b)

WithdrawNext ==
  \/ SourceBefore \/ DestBefore \/ queryWalletSeqno \/ SendExternalMessage
  \/ Polls \/ Timeout \/ Chain

\* The poll goes on, and the chain answers again and again.
WithdrawFairness == WF_withdrawVars(Polls) /\ SF_withdrawVars(FetchSource /\ now'.ok)

WithdrawSpec == WithdrawInit /\ [][WithdrawNext]_withdrawVars /\ WithdrawFairness

----------------------------------------------------------------------------
(* Properties.                                                             *)

\* Confirmed means swept, as long as no one else touches the wallet between
\* its first snapshot and the verdict: a snapshot older than the message, of a
\* wallet that is not deployed, confirms nothing.
QuietConfirmation == outcome = "confirmed" /\ quiet => swept

\* A sweep that was executed is confirmed, unless the command gave up first,
\* also when the destination's balance tells nothing.
SweepConfirmed == swept ~> (outcome \in {"confirmed", "timeout", "failed"})

\* wallet withdraw drains the node wallet: what it reports as confirmed was.
ConfirmedMeansDrained == outcome = "confirmed" => swept
=============================================================================
