--------------------------- MODULE OnChainProofs ---------------------------
(***************************************************************************)
(* Safety of concurrent broadcasts from one wallet, and the promises of    *)
(* WalletService, for any number of calls and any number of transactions   *)
(* that others make with the same key.                                     *)
(*                                                                         *)
(* The argument is the wallet's seqno: a message is executed at the seqno  *)
(* it was signed for, which then is in the past for ever, so no two        *)
(* executed messages share one.  That a call reports success only after    *)
(* the wallet had a transaction of its own message turns this into what    *)
(* the callers see.                                                        *)
(*                                                                         *)
(* Below it: the registration (RegInv, the balance a client contract still *)
(* lacks while attempts go on) and the channel commands (ChanInv, what the *)
(* runner answers about the message of a request), both on top of any      *)
(* WalletService, and the cells of the contracts (CellInv, the StateInit   *)
(* that registerOnChain builds against the one the proxy expects).         *)
(***************************************************************************)
EXTENDS MCOnChain, TLAPS

\* A call that has not sent its message has none with the validators.
Unsent ==
  \A c \in Calls :
    pc[c] \in {"idle", "seqno", "send"} => c \notin pool /\ ~Executed(c)

\* Executed messages carry different seqnos, all of the past.
Spent ==
  /\ \A c \in Calls : Executed(c) => msg[c].seqno < seqno
  /\ \A c, d \in Calls : Executed(c) /\ Executed(d) /\ msg[c].seqno = msg[d].seqno => c = d

\* A message that deploys the wallet is signed for its first seqno.
DeploysFirst == \A c \in Calls : msg[c].init => msg[c].seqno = 0

\* Success is reported only of messages the wallet has a transaction of.
Honest == \A c \in Calls : reply[c] = "ok" => Confirmed(c)

IInv == TypeOK /\ Unsent /\ Spent /\ DeploysFirst /\ Honest

\* What appending a call to the log does to the set of executed calls.
LEMMA ExecutedAppend ==
  ASSUME log \in Seq(Calls), NEW c \in Calls, log' = Append(log, c)
  PROVE  /\ log' \in Seq(Calls)
         /\ \A d \in Calls : Executed(d)' <=> Executed(d) \/ d = c
<1>1. /\ log' \in Seq(Calls)
      /\ DOMAIN log' = 1 .. Len(log) + 1
      /\ DOMAIN log = 1 .. Len(log)
      /\ Len(log) \in Nat
      /\ \A i \in 1 .. Len(log) : log'[i] = log[i]
      /\ log'[Len(log) + 1] = c
      OBVIOUS
<1>2. ASSUME NEW d \in Calls PROVE Executed(d)' <=> Executed(d) \/ d = c
  <2>1. Executed(d) => Executed(d)'
        BY <1>1 DEF Executed
  <2>2. d = c => Executed(d)'
        BY <1>1 DEF Executed
  <2>3. Executed(d)' => Executed(d) \/ d = c
    <3>1. SUFFICES ASSUME NEW i \in 1 .. Len(log) + 1, log'[i] = d, d # c
                   PROVE  Executed(d)
          BY <1>1 DEF Executed
    <3>2. i \in 1 .. Len(log)
          BY <1>1, <3>1
    <3>3. QED
          BY ZenonT(60), <1>1, <3>1, <3>2 DEF Executed
  <2>4. QED
        BY ZenonT(60), <2>1, <2>2, <2>3
<1>3. QED
      BY <1>1, <1>2

\* What was executed is in the log.
LEMMA ExecutedSame == UNCHANGED log => \A d : Executed(d)' <=> Executed(d)
BY DEF Executed

\* What was confirmed stays so.
LEMMA ConfirmedStays ==
  ASSUME \A d \in Calls : Executed(d) => Executed(d)', void \subseteq void'
  PROVE  \A d \in Calls : Confirmed(d) => Confirmed(d)'
BY ZenonT(60) DEF Confirmed

\* No broadcast has begun.
LEMMA InitIInv == Init => IInv
<1> SUFFICES ASSUME Init PROVE IInv
    OBVIOUS
<1>1. TypeOK
      BY BroadcasterAssumption DEF Init, WalletInit, TypeOK, NoMsg
<1>2. \A c : ~Executed(c)
  <2>1. DOMAIN log = {}
        BY DEF Init, WalletInit
  <2>2. QED
        BY <2>1 DEF Executed
<1>3. QED
      BY <1>1, <1>2 DEF Init, WalletInit, IInv, Unsent, Spent, DeploysFirst, Honest, NoMsg

\* The steps of a call up to its signature.
LEMMA PrepareKeeps ==
  ASSUME IInv, NEW c \in Calls, accountCursor(c) \/ querySeqno(c)
  PROVE  IInv'
<1> USE DEF IInv
<1>1. UNCHANGED <<log, void, seqno, deployed, foreign, pool>>
      BY ZenonT(60) DEF accountCursor, querySeqno, Sign, Ask, chainVars, walletVars
<1>2. \A d : Executed(d)' <=> Executed(d)
      BY ZenonT(60), <1>1, ExecutedSame
<1>2a. \A d \in Calls : Confirmed(d) => Confirmed(d)'
      BY ZenonT(60), <1>1, <1>2, ConfirmedStays
<1>3. CASE accountCursor(c)
  <2>1. TypeOK'
        BY ZenonT(60), <1>1, <1>3 DEF accountCursor, Ask, TypeOK
  <2>2. pc[c] = "idle" /\ pc' = [pc EXCEPT ![c] = "seqno"] /\ UNCHANGED msg
        BY <1>3 DEF accountCursor
  <2>3. reply' = [reply EXCEPT ![c] = "pending"]
        BY <1>3 DEF accountCursor, Ask
  <2>4. Unsent' /\ Spent' /\ DeploysFirst'
        BY ZenonT(60), <1>1, <1>2, <2>2 DEF Unsent, Spent, DeploysFirst, TypeOK
  <2>5. Honest'
        BY ZenonT(60), <1>2a, <2>3 DEF Honest, TypeOK
  <2>6. QED
        BY ZenonT(60), <2>1, <2>4, <2>5
<1>4. CASE querySeqno(c)
  <2>1. PICK n \in Nat, i \in BOOLEAN : Sign(c, n, i) /\ (i => n = 0) /\ pc[c] = "seqno"
        BY ZenonT(60), <1>4 DEF querySeqno, TypeOK
  <2>2. msg' = [msg EXCEPT ![c] = [seqno |-> n, init |-> i]] /\ pc' = [pc EXCEPT ![c] = "send"]
        BY <2>1 DEF Sign
  <2>3. UNCHANGED <<reply, cursor>>
        BY <2>1 DEF Sign, walletVars
  <2>4. TypeOK'
        BY ZenonT(60), <1>1, <2>2, <2>3 DEF TypeOK
  <2>5. ~Executed(c) /\ c \notin pool
        BY <2>1 DEF Unsent
  <2>6. \A d \in Calls \ {c} : msg'[d] = msg[d]
        BY <2>2 DEF TypeOK
  <2>7. Unsent' /\ Honest'
        BY ZenonT(60), <1>1, <1>2, <1>2a, <2>2, <2>3, <2>5 DEF Unsent, Honest, TypeOK
  <2>8. Spent'
        BY ZenonT(60), <1>1, <1>2, <2>5, <2>6 DEF Spent
  <2>9. DeploysFirst'
        BY ZenonT(60), <2>1, <2>2, <2>6 DEF DeploysFirst, TypeOK
  <2>10. QED
        BY ZenonT(60), <2>4, <2>7, <2>8, <2>9
<1>5. QED
      BY <1>3, <1>4

\* The steps that leave the messages and the chain's state alone.
LEMMA CallKeeps ==
  ASSUME IInv, NEW c \in Calls,
         Abort(c) \/ Send(c) \/ Confirm(c) \/ logDestinationTransactions(c) \/ GiveUp(c)
  PROVE  IInv'
<1> USE DEF IInv
<1>1. UNCHANGED <<log, void, seqno, deployed, foreign, cursor, msg>>
      BY DEF Abort, Send, Confirm, logDestinationTransactions, GiveUp, Fail, Succeed, walletVars, chainVars
<1>2. \A d : Executed(d)' <=> Executed(d)
      BY ZenonT(60), <1>1, ExecutedSame
<1>2a. \A d \in Calls : Confirmed(d) => Confirmed(d)'
      BY ZenonT(60), <1>1, <1>2, ConfirmedStays
<1>3. \/ UNCHANGED reply
      \/ reply' = [reply EXCEPT ![c] = "error"]
      \/ reply' = [reply EXCEPT ![c] = "ok"] /\ Confirmed(c)
      BY DEF Abort, Send, Confirm, logDestinationTransactions, GiveUp, Fail, Succeed, walletVars
<1>4. \E w \in {"sent", "watch", "done"} : pc' = [pc EXCEPT ![c] = w]
      BY DEF Abort, Send, Confirm, logDestinationTransactions, GiveUp
<1>5. pool' = pool \/ (pool' = pool \cup {c} /\ pc'[c] = "sent")
      BY DEF Abort, Send, Confirm, logDestinationTransactions, GiveUp, chainVars, TypeOK
<1>6. TypeOK'
      BY ZenonT(60), <1>1, <1>3, <1>4, <1>5 DEF TypeOK
<1>7. Unsent'
      BY ZenonT(60), <1>2, <1>4, <1>5 DEF Unsent, TypeOK
<1>8. Spent' /\ DeploysFirst'
      BY ZenonT(60), <1>1, <1>2 DEF Spent, DeploysFirst
<1>9. Honest'
      BY ZenonT(60), <1>3, <1>2a DEF Honest, TypeOK
<1>10. QED
      BY ZenonT(60), <1>6, <1>7, <1>8, <1>9

\* The wallet contract executes a message of the current seqno.
LEMMA RunKeeps ==
  ASSUME IInv, NEW c \in Calls, Run(c)
  PROVE  IInv'
<1> USE DEF IInv
<1>1. /\ c \in pool /\ msg[c].seqno = seqno /\ ~Executed(c)
      /\ log' = Append(log, c) /\ seqno' = seqno + 1 /\ deployed' = TRUE
      /\ UNCHANGED <<void, reply, foreign, pool, pc, cursor, msg>>
      BY DEF Run, Accepts, Execute, callVars
<1>2. log' \in Seq(Calls) /\ \A d \in Calls : Executed(d)' <=> Executed(d) \/ d = c
      BY ZenonT(60), <1>1, ExecutedAppend DEF TypeOK
<1>3. TypeOK'
      BY SMTT(60), <1>1, <1>2 DEF TypeOK
<1>4. Unsent' /\ Honest' /\ DeploysFirst'
  <2>1. \A d \in Calls : Confirmed(d) => Confirmed(d)'
        BY ZenonT(60), <1>1, <1>2, ConfirmedStays
  <2>2. QED
        BY ZenonT(60), <1>1, <1>2, <2>1 DEF Unsent, Honest, DeploysFirst
<1>5. \A d \in Calls : msg[d].seqno \in Nat
      BY DEF TypeOK
<1>6. Spent'
  <2>1. seqno \in Nat /\ ~(seqno < seqno)
        BY DEF TypeOK
  <2>2. ASSUME NEW d \in Calls, Executed(d)' PROVE msg'[d].seqno < seqno'
    <3>1. CASE d = c
          BY SMTT(60), <1>1, <2>1, <3>1
    <3>2. CASE d # c
      <4>1. msg[d].seqno < seqno
            BY ZenonT(60), <1>2, <2>2, <3>2 DEF Spent
      <4>2. QED
            BY SMTT(60), <1>1, <1>5, <2>1, <4>1
    <3>3. QED
          BY ZenonT(60), <3>1, <3>2
  <2>3. ASSUME NEW d \in Calls, NEW e \in Calls, Executed(d)', Executed(e)',
               msg'[d].seqno = msg'[e].seqno
        PROVE  d = e
    <3>1. msg[d].seqno = msg[e].seqno
          BY ZenonT(60), <1>1, <2>3
    <3>2. \A x \in Calls : Executed(x) => msg[x].seqno # seqno
          BY <2>1 DEF Spent
    <3>3. CASE d = c \/ e = c
          BY ZenonT(60), <1>1, <1>2, <2>3, <3>1, <3>2, <3>3
    <3>4. CASE d # c /\ e # c
          BY ZenonT(60), <1>2, <2>3, <3>1, <3>4 DEF Spent
    <3>5. QED
          BY ZenonT(60), <3>3, <3>4
  <2>4. QED
        BY ZenonT(60), <2>2, <2>3 DEF Spent
<1>7. QED
      BY ZenonT(60), <1>3, <1>4, <1>6

\* The wallet contract accepts a message and sends nothing.
LEMMA RunEmptyKeeps ==
  ASSUME IInv, NEW c \in Calls, RunEmpty(c)
  PROVE  IInv'
<1> USE DEF IInv
<1>1. /\ void' = void \cup {c}
      /\ (seqno' = seqno + 1 /\ deployed' = TRUE) \/ (seqno' = seqno /\ deployed' = deployed)
      /\ UNCHANGED <<log, reply, foreign, pool, pc, cursor, msg>>
      BY ZenonT(60) DEF RunEmpty, SendNothing, callVars
<1>2. \A d : Executed(d)' <=> Executed(d)
      BY ZenonT(60), <1>1, ExecutedSame
<1>3. seqno \in Nat /\ seqno' \in Nat /\ seqno <= seqno' /\ deployed' \in BOOLEAN
  <2>1. seqno \in Nat /\ (seqno' = seqno + 1 \/ seqno' = seqno)
        BY ZenonT(60), <1>1 DEF TypeOK
  <2>2. seqno' \in Nat /\ seqno <= seqno'
        BY SMTT(60), <2>1
  <2>3. deployed' \in BOOLEAN
        BY ZenonT(60), <1>1 DEF TypeOK
  <2>4. QED
        BY ZenonT(60), <2>1, <2>2, <2>3
<1>4. TypeOK'
      BY ZenonT(60), <1>1, <1>3 DEF TypeOK
<1>5. Unsent' /\ Honest' /\ DeploysFirst'
  <2>1. \A d \in Calls : Confirmed(d) => Confirmed(d)'
        BY ZenonT(60), <1>1, <1>2, ConfirmedStays
  <2>2. QED
        BY ZenonT(60), <1>1, <1>2, <2>1 DEF Unsent, Honest, DeploysFirst
<1>6. Spent'
  <2>1. \A d \in Calls : msg[d].seqno \in Nat
        BY DEF TypeOK
  <2>2. \A d \in Calls : msg[d].seqno < seqno => msg[d].seqno < seqno'
        BY SMTT(60), <1>3, <2>1
  <2>3. QED
        BY ZenonT(60), <1>1, <1>2, <2>2 DEF Spent
<1>7. QED
      BY ZenonT(60), <1>4, <1>5, <1>6

\* Messages expire, and others use the wallet.
LEMMA EnvironmentKeeps ==
  ASSUME IInv, Foreign \/ \E c \in Calls : Expire(c)
  PROVE  IInv'
<1> USE DEF IInv
<1>1. UNCHANGED <<log, void, reply, pc, cursor, msg>>
      BY ZenonT(60) DEF Foreign, Expire, walletVars, callVars
<1>2. \A d : Executed(d)' <=> Executed(d)
      BY ZenonT(60), <1>1, ExecutedSame
<1>2a. \A d \in Calls : Confirmed(d) => Confirmed(d)'
      BY ZenonT(60), <1>1, <1>2, ConfirmedStays
<1>3. seqno' \in Nat /\ seqno <= seqno' /\ deployed' \in BOOLEAN /\ foreign' \in 0 .. MaxForeign
  <2>1. seqno \in Nat /\ deployed \in BOOLEAN /\ foreign \in 0 .. MaxForeign
        BY DEF TypeOK
  <2>2. CASE Foreign
        BY SMTT(60), <2>1, <2>2, BroadcasterAssumption DEF Foreign
  <2>3. ASSUME NEW c \in Calls, Expire(c)
        PROVE  UNCHANGED <<seqno, deployed, foreign>>
        BY <2>3 DEF Expire
  <2>4. CASE \E c \in Calls : Expire(c)
        BY SMTT(60), <2>1, <2>3, <2>4
  <2>5. QED
        BY <2>2, <2>4
<1>4. pool' \subseteq pool
      BY DEF Foreign, Expire
<1>5. TypeOK'
      BY ZenonT(60), <1>1, <1>3, <1>4 DEF TypeOK
<1>6. Unsent' /\ Honest' /\ DeploysFirst'
      BY ZenonT(60), <1>1, <1>2, <1>4, <1>2a DEF Unsent, Honest, DeploysFirst
<1>7. Spent'
      BY SMTT(60), <1>1, <1>2, <1>3 DEF Spent, TypeOK
<1>8. QED
      BY ZenonT(60), <1>5, <1>6, <1>7

\* Every step of a broadcast, of the validators and of others with the key.
LEMMA NextIInv == IInv /\ [Next]_vars => IInv'
<1> SUFFICES ASSUME IInv, [Next]_vars PROVE IInv'
    OBVIOUS
<1>1. CASE UNCHANGED vars
  <2>1. UNCHANGED <<log, void, reply, seqno, deployed, foreign, pool, pc, cursor, msg>>
        BY ZenonT(60), <1>1 DEF vars, walletVars, chainVars, callVars
  <2>2. \A d : Confirmed(d)' <=> Confirmed(d)
        BY ZenonT(60), <2>1, ExecutedSame DEF Confirmed
  <2>3. QED
        BY ZenonT(60), <2>1, <2>2, ExecutedSame DEF IInv, TypeOK, Unsent, Spent, DeploysFirst, Honest
<1>2. CASE Next
  <2>1. CASE Foreign \/ \E c \in Calls : Expire(c)
        BY <2>1, EnvironmentKeeps
  <2>2. ASSUME NEW c \in Calls, Run(c) \/ RunEmpty(c) PROVE IInv'
        BY ZenonT(60), <2>2, RunKeeps, RunEmptyKeeps
  <2>3. ASSUME NEW c \in Calls, Step(c) PROVE IInv'
        BY ZenonT(60), <2>3, PrepareKeeps, CallKeeps DEF Step
  <2>4. QED
        BY ZenonT(60), <1>2, <2>1, <2>2, <2>3 DEF Next
<1>3. QED
      BY <1>1, <1>2

\* The types of the broadcaster's variables and of the chain's.
THEOREM TypeCorrect == Spec => []TypeOK
<1>1. IInv => TypeOK
      BY ZenonT(60) DEF IInv
<1>2. QED
      BY <1>1, InitIInv, NextIInv, PTL DEF Spec

\* Of the broadcasts that signed for one seqno, and have no transaction that sent
\* nothing, at most one reports success (broadcastWithValue), whatever else uses
\* the wallet.
THEOREM OneWinner == Spec => []OneWinnerPerSeqno
<1>1. IInv => OneWinnerPerSeqno
      BY ZenonT(60) DEF IInv, Honest, Confirmed, Spent, OneWinnerPerSeqno
<1>2. QED
      BY <1>1, InitIInv, NextIInv, PTL DEF Spec

\* The wallet is deployed at most once by the broadcasts, although every error
\* of the get method is taken for a missing wallet (querySeqno).
THEOREM OneDeployment == Spec => []DeploysOnce
<1>1. IInv => DeploysOnce
      BY DEF IInv, Spent, DeploysFirst, DeploysOnce
<1>2. QED
      BY <1>1, InitIInv, NextIInv, PTL DEF Spec

\* Every broadcast keeps what WalletService promises its caller: its message sent
\* at most once, success only with a transaction of the wallet, an error without
\* a promise.
THEOREM Refinement == Spec => ImplementsWalletService
<1>1. Init => Abstract!WalletInit
      BY ZenonT(60) DEF Init, WalletInit, Abstract!WalletInit
<1>2. [Next]_vars => [Abstract!WalletNext]_(Abstract!walletVars)
  <2> SUFFICES ASSUME [Next]_vars
               PROVE  Abstract!WalletNext \/ UNCHANGED <<log, void, reply>>
      BY ZenonT(60) DEF Abstract!walletVars
  <2> USE DEF Abstract!WalletNext, Abstract!Ask, Abstract!Execute, Abstract!SendNothing, Abstract!Succeed,
              Abstract!Fail, Abstract!Executed, Abstract!Confirmed, Ask, Execute, SendNothing, Succeed, Fail,
              Executed, Confirmed
  <2>1. CASE UNCHANGED vars \/ Foreign \/ \E c \in Calls : Expire(c)
        BY <2>1 DEF vars, walletVars, Foreign, Expire
  <2>2. ASSUME NEW c \in Calls, Run(c) \/ RunEmpty(c)
        PROVE  Abstract!WalletNext
        BY ZenonT(60), <2>2 DEF Run, RunEmpty
  <2>3. ASSUME NEW c \in Calls, accountCursor(c) PROVE Abstract!WalletNext
        BY ZenonT(60), <2>3 DEF accountCursor
  <2>4. ASSUME NEW c \in Calls, querySeqno(c) \/ Send(c) PROVE UNCHANGED <<log, void, reply>>
        BY ZenonT(60), <2>4 DEF querySeqno, Sign, Send, walletVars
  <2>5. ASSUME NEW c \in Calls, Abort(c) \/ GiveUp(c) PROVE Abstract!WalletNext
        BY ZenonT(60), <2>5 DEF Abort, GiveUp
  <2>6. ASSUME NEW c \in Calls, Confirm(c) \/ logDestinationTransactions(c)
        PROVE  Abstract!WalletNext \/ UNCHANGED <<log, void, reply>>
        BY <2>6 DEF Confirm, logDestinationTransactions, walletVars
  <2>7. QED
        BY ZenonT(60), <2>1, <2>2, <2>3, <2>4, <2>5, <2>6 DEF Next, Step
<1>3. QED
      BY <1>1, <1>2, PTL DEF Spec, ImplementsWalletService, Abstract!WalletSpec

----------------------------------------------------------------------------
(* Registration, on top of any WalletService.                              *)

Reg(a) == <<a, "register">>
Top(a) == <<a, "topup">>
Sent(b) == R!Wallet!Executed(b)

RegTypes ==
  /\ rlog \in Seq(R!Broadcasts)
  /\ rvoid \in SUBSET R!Broadcasts
  /\ rreply \in [R!Broadcasts -> {"none", "pending", "ok", "error"}]
  /\ attempt \in [Attempts -> {"start", "register", "registering", "topping", "registered", "failed"}]
  /\ topUp \in [Attempts -> Nat]
  /\ readCharged \in [Attempts -> Nat]
  /\ initCell \in SUBSET Attempts
  /\ arrived \in 0 .. Len(rlog)
  /\ active \in BOOLEAN
  /\ balance \in Nat
  /\ charged \in Nat

\* What each place of an attempt says of its two broadcasts.
Asked(a) ==
  /\ attempt[a] \in {"start", "register"} => rreply[Reg(a)] = "none"
  /\ attempt[a] # "topping" => rreply[Top(a)] \in {"none", "ok", "error"}
  /\ attempt[a] \in {"start", "register", "registering"} => rreply[Top(a)] = "none"
  /\ attempt[a] = "registered" => topUp[a] = 0 \/ rreply[Top(a)] = "ok"
  /\ attempt[a] = "failed" => rreply[Top(a)] # "ok"
  /\ rreply[Top(a)] # "none" => topUp[a] > 0 /\ rreply[Reg(a)] = "ok"

\* The log: without repetition, no call in it that was not made, every success in
\* it, and a top-up behind the register message of its attempt, those apart of
\* which the wallet has a transaction that sent nothing.
Logged ==
  /\ \A i, j \in 1 .. Len(rlog) : rlog[i] = rlog[j] => i = j
  /\ \A b \in R!Broadcasts : Sent(b) => rreply[b] # "none"
  /\ \A b \in R!Broadcasts : rreply[b] = "ok" => Sent(b) \/ b \in rvoid
  /\ \A a \in Attempts, i \in 1 .. Len(rlog) :
       rlog[i] = Top(a) => Reg(a) \in rvoid \/ \E j \in 1 .. i - 1 : rlog[j] = Reg(a)

\* An attempt that has read the account has seen the contract active or brings
\* its StateInit, so the contract is there once its register message arrived;
\* only a top-up whose register message was not sent can bounce.
Deployed ==
  /\ \A a \in Attempts : attempt[a] = "register" \/ rreply[Reg(a)] # "none" => active \/ a \in initCell
  /\ \A a \in Attempts : R!Arrived(Reg(a)) => active
  /\ \A b \in bounced : \E a \in Attempts : b = Top(a) /\ Reg(a) \in rvoid

\* Charges aside, the balance never falls: it lacks at most the top-up of an
\* attempt, and nothing once that top-up has arrived and did not bounce.
Funded ==
  \A a \in Attempts :
    /\ attempt[a] \in {"register", "registering", "topping", "registered"} \/ rreply[Reg(a)] # "none"
         => balance + charged + topUp[a] >= readCharged[a] + MinClientStake
    /\ R!Arrived(Top(a)) /\ Top(a) \notin bounced => balance + charged >= readCharged[a] + MinClientStake

\* With every balance known when it was read, one top-up at a time is
\* outstanding, and it does not lift the balance above the stake.
Exact ==
  blind = {} =>
    /\ \A a, b \in Attempts : R!Outstanding(a) /\ R!Outstanding(b) => a = b
    /\ \A a \in Attempts : R!Outstanding(a) => balance + topUp[a] <= MinClientStake

RegInv == RegTypes /\ (\A a \in Attempts : Asked(a)) /\ Logged /\ Deployed /\ Funded /\ Exact

\* A log with one more entry.
LEMMA Appending ==
  ASSUME NEW S, NEW s \in Seq(S), NEW x \in S, NEW t, t = Append(s, x)
  PROVE  /\ t \in Seq(S)
         /\ Len(s) \in Nat /\ Len(t) = Len(s) + 1
         /\ DOMAIN s = 1 .. Len(s) /\ DOMAIN t = 1 .. Len(s) + 1
         /\ \A i \in 1 .. Len(s) : t[i] = s[i]
         /\ t[Len(s) + 1] = x
OBVIOUS

\* No attempt has begun.
LEMMA RegInit == R!Init => RegInv
<1> SUFFICES ASSUME R!Init PROVE RegInv
    OBVIOUS
<1> USE DEF R!Init, R!Wallet!WalletInit
<1>1. RegTypes
      BY StakeAssumption DEF RegTypes
<1>2. Len(rlog) = 0 /\ DOMAIN rlog = {} /\ arrived = 0
      OBVIOUS
<1>3. \A a \in Attempts : Reg(a) \in R!Broadcasts /\ Top(a) \in R!Broadcasts
      BY DEF R!Broadcasts, Reg, Top
<1>4. \A b : ~Sent(b) /\ ~R!Arrived(b)
      BY SMTT(60), <1>2 DEF Sent, R!Wallet!Executed, R!Arrived
<1>5. \A a \in Attempts : Asked(a)
      BY <1>3 DEF Asked
<1>6. Logged /\ Deployed
      BY SMTT(60), <1>2, <1>3, <1>4 DEF Logged, Deployed
<1>7. Funded
      BY ZenonT(60), <1>3, <1>4 DEF Funded
<1>8. Exact
      BY DEF Exact, R!Outstanding
<1>9. QED
      BY ZenonT(60), <1>1, <1>5, <1>6, <1>7, <1>8 DEF RegInv

\* The two broadcasts of every attempt, all different.
LEMMA Broadcasts2 ==
  /\ \A a \in Attempts : Reg(a) \in R!Broadcasts /\ Top(a) \in R!Broadcasts
  /\ \A b \in R!Broadcasts : \E a \in Attempts : b = Reg(a) \/ b = Top(a)
  /\ \A a, b : Reg(a) # Top(b) /\ (Reg(a) = Reg(b) => a = b) /\ (Top(a) = Top(b) => a = b)
BY DEF R!Broadcasts, Reg, Top

\* With the log and what has arrived of it unchanged, so are Sent and Arrived.
LEMMA SameLog ==
  /\ UNCHANGED rlog => \A b : Sent(b)' <=> Sent(b)
  /\ UNCHANGED <<rlog, arrived>> => \A b : R!Arrived(b)' <=> R!Arrived(b)
BY DEF Sent, R!Wallet!Executed, R!Arrived

\* Whatever decides no top-up and adds nothing to the balance keeps Exact.
LEMMA ExactKept ==
  ASSUME RegTypes, RegTypes', Exact, blind' = blind, UNCHANGED topUp, balance' <= balance,
         \A a \in Attempts : R!Outstanding(a)' => R!Outstanding(a)
  PROVE  Exact'
<1> SUFFICES ASSUME blind' = {} PROVE
      /\ \A a, b \in Attempts : R!Outstanding(a)' /\ R!Outstanding(b)' => a = b
      /\ \A a \in Attempts : R!Outstanding(a)' => balance' + topUp'[a] <= MinClientStake
    BY DEF Exact
<1>1. ASSUME NEW a \in Attempts, R!Outstanding(a)'
      PROVE  balance' + topUp'[a] <= MinClientStake
  <2>1. balance + topUp[a] <= MinClientStake
        BY <1>1 DEF Exact
  <2>2. QED
        BY SMTT(60), <2>1, StakeAssumption DEF RegTypes
<1>2. QED
      BY <1>1 DEF Exact

\* An attempt reads the account.
LEMMA ReadKeeps ==
  ASSUME RegInv, NEW a \in Attempts, NEW decoded \in BOOLEAN, R!ReadAccount(a, decoded)
  PROVE  RegInv'
<1> DEFINE read == IF decoded THEN balance ELSE 0
<1> USE DEF RegInv
<1>1. /\ attempt[a] = "start"
      /\ topUp' = [topUp EXCEPT ![a] = R!Missing(read)]
      /\ initCell' = IF active THEN initCell ELSE initCell \cup {a}
      /\ attempt' = [attempt EXCEPT ![a] = "register"]
      /\ readCharged' = [readCharged EXCEPT ![a] = charged]
      /\ blind' = IF decoded /\ ~\E b \in Attempts : R!Outstanding(b)
                  THEN blind ELSE blind \cup {a}
      /\ UNCHANGED <<rlog, rvoid, rreply, arrived, active, balance, charged, bounced>>
      BY DEF R!ReadAccount, R!contractVars
<1>2. /\ R!Missing(read) \in Nat
      /\ balance + R!Missing(read) >= MinClientStake
      /\ decoded /\ R!Missing(read) > 0 => balance + R!Missing(read) = MinClientStake
      BY SMTT(60), StakeAssumption DEF R!Missing, RegTypes
<1> HIDE DEF read
<1>3. RegTypes'
      BY ZenonT(60), <1>1, <1>2 DEF RegTypes
<1>4. /\ \A b : Sent(b)' <=> Sent(b)
      /\ \A b : R!Arrived(b)' <=> R!Arrived(b)
      BY ZenonT(60), <1>1, SameLog
<1>5. rreply[Reg(a)] = "none" /\ rreply[Top(a)] = "none"
      BY <1>1 DEF Asked
<1>6. ~R!Arrived(Top(a))
  <2>1. ~Sent(Top(a))
        BY ZenonT(60), <1>5, Broadcasts2 DEF Logged
  <2>2. QED
        BY SMTT(60), <2>1 DEF Sent, R!Wallet!Executed, R!Arrived, RegTypes
<1>7. /\ \A b \in Attempts \ {a} : /\ topUp'[b] = topUp[b] /\ attempt'[b] = attempt[b]
                                   /\ readCharged'[b] = readCharged[b]
      /\ topUp'[a] = R!Missing(read) /\ attempt'[a] = "register" /\ readCharged'[a] = charged
      BY <1>1 DEF RegTypes
<1>8. \A b \in Attempts : Asked(b)'
      BY ZenonT(60), <1>1, <1>5, <1>7 DEF Asked, Reg, Top
<1>9. Logged'
      BY ZenonT(60), <1>1, <1>4 DEF Logged, Reg, Top
<1>10. Deployed'
      BY ZenonT(60), <1>1, <1>4, <1>7 DEF Deployed, Reg
<1>11. Funded'
  <2> SUFFICES ASSUME NEW b \in Attempts
               PROVE  /\ attempt'[b] \in {"register", "registering", "topping", "registered"} \/ rreply[Reg(b)] # "none"
                           => balance + charged + topUp'[b] >= readCharged'[b] + MinClientStake
                      /\ R!Arrived(Top(b)) /\ Top(b) \notin bounced
                           => balance + charged >= readCharged'[b] + MinClientStake
      BY ZenonT(60), <1>1, <1>4 DEF Funded, Reg, Top
  <2>1. CASE b = a
        BY SMTT(60), <1>2, <1>6, <1>7, <2>1, StakeAssumption DEF RegTypes
  <2>2. CASE b # a
        BY ZenonT(60), <1>7, <2>2 DEF Funded
  <2>3. QED
        BY ZenonT(60), <2>1, <2>2
<1>12. Exact'
  <2> SUFFICES ASSUME blind' = {} PROVE
        /\ \A b, c \in Attempts : R!Outstanding(b)' /\ R!Outstanding(c)' => b = c
        /\ \A b \in Attempts : R!Outstanding(b)' => balance' + topUp'[b] <= MinClientStake
      BY DEF Exact
  <2>1. decoded /\ \A b \in Attempts : ~R!Outstanding(b)
        BY <1>1
  <2>2. \A b \in Attempts \ {a} : ~R!Outstanding(b)'
        BY ZenonT(60), <1>1, <1>4, <1>7, <2>1 DEF R!Outstanding
  <2>3. R!Outstanding(a)' => R!Missing(read) > 0
        BY ZenonT(60), <1>7 DEF R!Outstanding
  <2>4. R!Outstanding(a)' => balance' + topUp'[a] <= MinClientStake
        BY ZenonT(60), <1>1, <1>2, <1>7, <2>1, <2>3, StakeAssumption DEF RegTypes
  <2>5. QED
        BY ZenonT(60), <2>2, <2>4
<1>13. QED
      BY ZenonT(60), <1>3, <1>8, <1>9, <1>10, <1>11, <1>12

\* The other steps of an attempt move it on, with at most a new broadcast.
LEMMA AttemptKeeps ==
  ASSUME RegInv, NEW a \in Attempts,
         R!Refuse(a) \/ R!Register(a) \/ R!Registered(a) \/ R!ToppedUp(a)
  PROVE  RegInv'
<1> USE DEF RegInv
<1>1. UNCHANGED <<rlog, rvoid, topUp, initCell, arrived, active, balance, charged, bounced, readCharged, blind>>
      BY ZenonT(60) DEF R!Refuse, R!Register, R!Registered, R!ToppedUp, R!Broadcast, R!Stop, R!Wallet!Ask,
             R!contractVars, R!history
<1>2. \/ /\ attempt[a] = "start" /\ attempt' = [attempt EXCEPT ![a] = "failed"] /\ UNCHANGED rreply
      \/ /\ attempt[a] = "register" /\ attempt' = [attempt EXCEPT ![a] = "registering"]
         /\ rreply' = [rreply EXCEPT ![Reg(a)] = "pending"]
      \/ /\ attempt[a] = "registering" /\ attempt' = [attempt EXCEPT ![a] = "failed"] /\ UNCHANGED rreply
      \/ /\ attempt[a] = "registering" /\ attempt' = [attempt EXCEPT ![a] = "registered"] /\ UNCHANGED rreply
         /\ topUp[a] = 0
      \/ /\ attempt[a] = "registering" /\ attempt' = [attempt EXCEPT ![a] = "topping"]
         /\ rreply' = [rreply EXCEPT ![Top(a)] = "pending"]
         /\ topUp[a] # 0 /\ rreply[Reg(a)] = "ok"
      \/ /\ attempt[a] = "topping" /\ attempt' = [attempt EXCEPT ![a] = "registered"] /\ UNCHANGED rreply
         /\ rreply[Top(a)] = "ok"
      \/ /\ attempt[a] = "topping" /\ attempt' = [attempt EXCEPT ![a] = "failed"] /\ UNCHANGED rreply
         /\ rreply[Top(a)] = "error"
      BY DEF R!Refuse, R!Register, R!Registered, R!ToppedUp, R!Broadcast, R!Stop, R!Wallet!Ask, Reg, Top
<1>3. RegTypes'
      BY ZenonT(60), <1>1, <1>2, Broadcasts2 DEF RegTypes
<1>4. /\ \A b : Sent(b)' <=> Sent(b)
      /\ \A b : R!Arrived(b)' <=> R!Arrived(b)
      BY ZenonT(60), <1>1, SameLog
<1>5. \A b \in Attempts \ {a} : /\ attempt'[b] = attempt[b]
                                /\ rreply'[Reg(b)] = rreply[Reg(b)] /\ rreply'[Top(b)] = rreply[Top(b)]
      BY SMTT(60), <1>2, Broadcasts2 DEF RegTypes
<1>6. \A b \in Attempts : Asked(b)'
  <2>1. ASSUME NEW b \in Attempts \ {a} PROVE Asked(b)'
        BY SMTT(60), <1>1, <1>5 DEF Asked, Reg, Top
  <2>2. Asked(a)
        BY ZenonT(60)
  <2>3. Asked(a)'
        BY SMTT(60), <1>1, <1>2, <2>2, Broadcasts2 DEF Asked, RegTypes
  <2>4. QED
        BY ZenonT(60), <2>1, <2>3
<1>7. Logged'
  <2>1. \A b \in R!Broadcasts : /\ rreply'[b] = "none" => rreply[b] = "none"
                                /\ rreply'[b] = "ok" => rreply[b] = "ok"
        BY ZenonT(60), <1>2, Broadcasts2 DEF RegTypes
  <2>2. QED
        BY ZenonT(60), <1>1, <1>4, <2>1 DEF Logged, Reg, Top
<1>8. Deployed'
  <2>1. \A b \in Attempts : attempt'[b] = "register" \/ rreply'[Reg(b)] # "none" =>
                              attempt[b] = "register" \/ rreply[Reg(b)] # "none"
        BY ZenonT(60), <1>2, <1>5, Broadcasts2 DEF RegTypes
  <2>2. QED
        BY ZenonT(60), <1>1, <1>4, <2>1 DEF Deployed, Reg
<1>9. Funded'
  <2> DEFINE has(b) == \/ attempt[b] \in {"register", "registering", "topping", "registered"}
                       \/ rreply[Reg(b)] # "none"
  <2>1. ASSUME NEW b \in Attempts, has(b)' PROVE has(b)
        BY ZenonT(60), <1>2, <1>5, <2>1, Broadcasts2 DEF RegTypes, Reg
  <2>2. QED
        BY ZenonT(60), <1>1, <1>4, <2>1 DEF Funded, Reg, Top
<1>10. Exact'
  <2>1. ASSUME NEW b \in Attempts, R!Outstanding(b)' PROVE R!Outstanding(b)
    <3>1. CASE b = a
      <4>1. topUp[a] > 0 /\ ~R!Arrived(Top(a))
            BY ZenonT(60), <1>1, <1>4, <2>1, <3>1 DEF R!Outstanding, Top
      <4>2. attempt'[a] # "failed" \/ rreply'[Top(a)] = "error"
            BY ZenonT(60), <2>1, <3>1 DEF R!Outstanding, Top
      <4>3. attempt[a] # "failed" \/ rreply[Top(a)] = "error"
            BY ZenonT(60), <1>2 DEF RegTypes
      <4>4. QED
            BY ZenonT(60), <3>1, <4>1, <4>3 DEF R!Outstanding, Top
    <3>2. CASE b # a
          BY ZenonT(60), <1>1, <1>4, <1>5, <2>1, <3>2 DEF R!Outstanding, Top
    <3>3. QED
          BY ZenonT(60), <3>1, <3>2
  <2>2. balance' <= balance
        BY SMTT(60), <1>1 DEF RegTypes
  <2>3. QED
        BY ZenonT(60), <1>1, <1>3, <2>1, <2>2, ExactKept
<1>11. QED
      BY ZenonT(60), <1>3, <1>6, <1>7, <1>8, <1>9, <1>10

\* The wallet executes a broadcast, or its caller hears of it.
LEMMA WalletKeeps ==
  ASSUME RegInv, R!WalletStep
  PROVE  RegInv'
<1> USE DEF RegInv
<1>1. UNCHANGED <<attempt, topUp, initCell, arrived, active, balance, charged, bounced, readCharged, blind>>
      BY DEF R!WalletStep, R!attemptVars, R!contractVars, R!history
<1>2. PICK b \in R!Broadcasts :
        R!Wallet!Execute(b) \/ R!Wallet!SendNothing(b) \/ R!Wallet!Succeed(b) \/ R!Wallet!Fail(b)
      BY DEF R!WalletStep
<1>3. balance' <= balance
      BY SMTT(60), <1>1 DEF RegTypes
<1>4. CASE R!Wallet!Execute(b)
  <2>1. /\ rreply[b] # "none" /\ ~Sent(b) /\ rlog' = Append(rlog, b) /\ UNCHANGED <<rvoid, rreply>>
        BY ZenonT(60), <1>4 DEF R!Wallet!Execute, Sent
  <2>2. rlog \in Seq(R!Broadcasts)
        BY ZenonT(60) DEF RegTypes
  <2>3. /\ rlog' \in Seq(R!Broadcasts)
        /\ Len(rlog) \in Nat /\ Len(rlog') = Len(rlog) + 1
        /\ DOMAIN rlog = 1 .. Len(rlog) /\ DOMAIN rlog' = 1 .. Len(rlog) + 1
        /\ \A i \in 1 .. Len(rlog) : rlog'[i] = rlog[i]
        /\ rlog'[Len(rlog) + 1] = b
        BY SMTT(60), <2>1, <2>2, Appending
  <2>4. arrived \in Nat /\ arrived <= Len(rlog)
        BY SMTT(60), <2>3 DEF RegTypes
  <2>5. RegTypes'
        BY SMTT(60), <1>1, <2>1, <2>3 DEF RegTypes
  <2>6. \A c : R!Arrived(c)' <=> R!Arrived(c)
        BY SMTT(60), <1>1, <2>3, <2>4 DEF R!Arrived
  <2>7. \A c : Sent(c)' <=> Sent(c) \/ c = b
    <3>1. \A c : Sent(c) => Sent(c)'
          BY SMTT(60), <2>3 DEF Sent, R!Wallet!Executed
    <3>2. Sent(b)'
          BY SMTT(60), <2>3 DEF Sent, R!Wallet!Executed
    <3>3. ASSUME NEW c, Sent(c)', c # b PROVE Sent(c)
      <4>1. PICK i \in 1 .. Len(rlog) + 1 : rlog'[i] = c
            BY ZenonT(60), <2>3, <3>3 DEF Sent, R!Wallet!Executed
      <4>2. i \in 1 .. Len(rlog)
            BY SMTT(60), <2>3, <3>3, <4>1
      <4>3. QED
            BY ZenonT(60), <2>3, <4>1, <4>2 DEF Sent, R!Wallet!Executed
    <3>4. QED
          BY ZenonT(60), <3>1, <3>2, <3>3
  <2>8. \A c \in Attempts : Asked(c)'
        BY ZenonT(60), <1>1, <2>1 DEF Asked, Reg, Top
  <2>9. Logged'
    <3>1. ASSUME NEW i \in 1 .. Len(rlog'), NEW j \in 1 .. Len(rlog'), rlog'[i] = rlog'[j]
          PROVE  i = j
      <4>1. \A k \in 1 .. Len(rlog) : rlog[k] # b
            BY ZenonT(60), <2>1, <2>3 DEF Sent, R!Wallet!Executed
      <4>2. CASE i \in 1 .. Len(rlog) /\ j \in 1 .. Len(rlog)
            BY ZenonT(60), <2>3, <3>1, <4>2 DEF Logged
      <4>3. CASE i = Len(rlog) + 1 \/ j = Len(rlog) + 1
            BY SMTT(60), <2>3, <3>1, <4>1, <4>3
      <4>4. QED
            BY SMTT(60), <2>3, <4>2, <4>3
    <3>2. /\ \A c \in R!Broadcasts : Sent(c)' => rreply'[c] # "none"
          /\ \A c \in R!Broadcasts : rreply'[c] = "ok" => Sent(c)' \/ c \in rvoid'
          BY ZenonT(60), <2>1, <2>7 DEF Logged
    <3>3. ASSUME NEW a \in Attempts, NEW i \in 1 .. Len(rlog'), rlog'[i] = Top(a)
          PROVE  Reg(a) \in rvoid' \/ \E j \in 1 .. i - 1 : rlog'[j] = Reg(a)
      <4> SUFFICES ASSUME Reg(a) \notin rvoid PROVE \E j \in 1 .. i - 1 : rlog'[j] = Reg(a)
          BY ZenonT(60), <2>1
      <4>1. CASE i \in 1 .. Len(rlog)
        <5>1. PICK j \in 1 .. i - 1 : rlog[j] = Reg(a)
              BY ZenonT(60), <2>3, <3>3, <4>1 DEF Logged
        <5>2. QED
              BY SMTT(60), <2>3, <4>1, <5>1
      <4>2. CASE i = Len(rlog) + 1
        <5>1. b = Top(a) /\ rreply[Reg(a)] = "ok"
              BY ZenonT(60), <2>1, <2>3, <3>3, <4>2 DEF Asked
        <5>2. Sent(Reg(a))
              BY ZenonT(60), <5>1, Broadcasts2 DEF Logged
        <5>3. PICK j \in 1 .. Len(rlog) : rlog[j] = Reg(a)
              BY ZenonT(60), <2>3, <5>2 DEF Sent, R!Wallet!Executed
        <5>4. j \in 1 .. i - 1 /\ rlog'[j] = Reg(a)
              BY SMTT(60), <2>3, <4>2, <5>3
        <5>5. QED
              BY ZenonT(60), <5>4
      <4>3. QED
            BY SMTT(60), <2>3, <4>1, <4>2
    <3>4. QED
          BY ZenonT(60), <3>1, <3>2, <3>3 DEF Logged, Reg, Top
  <2>10. Deployed' /\ Funded'
        BY ZenonT(60), <1>1, <2>1, <2>6 DEF Deployed, Funded, Reg, Top
  <2>11. Exact'
    <3>1. \A a \in Attempts : R!Outstanding(a)' => R!Outstanding(a)
          BY ZenonT(60), <1>1, <2>1, <2>6 DEF R!Outstanding
    <3>2. QED
          BY ZenonT(60), <1>1, <1>3, <2>5, <3>1, ExactKept
  <2>12. QED
        BY ZenonT(60), <2>5, <2>8, <2>9, <2>10, <2>11
<1>4a. CASE R!Wallet!SendNothing(b)
  <2>1. rreply[b] # "none" /\ rvoid' = rvoid \cup {b} /\ UNCHANGED <<rlog, rreply>>
        BY ZenonT(60), <1>4a DEF R!Wallet!SendNothing
  <2>2. /\ \A c : Sent(c)' <=> Sent(c)
        /\ \A c : R!Arrived(c)' <=> R!Arrived(c)
        BY ZenonT(60), <1>1, <2>1, SameLog
  <2>3. RegTypes'
        BY ZenonT(60), <1>1, <2>1 DEF RegTypes
  <2>4. \A a \in Attempts : Asked(a)'
        BY ZenonT(60), <1>1, <2>1 DEF Asked, Reg, Top
  <2>5. rvoid \subseteq rvoid'
        BY ZenonT(60), <2>1
  <2>6. Logged'
        BY ZenonT(60), <2>1, <2>2, <2>5 DEF Logged, Reg, Top
  <2>7. Deployed' /\ Funded'
        BY ZenonT(60), <1>1, <2>1, <2>2, <2>5 DEF Deployed, Funded, Reg, Top
  <2>8. Exact'
    <3>1. \A a \in Attempts : R!Outstanding(a)' => R!Outstanding(a)
          BY ZenonT(60), <1>1, <2>1, <2>2 DEF R!Outstanding
    <3>2. QED
          BY ZenonT(60), <1>1, <1>3, <2>3, <3>1, ExactKept
  <2>9. QED
        BY ZenonT(60), <2>3, <2>4, <2>6, <2>7, <2>8
<1>5. CASE R!Wallet!Succeed(b) \/ R!Wallet!Fail(b)
  <2>1. /\ rreply[b] = "pending" /\ UNCHANGED <<rlog, rvoid>>
        /\ \/ rreply' = [rreply EXCEPT ![b] = "ok"] /\ (Sent(b) \/ b \in rvoid)
           \/ rreply' = [rreply EXCEPT ![b] = "error"]
        BY ZenonT(60), <1>5 DEF R!Wallet!Succeed, R!Wallet!Confirmed, R!Wallet!Fail, Sent
  <2>2. /\ \A c : Sent(c)' <=> Sent(c)
        /\ \A c : R!Arrived(c)' <=> R!Arrived(c)
        BY ZenonT(60), <1>1, <2>1, SameLog
  <2>3. RegTypes'
        BY ZenonT(60), <1>1, <2>1 DEF RegTypes
  <2>4. \A c \in R!Broadcasts : \/ rreply'[c] = rreply[c]
                                \/ rreply[c] = "pending" /\ rreply'[c] \in {"ok", "error"}
        BY ZenonT(60), <2>1 DEF RegTypes
  <2>5. \A a \in Attempts : Asked(a)'
    <3> SUFFICES ASSUME NEW a \in Attempts PROVE Asked(a)'
        OBVIOUS
    <3>1. Asked(a) /\ Reg(a) \in R!Broadcasts /\ Top(a) \in R!Broadcasts
          BY Broadcasts2
    <3>2. Reg(a)' = Reg(a) /\ Top(a)' = Top(a)
          BY DEF Reg, Top
    <3>3. QED
          BY ZenonT(60), <1>1, <2>4, <3>1, <3>2 DEF Asked
  <2>6. Logged'
    <3>1. /\ \A c \in R!Broadcasts : Sent(c)' => rreply'[c] # "none"
          /\ \A c \in R!Broadcasts : rreply'[c] = "ok" => Sent(c)' \/ c \in rvoid'
          BY ZenonT(60), <2>1, <2>2 DEF Logged, RegTypes
    <3>2. QED
          BY ZenonT(60), <2>1, <3>1 DEF Logged, Reg, Top
  <2>7. Deployed' /\ Funded'
    <3>1. \A a \in Attempts : rreply'[Reg(a)] # "none" => rreply[Reg(a)] # "none"
          BY ZenonT(60), <2>4, Broadcasts2
    <3>2. UNCHANGED rvoid
          BY ZenonT(60), <2>1
    <3>3. QED
          BY ZenonT(60), <1>1, <2>2, <3>1, <3>2 DEF Deployed, Funded, Reg, Top
  <2>8. Exact'
    <3>1. ASSUME NEW a \in Attempts, R!Outstanding(a)' PROVE R!Outstanding(a)
      <4>1. attempt[a] = "failed" => rreply[Top(a)] # "pending"
            BY ZenonT(60) DEF Asked
      <4>2. attempt[a] # "failed" \/ rreply[Top(a)] = "error"
            BY ZenonT(60), <1>1, <2>4, <3>1, <4>1, Broadcasts2 DEF R!Outstanding, Top
      <4>3. QED
            BY ZenonT(60), <1>1, <2>2, <3>1, <4>2 DEF R!Outstanding, Top
    <3>2. QED
          BY ZenonT(60), <1>1, <1>3, <2>3, <3>1, ExactKept
  <2>9. QED
        BY <2>3, <2>5, <2>6, <2>7, <2>8
<1>6. QED
      BY ZenonT(60), <1>2, <1>4, <1>4a, <1>5

\* The next message reaches the contract: it is there, unless the wallet did not
\* send the register message of the attempt, and a top-up is outstanding.
LEMMA ArriveSteps ==
  ASSUME RegInv, R!Arrive
  PROVE  \E a \in Attempts, b \in R!Broadcasts :
           /\ b \in {Reg(a), Top(a)}
           /\ arrived' = arrived + 1 /\ arrived < Len(rlog) /\ rlog[arrived + 1] = b
           /\ active => active'
           /\ active' \/ (b = Top(a) /\ Reg(a) \in rvoid)
           /\ bounced' = IF active' THEN bounced ELSE bounced \cup {b}
           /\ balance' = IF active' /\ b = Top(a) THEN balance + topUp[a] ELSE balance
           /\ b = Top(a) => R!Outstanding(a)
           /\ \A c : R!Arrived(c)' <=> R!Arrived(c) \/ c = b
           /\ UNCHANGED <<rlog, rvoid, rreply, attempt, topUp, initCell, charged, readCharged, blind>>
<1> USE DEF RegInv
<1>1. /\ arrived \in Nat /\ Len(rlog) \in Nat /\ arrived < Len(rlog) /\ arrived' = arrived + 1
      /\ DOMAIN rlog = 1 .. Len(rlog)
      /\ UNCHANGED <<rlog, rvoid, rreply, attempt, topUp, initCell, charged, readCharged, blind>>
      BY DEF R!Arrive, R!attemptVars, R!history, RegTypes
<1>2. arrived + 1 \in 1 .. Len(rlog) /\ rlog[arrived + 1] \in R!Broadcasts
      BY SMTT(60), <1>1 DEF RegTypes
<1>3. PICK a \in Attempts : rlog[arrived + 1] \in {Reg(a), Top(a)}
      BY ZenonT(60), <1>2, Broadcasts2
<1> DEFINE b == rlog[arrived + 1]
<1>4. /\ b[1] = a
      /\ b[2] = IF b = Top(a) THEN "topup" ELSE "register"
      BY SMTT(60), <1>3 DEF Reg, Top
<1>5. /\ active' = (active \/ (b[2] = "register" /\ a \in initCell))
      /\ bounced' = IF active' THEN bounced ELSE bounced \cup {b}
      /\ balance' = IF active' /\ b[2] = "topup" THEN balance + topUp[a] ELSE balance
      BY Zenon, <1>4 DEF R!Arrive
<1>6. Sent(b)
      BY ZenonT(60), <1>1, <1>2 DEF Sent, R!Wallet!Executed
<1>7. rreply[b] # "none"
      BY ZenonT(60), <1>2, <1>6 DEF Logged
<1> HIDE DEF b
<1>8. active' \/ (b = Top(a) /\ Reg(a) \in rvoid)
  <2> SUFFICES ASSUME ~(b = Top(a) /\ Reg(a) \in rvoid) PROVE active'
      BY ZenonT(60)
  <2>1. CASE b = Reg(a)
    <3>1. active \/ a \in initCell
          BY ZenonT(60), <1>7, <2>1 DEF Deployed
    <3>2. b[2] = "register"
          BY ZenonT(60), <1>4, <2>1, Broadcasts2
    <3>3. QED
          BY ZenonT(60), <1>5, <3>1, <3>2
  <2>2. CASE b = Top(a)
    <3>1. PICK j \in 1 .. (arrived + 1) - 1 : rlog[j] = Reg(a)
          BY ZenonT(60), <1>2, <2>2 DEF Logged, b
    <3>2. R!Arrived(Reg(a))
          BY SMTT(60), <1>1, <3>1 DEF R!Arrived
    <3>3. QED
          BY ZenonT(60), <1>5, <3>2 DEF Deployed
  <2>3. QED
        BY ZenonT(60), <1>3, <2>1, <2>2 DEF b
<1>9. b = Top(a) => R!Outstanding(a)
  <2> SUFFICES ASSUME b = Top(a) PROVE R!Outstanding(a)
      BY ZenonT(60)
  <2>1. topUp[a] > 0 /\ (attempt[a] # "failed" \/ rreply[Top(a)] = "error")
        BY ZenonT(60), <1>7, Broadcasts2 DEF Asked, RegTypes
  <2>2. ~R!Arrived(Top(a))
    <3>1. SUFFICES ASSUME NEW i \in 1 .. arrived, rlog[i] = Top(a) PROVE FALSE
          BY ZenonT(60) DEF R!Arrived
    <3>2. i = arrived + 1
          BY SMTT(60), <1>1, <1>2, <3>1 DEF Logged, b
    <3>3. QED
          BY SMTT(60), <1>1, <3>1, <3>2
  <2>3. QED
        BY ZenonT(60), <2>1, <2>2 DEF R!Outstanding, Top
<1>10. \A c : R!Arrived(c)' <=> R!Arrived(c) \/ c = b
  <2>1. 1 .. arrived + 1 = (1 .. arrived) \cup {arrived + 1}
        BY SMTT(60), <1>1
  <2>2. QED
        BY ZenonT(60), <1>1, <2>1 DEF R!Arrived, b
<1>11. b \in R!Broadcasts /\ b \in {Reg(a), Top(a)} /\ rlog[arrived + 1] = b
      BY ZenonT(60), <1>2, <1>3 DEF b
<1>12. /\ active => active'
       /\ bounced' = IF active' THEN bounced ELSE bounced \cup {b}
       /\ balance' = IF active' /\ b = Top(a) THEN balance + topUp[a] ELSE balance
  <2>1. b[2] = "topup" <=> b = Top(a)
        BY ZenonT(60), <1>4
  <2>2. QED
        BY ZenonT(60), <1>5, <2>1
<1>13. QED
      BY ZenonT(60), <1>1, <1>8, <1>9, <1>10, <1>11, <1>12

\* The next message of the log arrives at the contract.
LEMMA ArriveKeeps ==
  ASSUME RegInv, R!Arrive
  PROVE  RegInv'
<1> USE DEF RegInv
<1>1. PICK a \in Attempts, b \in R!Broadcasts :
           /\ b \in {Reg(a), Top(a)}
           /\ arrived' = arrived + 1 /\ arrived < Len(rlog) /\ rlog[arrived + 1] = b
           /\ active => active'
           /\ active' \/ (b = Top(a) /\ Reg(a) \in rvoid)
           /\ bounced' = IF active' THEN bounced ELSE bounced \cup {b}
           /\ balance' = IF active' /\ b = Top(a) THEN balance + topUp[a] ELSE balance
           /\ b = Top(a) => R!Outstanding(a)
           /\ \A c : R!Arrived(c)' <=> R!Arrived(c) \/ c = b
           /\ UNCHANGED <<rlog, rvoid, rreply, attempt, topUp, initCell, charged, readCharged, blind>>
      BY ZenonT(60), ArriveSteps
<1>2. active' \in BOOLEAN
      BY ZenonT(60) DEF R!Arrive, RegTypes
<1>3. RegTypes'
      BY SMTT(60), <1>1, <1>2 DEF RegTypes
<1>4. \A c \in Attempts : Asked(c)'
      BY ZenonT(60), <1>1 DEF Asked, Reg, Top
<1>5. Logged'
      BY ZenonT(60), <1>1, SameLog DEF Logged, Reg, Top
<1>6. Deployed'
  <2>1. Reg(a)' = Reg(a) /\ \A c : Reg(c)' = Reg(c) /\ Top(c)' = Top(c)
        BY DEF Reg, Top
  <2>2. ASSUME NEW c \in Attempts, R!Arrived(Reg(c))' PROVE active'
    <3>1. R!Arrived(Reg(c)) \/ b = Reg(c)
          BY ZenonT(60), <1>1, <2>2 DEF R!Arrived, Reg
    <3>2. CASE R!Arrived(Reg(c))
          BY ZenonT(60), <1>1, <3>2 DEF Deployed
    <3>3. CASE b = Reg(c)
          BY ZenonT(60), <1>1, <3>3, Broadcasts2
    <3>4. QED
          BY ZenonT(60), <3>1, <3>2, <3>3
  <2>3. ASSUME NEW d \in bounced' PROVE \E c \in Attempts : d = Top(c) /\ Reg(c) \in rvoid
        BY ZenonT(60), <1>1, <2>3 DEF Deployed
  <2>4. ASSUME NEW c \in Attempts, attempt[c] = "register" \/ rreply[Reg(c)] # "none"
        PROVE  active' \/ c \in initCell
        BY ZenonT(60), <1>1, <2>4 DEF Deployed
  <2>5. QED
        BY ZenonT(60), <1>1, <2>1, <2>2, <2>3, <2>4 DEF Deployed
<1>7. balance' >= balance
      BY SMTT(60), <1>1 DEF RegTypes
<1>8. Funded'
  <2> SUFFICES ASSUME NEW c \in Attempts
               PROVE  /\ attempt[c] \in {"register", "registering", "topping", "registered"} \/ rreply[Reg(c)] # "none"
                           => balance' + charged + topUp[c] >= readCharged[c] + MinClientStake
                      /\ R!Arrived(Top(c))' /\ Top(c) \notin bounced'
                           => balance' + charged >= readCharged[c] + MinClientStake
      BY ZenonT(60), <1>1 DEF Funded, Reg, Top
  <2>1. /\ balance \in Nat /\ balance' \in Nat /\ charged \in Nat /\ topUp[c] \in Nat /\ readCharged[c] \in Nat
        /\ MinClientStake \in Nat
        BY ZenonT(60), <1>3, StakeAssumption DEF RegTypes
  <2>2. ASSUME attempt[c] \in {"register", "registering", "topping", "registered"} \/ rreply[Reg(c)] # "none"
        PROVE  balance' + charged + topUp[c] >= readCharged[c] + MinClientStake
    <3>1. balance + charged + topUp[c] >= readCharged[c] + MinClientStake
          BY ZenonT(60), <2>2 DEF Funded
    <3>2. QED
          BY SMTT(60), <1>7, <2>1, <3>1
  <2>3. ASSUME R!Arrived(Top(c))', Top(c) \notin bounced'
        PROVE  balance' + charged >= readCharged[c] + MinClientStake
    <3>1. CASE R!Arrived(Top(c))
      <4>0. Top(c) \notin bounced
            BY ZenonT(60), <1>1, <2>3
      <4>1. balance + charged >= readCharged[c] + MinClientStake
            BY ZenonT(60), <3>1, <4>0 DEF Funded
      <4>2. QED
            BY SMTT(60), <1>7, <2>1, <4>1
    <3>2. CASE ~R!Arrived(Top(c))
      <4>1. R!Arrived(Top(c))' <=> R!Arrived(Top(c)) \/ Top(c) = b
            BY ZenonT(60), <1>1 DEF Top, R!Arrived
      <4>2. b = Top(c) /\ c = a
            BY ZenonT(60), <1>1, <2>3, <3>2, <4>1, Broadcasts2
      <4>3. Sent(Top(c))
            BY SMTT(60), <1>1, <4>2 DEF Sent, R!Wallet!Executed, RegTypes
      <4>4. rreply[Top(c)] # "none"
            BY ZenonT(60), <4>3, Broadcasts2 DEF Logged
      <4>5. rreply[Reg(c)] # "none"
            BY ZenonT(60), <4>4 DEF Asked
      <4>6. balance + charged + topUp[c] >= readCharged[c] + MinClientStake
            BY ZenonT(60), <4>5 DEF Funded
      <4>7. balance' = balance + topUp[c]
            BY ZenonT(60), <1>1, <2>3, <4>2
      <4>8. QED
            BY SMTT(60), <2>1, <4>6, <4>7
    <3>3. QED
          BY ZenonT(60), <3>1, <3>2
  <2>4. QED
        BY ZenonT(60), <2>2, <2>3
<1>9. Exact'
  <2>1. \A c \in Attempts : R!Outstanding(c)' => R!Outstanding(c)
        BY ZenonT(60), <1>1 DEF R!Outstanding
  <2>2. CASE b = Top(a)
    <3>1. ~R!Outstanding(a)'
          BY ZenonT(60), <1>1, <2>2 DEF R!Outstanding, Top
    <3>2. blind' = {} => \A c \in Attempts : ~R!Outstanding(c)'
          BY ZenonT(60), <1>1, <2>1, <2>2, <3>1 DEF Exact
    <3>3. QED
          BY ZenonT(60), <3>2 DEF Exact
  <2>3. CASE b # Top(a)
    <3>1. balance' <= balance
          BY SMTT(60), <1>1, <2>3 DEF RegTypes
    <3>2. QED
          BY ZenonT(60), <1>1, <1>3, <2>1, <3>1, ExactKept
  <2>4. QED
        BY ZenonT(60), <2>2, <2>3
<1>10. QED
      BY ZenonT(60), <1>3, <1>4, <1>5, <1>6, <1>8, <1>9

\* The proxy charges the client.
LEMMA ChargeKeeps ==
  ASSUME RegInv, R!Charge
  PROVE  RegInv'
<1> USE DEF RegInv
<1>1. /\ balance' = balance - 1 /\ charged' = charged + 1 /\ balance > 0
      /\ UNCHANGED <<rlog, rvoid, rreply, attempt, topUp, initCell, arrived, active, bounced, readCharged, blind>>
      BY ZenonT(60) DEF R!Charge, R!attemptVars, R!history
<1>2. RegTypes'
      BY SMTT(60), <1>1 DEF RegTypes
<1>3. balance' + charged' = balance + charged /\ balance' <= balance
      BY SMTT(60), <1>1 DEF RegTypes
<1>4. /\ \A b : Sent(b)' <=> Sent(b)
      /\ \A b : R!Arrived(b)' <=> R!Arrived(b)
      BY ZenonT(60), <1>1, SameLog
<1>5. (\A a \in Attempts : Asked(a)') /\ Logged' /\ Deployed'
      BY ZenonT(60), <1>1, <1>4 DEF Asked, Logged, Deployed, Reg, Top
<1>6. Funded'
      BY ZenonT(60), <1>1, <1>3, <1>4 DEF Funded, Reg, Top
<1>7. Exact'
  <2>1. \A a \in Attempts : R!Outstanding(a)' => R!Outstanding(a)
        BY ZenonT(60), <1>1, <1>4 DEF R!Outstanding
  <2>2. QED
        BY ZenonT(60), <1>1, <1>2, <1>3, <2>1, ExactKept
<1>8. QED
      BY ZenonT(60), <1>2, <1>5, <1>6, <1>7

\* Every step of an attempt, of the wallet and of the contract.
LEMMA RegNext == RegInv /\ [R!Next]_(R!vars) => RegInv'
<1> SUFFICES ASSUME RegInv, [R!Next]_(R!vars) PROVE RegInv'
    OBVIOUS
<1>1. ASSUME NEW a \in Attempts, R!Attempt(a) PROVE RegInv'
      BY ZenonT(60), <1>1, ReadKeeps, AttemptKeeps DEF R!Attempt
<1>2. CASE UNCHANGED R!vars
  <2>1. UNCHANGED <<rlog, rvoid, rreply, attempt, topUp, initCell, arrived, active, balance, charged, bounced,
                    readCharged, blind>>
        BY <1>2 DEF R!vars, R!attemptVars, R!contractVars, R!history
  <2>2. QED
        BY ZenonT(60), <2>1, SameLog DEF RegInv, RegTypes, Asked, Logged, Deployed, Funded, Exact, R!Outstanding, Reg, Top
<1>3. QED
      BY ZenonT(60), <1>1, <1>2, WalletKeeps, ArriveKeeps, ChargeKeeps DEF R!Next

\* registerOnChain: what it returns without an error for is in the contract, up to
\* the charges, or on the way, and no message of any attempt bounces, unless a
\* wallet transaction sent nothing, which the broadcaster takes for success; for
\* any number of overlapping attempts, stakes and charges.
THEOREM StakeIsThere == R!Spec => []StakeReached
<1>1. ASSUME RegInv PROVE StakeReached
  <2> USE <1>1 DEF RegInv
  <2>1. ASSUME NEW a \in Attempts, attempt[a] = "registered", ~(Sent(Top(a)) /\ ~R!Arrived(Top(a))),
               ~(Top(a) \in rvoid /\ ~Sent(Top(a))), Top(a) \notin bounced
        PROVE  balance + (charged - readCharged[a]) >= MinClientStake
    <3>1. balance + charged >= readCharged[a] + MinClientStake
      <4>1. CASE topUp[a] = 0
            BY SMTT(60), <2>1, <4>1 DEF Funded, RegTypes
      <4>2. CASE topUp[a] # 0
        <5>1. rreply[Top(a)] = "ok"
              BY ZenonT(60), <2>1, <4>2 DEF Asked
        <5>2. Sent(Top(a))
              BY ZenonT(60), <2>1, <5>1, Broadcasts2 DEF Logged
        <5>3. QED
              BY ZenonT(60), <2>1, <5>2 DEF Funded
      <4>3. QED
            BY ZenonT(60), <4>1, <4>2
    <3>2. QED
          BY SMTT(60), <3>1, StakeAssumption DEF RegTypes
  <2>2. ASSUME NEW b \in bounced PROVE b[2] = "topup" /\ <<b[1], "register">> \in rvoid
    <3>1. PICK a \in Attempts : b = <<a, "topup">> /\ <<a, "register">> \in rvoid
          BY ZenonT(60), <2>2 DEF Deployed, Reg, Top
    <3>2. b[1] = a /\ b[2] = "topup"
          BY SMTT(60), <3>1
    <3>3. QED
          BY ZenonT(60), <3>1, <3>2
  <2>3. QED
        BY ZenonT(60), <2>1, <2>2 DEF StakeReached, R!StakeReached, Sent, Top
<1>2. QED
      BY <1>1, RegInit, RegNext, PTL DEF R!Spec

\* registerOnChain: no top-up lifts the channel above the minimum stake, unless
\* some attempt read the balance while another top-up was outstanding, or could
\* not read it.
THEOREM OverpaysNever == R!Spec => NeverOverpays
<1>1. ASSUME RegInv, [R!Next]_(R!vars)
      PROVE  [blind' = {} /\ balance' > balance => balance' <= MinClientStake]_(R!vars)
  <2> SUFFICES ASSUME R!Next, blind' = {}, balance' > balance PROVE balance' <= MinClientStake
      BY ZenonT(60), <1>1
  <2> USE <1>1 DEF RegInv
  <2>1. R!Arrive
    <3>1. ASSUME ~R!Arrive PROVE balance' <= balance
      <4>1. CASE R!Charge
            BY SMTT(60), <4>1 DEF R!Charge, RegTypes
      <4>2. CASE UNCHANGED balance
            BY <4>2 DEF RegTypes
      <4>3. R!Charge \/ UNCHANGED balance
            BY ZenonT(60), <3>1 DEF R!Next, R!WalletStep, R!Attempt, R!ReadAccount, R!Refuse, R!Register, R!Registered,
                        R!ToppedUp, R!Broadcast, R!Stop, R!contractVars
      <4>4. QED
            BY ZenonT(60), <4>1, <4>2, <4>3
    <3>2. ~(balance' <= balance)
      <4>1. RegTypes'
            BY ZenonT(60), <1>1, RegNext
      <4>2. QED
            BY SMTT(60), <4>1 DEF RegTypes
    <3>3. QED
          BY ZenonT(60), <3>1, <3>2
  <2>2. PICK a \in Attempts, b \in R!Broadcasts :
           /\ balance' = IF active' /\ b = Top(a) THEN balance + topUp[a] ELSE balance
           /\ b = Top(a) => R!Outstanding(a)
           /\ UNCHANGED blind
        BY ZenonT(60), <2>1, ArriveSteps
  <2>3. b = Top(a) /\ balance' = balance + topUp[a]
    <3>1. balance \in Nat
          BY ZenonT(60) DEF RegTypes
    <3>2. balance' # balance
          BY SMTT(60), <3>1
    <3>3. QED
          BY ZenonT(60), <2>2, <3>2
  <2>4. QED
        BY ZenonT(60), <2>2, <2>3 DEF Exact
<1>2. QED
      BY <1>1, RegInit, RegNext, PTL DEF R!Spec, NeverOverpays, R!NeverOverpays

----------------------------------------------------------------------------
(* Channel commands, on top of any WalletService.                          *)

\* The wallet has a transaction of r.
Ran(r) == C!Wallet!Confirmed(r)

\* The message of a request is the one it asked for.
AsAsked(r) == order[r].dest = req[r].sc /\ order[r].op = req[r].verb

ChanTypes ==
  /\ clog \in Seq(Requests) /\ cvoid \in SUBSET Requests
  /\ creply \in [Requests -> {"none", "pending", "ok", "error"}]
  /\ DOMAIN req = Requests /\ DOMAIN order = Requests
  /\ serving \in [Requests -> {"idle", "asked", "sending", "done"}]
  /\ answer \in [Requests -> {"none", "sent", "failed"}]

\* A message is built once, for the contract the request named when it was made,
\* and the answer waits for what the broadcaster says of that message.
ChanInv ==
  /\ ChanTypes
  /\ \A r \in Requests : creply[r] = "ok" => Ran(r)
  /\ \A r \in Requests : serving[r] = "sending" => AsAsked(r)
  /\ \A r \in Requests : answer[r] = "sent" => serving[r] = "done" /\ AsAsked(r) /\ Ran(r)

\* No request has been made.
LEMMA ChanInit == C!Init => ChanInv
<1> SUFFICES ASSUME C!Init PROVE ChanInv
    OBVIOUS
<1>1. clog = <<>>
      BY DEF C!Init, C!Wallet!WalletInit
<1>2. clog \in Seq(Requests) /\ cvoid \in SUBSET Requests
      BY <1>1 DEF C!Init, C!Wallet!WalletInit
<1>3. QED
      BY ZenonT(60), <1>2 DEF C!Init, C!Wallet!WalletInit, ChanInv, ChanTypes

\* Every step of the operator, of the runner and of the wallet.
LEMMA ChanNext == ChanInv /\ [C!Next]_(C!vars) => ChanInv'
<1> SUFFICES ASSUME ChanInv, [C!Next]_(C!vars) PROVE ChanInv'
    OBVIOUS
<1> USE DEF ChanInv
<1>1. UNCHANGED <<clog, cvoid>> => \A r : Ran(r)' <=> Ran(r)
      BY ZenonT(60) DEF Ran, C!Wallet!Confirmed, C!Wallet!Executed
<1>2. ASSUME NEW r \in Requests, C!cmdChannelRequest(r) \/ C!SessionSend(r) PROVE ChanInv'
  <2>1. /\ serving[r] = "idle" /\ UNCHANGED <<clog, cvoid, creply, order>>
        /\ \E q : req' = [req EXCEPT ![r] = q]
        /\ \E w \in {"asked", "done"} : serving' = [serving EXCEPT ![r] = w]
        /\ answer' = answer \/ answer' = [answer EXCEPT ![r] = "failed"]
        BY ZenonT(60), <1>2 DEF C!cmdChannelRequest, C!SessionSend, C!Turn, C!walletVars, ChanTypes
  <2>2. answer[r] # "sent"
        BY ZenonT(60), <2>1
  <2>3. \A q \in Requests \ {r} : req'[q] = req[q] /\ serving'[q] = serving[q] /\ answer'[q] = answer[q]
        BY ZenonT(60), <2>1 DEF ChanTypes
  <2>4. serving'[r] # "sending" /\ answer'[r] # "sent"
        BY ZenonT(60), <2>1, <2>2 DEF ChanTypes
  <2>5. ChanTypes'
        BY <2>1 DEF ChanTypes
  <2>6. QED
        BY SMTT(60), <1>1, <2>1, <2>3, <2>4, <2>5 DEF AsAsked
<1>3. ASSUME NEW r \in Requests, C!requestHandler(r) PROVE ChanInv'
  <2>1. serving[r] = "asked" /\ UNCHANGED <<clog, cvoid, req>> /\ answer[r] # "sent"
        BY ZenonT(60), <1>3 DEF C!requestHandler, C!Refused, C!Wallet!Ask, C!walletVars
  <2>2. CASE C!Refused(r)
    <3>1. /\ serving' = [serving EXCEPT ![r] = "done"] /\ answer' = [answer EXCEPT ![r] = "failed"]
          /\ UNCHANGED <<creply, order>>
          BY ZenonT(60), <2>2 DEF C!Refused, C!walletVars
    <3>2. ChanTypes'
          BY ZenonT(60), <2>1, <3>1 DEF ChanTypes
    <3>3. QED
          BY ZenonT(60), <1>1, <2>1, <3>1, <3>2 DEF AsAsked, ChanTypes
  <2>3. CASE ~C!Refused(r)
    <3>1. /\ creply[r] = "none" /\ creply' = [creply EXCEPT ![r] = "pending"]
          /\ order' = [order EXCEPT ![r] = C!Message(req[r])]
          /\ serving' = [serving EXCEPT ![r] = "sending"] /\ UNCHANGED answer
          BY ZenonT(60), <1>3, <2>3 DEF C!requestHandler, C!Wallet!Ask
    <3>2. ChanTypes'
          BY <2>1, <3>1 DEF ChanTypes
    <3>3. AsAsked(r)'
          BY ZenonT(60), <2>1, <3>1 DEF AsAsked, C!Message, ChanTypes
    <3>4. \A q \in Requests \ {r} : order'[q] = order[q] /\ serving'[q] = serving[q] /\ creply'[q] = creply[q]
          BY ZenonT(60), <3>1 DEF ChanTypes
    <3>5. creply'[r] = "pending"
          BY <3>1 DEF ChanTypes
    <3>6. QED
          BY SMTT(60), <1>1, <2>1, <3>1, <3>2, <3>3, <3>4, <3>5 DEF AsAsked
  <2>4. QED
        BY ZenonT(60), <2>2, <2>3
<1>4. ASSUME NEW r \in Requests, C!Answer(r) PROVE ChanInv'
  <2>1. /\ serving[r] = "sending" /\ serving' = [serving EXCEPT ![r] = "done"]
        /\ answer' = [answer EXCEPT ![r] = IF creply[r] = "ok" THEN "sent" ELSE "failed"]
        /\ UNCHANGED <<clog, cvoid, creply, req, order>>
        BY <1>4 DEF C!Answer, C!walletVars
  <2>2. ChanTypes'
        BY ZenonT(60), <2>1 DEF ChanTypes
  <2>3. QED
        BY ZenonT(60), <1>1, <2>1, <2>2 DEF AsAsked, ChanTypes
<1>5. CASE C!WalletStep
  <2>1. UNCHANGED <<req, serving, order, answer>>
        BY ZenonT(60), <1>5 DEF C!WalletStep
  <2>2. PICK r \in Requests :
          C!Wallet!Execute(r) \/ C!Wallet!SendNothing(r) \/ C!Wallet!Succeed(r) \/ C!Wallet!Fail(r)
        BY ZenonT(60), <1>5 DEF C!WalletStep
  <2>3. CASE C!Wallet!Execute(r)
    <3>1. clog' = Append(clog, r) /\ UNCHANGED <<cvoid, creply>>
          BY ZenonT(60), <2>3 DEF C!Wallet!Execute
    <3>2. /\ clog' \in Seq(Requests)
          /\ DOMAIN clog = 1 .. Len(clog) /\ DOMAIN clog' = 1 .. Len(clog) + 1
          /\ \A i \in 1 .. Len(clog) : clog'[i] = clog[i]
          /\ Len(clog) \in Nat
          BY SMTT(60), <3>1, Appending DEF ChanTypes
    <3>3. \A q : Ran(q) => Ran(q)'
      <4>1. \A q : C!Wallet!Executed(q) => C!Wallet!Executed(q)'
            BY SMTT(60), <3>2 DEF C!Wallet!Executed
      <4>2. QED
            BY ZenonT(60), <3>1, <4>1 DEF Ran, C!Wallet!Confirmed
    <3>4. QED
          BY ZenonT(60), <2>1, <3>1, <3>2, <3>3 DEF AsAsked, ChanTypes
  <2>3a. CASE C!Wallet!SendNothing(r)
    <3>1. cvoid' = cvoid \cup {r} /\ UNCHANGED <<clog, creply>>
          BY ZenonT(60), <2>3a DEF C!Wallet!SendNothing
    <3>2. \A q : Ran(q) => Ran(q)'
          BY ZenonT(60), <3>1 DEF Ran, C!Wallet!Confirmed, C!Wallet!Executed
    <3>3. QED
          BY ZenonT(60), <2>1, <3>1, <3>2 DEF AsAsked, ChanTypes
  <2>4. CASE C!Wallet!Succeed(r) \/ C!Wallet!Fail(r)
    <3>1. /\ UNCHANGED <<clog, cvoid>>
          /\ \/ creply' = [creply EXCEPT ![r] = "ok"] /\ Ran(r)
             \/ creply' = [creply EXCEPT ![r] = "error"]
          BY ZenonT(60), <2>4 DEF C!Wallet!Succeed, C!Wallet!Fail, Ran
    <3>2. QED
          BY ZenonT(60), <1>1, <2>1, <3>1 DEF AsAsked, ChanTypes
  <2>5. QED
        BY ZenonT(60), <2>2, <2>3, <2>3a, <2>4
<1>6. CASE C!RunnerMoves \/ UNCHANGED C!vars
  <2>1. UNCHANGED <<clog, cvoid, creply, req, serving, order, answer>>
        BY ZenonT(60), <1>6 DEF C!RunnerMoves, C!vars, C!walletVars
  <2>2. QED
        BY ZenonT(60), <1>1, <2>1 DEF AsAsked, ChanTypes
<1>7. QED
      BY ZenonT(60), <1>2, <1>3, <1>4, <1>5, <1>6 DEF C!Next, C!Serve

\* A command answered "Request sent" has a transaction of the wallet, for the
\* contract and with the operation it named; for any number of commands and
\* amounts.
THEOREM SentIsConfirmed == C!Spec => []SentMeansConfirmed
<1>1. ChanInv => SentMeansConfirmed
      BY ZenonT(60) DEF ChanInv, SentMeansConfirmed, C!SentMeansConfirmed, AsAsked, Ran
<1>2. QED
      BY <1>1, ChanInit, ChanNext, PTL DEF C!Spec

----------------------------------------------------------------------------
(* The cells of the contracts.                                             *)

\* What registerOnChain deploys with the parameters s it has read.
Derived(s) == K!BuildStateInit(K!DeployStorage(s), s.codes[3])

RootTypes ==
  /\ root \in [version : Versions, val : [K!Fields -> Int], codes : [1 .. 3 -> Codes \cup {K!None}]]
  /\ \A f \in K!Fields : f \notin K!Range(K!Layout(root.version)) => root.val[f] = K!None

\* While nothing changed, the parameters give the announced address, first those
\* of the root, then those that were read; storage keeps the kinds of its fields.
CellInv ==
  /\ RootTypes
  /\ place \in {"announce", "load", "derive", "registered", "mismatch", "refused"}
  /\ place = "load" /\ ~changed => announced = K!Expected(root)
  /\ place = "derive" /\ ~changed => announced = Derived(snap)
  /\ place = "derive" => /\ snap.version \in 0 .. 5
                         /\ snap.version = 0 => snap.val["min_client_stake"] = K!None
  /\ K!AddressAgrees
  /\ account # <<>> \/ place = "registered" =>
       \E state, bal, stake, tokens, unlock, const, params :
         account = K!StorageCell(state, bal, stake, tokens, unlock, const, params)

\* Sequences are equal that agree in length and in every place.
LEMMA SameSeq ==
  ASSUME NEW S, NEW s \in Seq(S), NEW t \in Seq(S), Len(s) = Len(t),
         \A i \in 1 .. Len(s) : s[i] = t[i]
  PROVE  s = t
OBVIOUS

\* Nothing is appended.
LEMMA ConcatEmpty == ASSUME NEW S, NEW s \in Seq(S) PROVE s \o <<>> = s
OBVIOUS

\* Two fields appended one after the other.
LEMMA ConcatTwo ==
  ASSUME NEW S, NEW s \in Seq(S), NEW a \in S, NEW b \in S
  PROVE  (s \o <<a>>) \o <<b>> = s \o <<a, b>>
<1> DEFINE l == (s \o <<a>>) \o <<b>>
           r == s \o <<a, b>>
<1>1. l \in Seq(S) /\ r \in Seq(S) /\ Len(l) = Len(s) + 2 /\ Len(r) = Len(s) + 2 /\ Len(s) \in Nat
      BY SMTT(60)
<1>2. /\ \A i \in 1 .. Len(s) : l[i] = s[i] /\ r[i] = s[i]
      /\ l[Len(s) + 1] = a /\ r[Len(s) + 1] = a
      /\ l[Len(s) + 2] = b /\ r[Len(s) + 2] = b
      BY SMTT(60)
<1> HIDE DEF l, r
<1>3. \A i \in 1 .. Len(l) : l[i] = r[i]
      BY SMTT(60), <1>1, <1>2
<1>4. l = r
      BY ZenonT(60), <1>1, <1>3, SameSeq
<1>5. QED
      BY ZenonT(60), <1>4 DEF l, r

FourJoin(s, a, b, c, d) == (((s \o <<a>>) \o <<b>>) \o <<c>>) \o <<d>> = s \o <<a, b, c, d>>

\* Four fields appended one after the other.
LEMMA ConcatFour ==
  ASSUME NEW S, NEW s \in Seq(S), NEW a \in S, NEW b \in S, NEW c \in S, NEW d \in S
  PROVE  FourJoin(s, a, b, c, d)
<1> DEFINE l == ((s \o <<a, b>>) \o <<c>>) \o <<d>>
           r == s \o <<a, b, c, d>>
<1>1. l \in Seq(S) /\ r \in Seq(S) /\ Len(l) = Len(s) + 4 /\ Len(r) = Len(s) + 4 /\ Len(s) \in Nat
      OBVIOUS
<1>2. /\ \A i \in 1 .. Len(s) : l[i] = s[i] /\ r[i] = s[i]
      /\ l[Len(s) + 1] = a /\ r[Len(s) + 1] = a
      /\ l[Len(s) + 2] = b /\ r[Len(s) + 2] = b
      /\ l[Len(s) + 3] = c /\ r[Len(s) + 3] = c
      /\ l[Len(s) + 4] = d /\ r[Len(s) + 4] = d
      OBVIOUS
<1> HIDE DEF l, r
<1>3. \A i \in 1 .. Len(l) : l[i] = r[i]
      BY SMTT(60), <1>1, <1>2
<1>4. l = r
      BY <1>1, <1>3, SameSeq
<1>5. QED
      BY ZenonT(60), <1>4, ConcatTwo DEF l, r, FourJoin

\* The fields a cell may have.
LEMMA FieldNames ==
  /\ "params_version" \in K!Fields /\ "unique_id" \in K!Fields /\ "is_test" \in K!Fields
  /\ "price" \in K!Fields /\ "fee" \in K!Fields /\ "prompt" \in K!Fields /\ "cached" \in K!Fields
  /\ "completion" \in K!Fields /\ "reasoning" \in K!Fields /\ "proxy_delay" \in K!Fields
  /\ "client_delay" \in K!Fields /\ "min_proxy_stake" \in K!Fields /\ "min_client_stake" \in K!Fields
BY ZenonT(60) DEF K!Fields, K!Kind

\* A field that is there on a condition.
LEMMA WhenIs == \A b, s : (b => K!When(b, s) = s) /\ (~b => K!When(b, s) = <<>>)
BY Zenon DEF K!When

\* parseParamsCell reads the fields in the order in which the root stores them, in
\* every struct version.
LEMMA OrderIsLayout ==
  ASSUME NEW v \in Nat
  PROVE  K!ParseOrder(v) = K!Layout(v) /\ K!Layout(v) \in Seq(K!Fields)
<1> DEFINE B == <<"params_version", "unique_id", "is_test", "price", "fee">>
           D == <<"proxy_delay", "client_delay">>
           M == K!When(v >= 1, <<"min_proxy_stake", "min_client_stake">>)
           P == B \o K!When(v >= 3, <<"prompt">>) \o K!When(v >= 2, <<"cached">>)
                  \o K!When(v >= 3, <<"completion">>) \o K!When(v >= 2, <<"reasoning">>)
           L == B \o (IF v >= 3 THEN <<"prompt", "cached", "completion", "reasoning">>
                      ELSE K!When(v = 2, <<"cached", "reasoning">>))
<1>1. K!ParseOrder(v) = P \o D \o M /\ K!Layout(v) = L \o D \o M
      BY DEF K!ParseOrder, K!Layout
<1>2. B \in Seq(K!Fields) /\ D \in Seq(K!Fields)
      BY FieldNames
<1>3. M \in Seq(K!Fields)
  <2>1. <<"min_proxy_stake", "min_client_stake">> \in Seq(K!Fields) /\ <<>> \in Seq(K!Fields)
        BY FieldNames
  <2>2. QED
        BY Zenon, <2>1, WhenIs
<1> HIDE DEF B, D, M
<1>4. P = L /\ L \in Seq(K!Fields)
  <2>1. CASE v < 2
    <3>1. ~(v >= 3) /\ ~(v >= 2) /\ v # 2
          BY <2>1
    <3>2. P = (((B \o <<>>) \o <<>>) \o <<>>) \o <<>> /\ L = B \o <<>>
          BY Zenon, <3>1, WhenIs
    <3>3. B \o <<>> = B
          BY ZenonT(60), <1>2, ConcatEmpty
    <3> HIDE DEF P, L
    <3>4. QED
          BY Zenon, <1>2, <3>2, <3>3
  <2>2. CASE v = 2
    <3>1. ~(v >= 3) /\ v >= 2
          BY <2>2
    <3>2. P = (((B \o <<>>) \o <<"cached">>) \o <<>>) \o <<"reasoning">> /\ L = B \o <<"cached", "reasoning">>
          BY Zenon, <2>2, <3>1, WhenIs
    <3> HIDE DEF P, L
    <3>3. B \o <<"cached">> \in Seq(K!Fields) /\ B \o <<"cached", "reasoning">> \in Seq(K!Fields)
          BY SMTT(60), <1>2, FieldNames
    <3>4. B \o <<>> = B /\ (B \o <<"cached">>) \o <<>> = B \o <<"cached">>
          BY ZenonT(60), <1>2, <3>3, ConcatEmpty
    <3>5. (B \o <<"cached">>) \o <<"reasoning">> = B \o <<"cached", "reasoning">>
          BY SMTT(60), <1>2, FieldNames, ConcatTwo
    <3>6. QED
          BY Zenon, <3>2, <3>3, <3>4, <3>5
  <2>3. CASE v > 2
    <3>1. v >= 3 /\ v >= 2
          BY <2>3
    <3>2. /\ P = (((B \o <<"prompt">>) \o <<"cached">>) \o <<"completion">>) \o <<"reasoning">>
          /\ L = B \o <<"prompt", "cached", "completion", "reasoning">>
          BY Zenon, <3>1, WhenIs
    <3> HIDE DEF P, L
    <3>3. L \in Seq(K!Fields)
          BY SMTT(60), <1>2, <3>2, FieldNames
    <3>4. (((B \o <<"prompt">>) \o <<"cached">>) \o <<"completion">>) \o <<"reasoning">>
            = B \o <<"prompt", "cached", "completion", "reasoning">>
      <4>1. FourJoin(B, "prompt", "cached", "completion", "reasoning")
            BY ZenonT(60), <1>2, FieldNames, ConcatFour
      <4>2. QED
            BY ZenonT(60), <4>1 DEF FourJoin
    <3>5. QED
          BY Zenon, <3>2, <3>3, <3>4
  <2>4. v < 2 \/ v = 2 \/ v > 2
        OBVIOUS
  <2>5. QED
        BY Zenon, <2>1, <2>2, <2>3, <2>4
<1> HIDE DEF P, L
<1>5. L \o D \o M \in Seq(K!Fields)
      BY SMTT(60), <1>2, <1>3, <1>4
<1>6. QED
      BY ZenonT(60), <1>1, <1>4, <1>5

\* Both encoders write the parameters as the root does.
LEMMA EncodeIsChain ==
  ASSUME NEW s, s.version \in Nat
  PROVE  K!encodeParamsCell(s, FALSE) = K!ChainCell(s, K!NoCodes)
<1>1. K!encodeParamsCell(s, FALSE) =
        <<<<"u8", s.version>>>> \o K!Store(s.val, K!ParseOrder(s.version)) \o K!Refs(K!NoCodes)
      BY ZenonT(60) DEF K!encodeParamsCell, K!ParseOrder
<1>2. QED
      BY ZenonT(60), <1>1, OrderIsLayout DEF K!ChainCell

\* c is x, then s, then t.
Joined(c, x, s, t) ==
  /\ Len(c) = 1 + Len(s) + Len(t) /\ Len(Tail(c)) = Len(s) + Len(t)
  /\ c[1] = x
  /\ \A i \in 1 .. Len(s) : Tail(c)[i] = s[i]
  /\ \A i \in 1 .. Len(t) : c[Len(s) + 1 + i] = t[i]

\* Three fields appended one after the other.
LEMMA ConcatThree ==
  ASSUME NEW S, NEW x \in S, NEW s \in Seq(S), NEW t \in Seq(S)
  PROVE  Joined((<<x>> \o s) \o t, x, s, t)
BY SMTT(60) DEF Joined

\* LoadStateSnapshot reads what the root holds.
LEMMA ParseIsRoot ==
  ASSUME RootTypes, NEW s, s = K!parseParamsCell(K!ChainCell(root, root.codes)), s # K!Err
  PROVE  s = root /\ root.version \in 0 .. 5
<1> DEFINE v == root.version
           L == K!Layout(v)
           cell == K!ChainCell(root, root.codes)
           st == K!Store(root.val, L)
           rf == K!Refs(root.codes)
           S == {<<"u8", v>>} \cup {st[i] : i \in 1 .. Len(L)} \cup {rf[i] : i \in 1 .. 3}
<1>1. v \in Nat /\ v \in 0 .. 255
  <2>1. v \in Versions
        BY DEF RootTypes
  <2> HIDE DEF v
  <2>2. QED
        BY SMTT(60), <2>1, VersionAssumption
<1>2. L \in Seq(K!Fields) /\ K!ParseOrder(v) = L
      BY Zenon, <1>1, OrderIsLayout
<1>3. DOMAIN L = 1 .. Len(L) /\ Len(L) \in Nat /\ \A i \in 1 .. Len(L) : L[i] \in K!Fields
      BY SMTT(60), <1>2
<1>4. cell = (<<<<"u8", v>>>> \o st) \o rf
      BY ZenonT(60) DEF K!ChainCell
<1> HIDE DEF L
<1>5. /\ st = [i \in 1 .. Len(L) |-> <<K!Kind[L[i]], root.val[L[i]]>>]
      /\ rf = [i \in 1 .. 3 |-> <<"ref", root.codes[i]>>]
      BY ZenonT(60), <1>3 DEF K!Store, K!Refs
<1> HIDE DEF st, rf, cell
<1>6. st \in Seq(S) /\ rf \in Seq(S) /\ Len(st) = Len(L) /\ Len(rf) = 3 /\ <<"u8", v>> \in S
      BY SMTT(60), <1>3, <1>5
<1> HIDE DEF S
<1>7. /\ Len(cell) = 1 + Len(L) + 3 /\ Len(Tail(cell)) = Len(L) + 3
      /\ cell[1] = <<"u8", v>>
      /\ \A i \in 1 .. Len(L) : Tail(cell)[i] = st[i]
      /\ \A i \in 1 .. 3 : cell[Len(L) + 1 + i] = rf[i]
  <2>1. Joined(cell, <<"u8", v>>, st, rf)
        BY ZenonT(60), <1>4, <1>6, ConcatThree
  <2>2. QED
        BY ZenonT(60), <1>6, <2>1 DEF Joined
<1>8. K!Load(Tail(cell), L) = root.val
  <2>1. \A i \in 1 .. Len(L) : Tail(cell)[i][1] = K!Kind[L[i]] /\ Tail(cell)[i][2] = root.val[L[i]]
    <3>1. \A i \in 1 .. Len(L) : st[i] = <<K!Kind[L[i]], root.val[L[i]]>>
          BY ZenonT(60), <1>5
    <3>2. QED
          BY SMTT(60), <1>7, <3>1
  <2>2. ~(Len(Tail(cell)) < Len(L))
        BY SMTT(60), <1>3, <1>7
  <2> DEFINE at(f) == CHOOSE i \in DOMAIN L : L[i] = f
  <2>3. K!Load(Tail(cell), L) =
          [f \in K!Fields |-> IF f \in K!Range(L) THEN Tail(cell)[at(f)][2] ELSE K!None]
        BY Zenon, <1>3, <2>1, <2>2 DEF K!Load
  <2>4. ASSUME NEW f \in K!Fields, f \in K!Range(L) PROVE Tail(cell)[at(f)][2] = root.val[f]
    <3>1. \E i \in DOMAIN L : L[i] = f
          BY ZenonT(60), <2>4 DEF K!Range
    <3>2. at(f) \in DOMAIN L /\ L[at(f)] = f
          BY ZenonT(60), <3>1
    <3>3. QED
          BY ZenonT(60), <1>3, <2>1, <3>2
  <2>5. ASSUME NEW f \in K!Fields, f \notin K!Range(L) PROVE root.val[f] = K!None
        BY ZenonT(60), <2>5 DEF RootTypes, L
  <2> HIDE DEF at
  <2>6. root.val = [f \in K!Fields |-> root.val[f]]
        BY ZenonT(60) DEF RootTypes
  <2>7. QED
        BY ZenonT(60), <2>3, <2>4, <2>5, <2>6
<1>9. [i \in 1 .. 3 |-> cell[Len(L) + 1 + i][2]] = root.codes
  <2>1. \A i \in 1 .. 3 : cell[Len(L) + 1 + i][2] = root.codes[i]
        BY SMTT(60), <1>5, <1>7
  <2>2. root.codes = [i \in 1 .. 3 |-> root.codes[i]]
        BY DEF RootTypes
  <2>3. QED
        BY ZenonT(60), <2>1, <2>2
<1>10. v <= 5 /\ s = [version |-> v, val |-> root.val, codes |-> root.codes]
  <2>1. cell[1][2] = v
        BY SMTT(60), <1>7
  <2>2. s = IF v > 5 \/ K!Load(Tail(cell), L) = K!Err \/ Len(cell) < Len(L) + 1 + 3 THEN K!Err
            ELSE [version |-> v, val |-> K!Load(Tail(cell), L),
                  codes |-> [i \in 1 .. 3 |-> cell[Len(L) + 1 + i][2]]]
        BY ZenonT(60), <1>2, <2>1 DEF K!parseParamsCell, cell
  <2>3. ~(v > 5)
        BY ZenonT(60), <2>2
  <2>4. v <= 5
        BY SMTT(60), <1>1, <2>3
  <2>5. QED
        BY Zenon, <1>8, <1>9, <2>2, <2>4
<1>11. QED
      BY SMTT(60), <1>1, <1>10 DEF RootTypes

\* Parameters as the root holds them give the address the proxy expects.
LEMMA DerivedIsExpected ==
  ASSUME NEW s, s.version \in Nat PROVE Derived(s) = K!Expected(s)
BY ZenonT(60), EncodeIsChain DEF Derived, K!BuildStateInit, K!DeployStorage, K!EncodeStorage, K!Expected, K!StorageCell

\* A root of struct version 0 has no stake.
LEMMA NoStakeIn0 == RootTypes /\ root.version = 0 => root.val["min_client_stake"] = K!None
<1> SUFFICES ASSUME RootTypes, root.version = 0 PROVE root.val["min_client_stake"] = K!None
    OBVIOUS
<1> DEFINE B == <<"params_version", "unique_id", "is_test", "price", "fee">>
           D == <<"proxy_delay", "client_delay">>
<1>1. K!Layout(0) = ((B \o <<>>) \o D) \o <<>>
  <2>1. ~(0 >= 3) /\ 0 # 2 /\ ~(0 >= 1)
        BY SMTT(60)
  <2>2. QED
        BY Zenon, <2>1, WhenIs DEF K!Layout
<1>2. B \in Seq(K!Fields) /\ D \in Seq(K!Fields) /\ B \o D \in Seq(K!Fields)
      BY SMTT(60), FieldNames
<1>3. K!Layout(0) = B \o D
      BY ZenonT(60), <1>1, <1>2, ConcatEmpty
<1>4. \A i \in 1 .. Len(B \o D) : (B \o D)[i] # "min_client_stake"
  <2>1. Len(B) = 5 /\ Len(D) = 2
        OBVIOUS
  <2>2. \A i \in 1 .. 5 : B[i] # "min_client_stake"
        OBVIOUS
  <2>3. \A i \in 1 .. 2 : D[i] # "min_client_stake"
        BY SMTT(60)
  <2> HIDE DEF B, D
  <2>4. /\ Len(B \o D) = Len(B) + Len(D)
        /\ \A i \in 1 .. Len(B) + Len(D) : (B \o D)[i] = IF i <= Len(B) THEN B[i] ELSE D[i - Len(B)]
        BY SMTT(60), <1>2
  <2>5. QED
        BY SMTT(60), <2>1, <2>2, <2>3, <2>4
<1> HIDE DEF B, D
<1>5. "min_client_stake" \notin K!Range(K!Layout(0))
      BY SMTT(60), <1>2, <1>3, <1>4 DEF K!Range
<1>6. QED
      BY ZenonT(60), <1>5, FieldNames DEF RootTypes

\* The parameters the root begins with.
LEMMA InitialTypes ==
  ASSUME NEW v \in Nat
  PROVE  /\ K!InitialVal(v) \in [K!Fields -> Int]
         /\ \A f \in K!Fields : f \notin K!Range(K!Layout(v)) => K!InitialVal(v)[f] = K!None
<1>1. K!Layout(v) \in Seq(K!Fields)
      BY ZenonT(60), OrderIsLayout
<1> DEFINE at(f) == CHOOSE i \in DOMAIN K!Layout(v) : K!Layout(v)[i] = f
<1>2. ASSUME NEW f \in K!Range(K!Layout(v)) PROVE at(f) \in Int
  <2>1. \E i \in DOMAIN K!Layout(v) : K!Layout(v)[i] = f
        BY DEF K!Range
  <2>2. at(f) \in DOMAIN K!Layout(v)
        BY ZenonT(60), <2>1
  <2>3. QED
        BY SMTT(60), <1>1, <2>2
<1>3. K!InitialVal(v) = [f \in K!Fields |-> IF f \in K!Range(K!Layout(v)) THEN at(f) ELSE K!None]
      BY DEF K!InitialVal
<1> HIDE DEF at
<1>4. K!None \in Int
      BY DEF K!None
<1>5. QED
      BY ZenonT(60), <1>2, <1>3, <1>4

\* Nothing was announced.
LEMMA CellInit == K!Init => CellInv
<1> SUFFICES ASSUME K!Init PROVE CellInv
    OBVIOUS
<1>1. PICK v \in Versions, c \in Codes \cup {K!None}, d \in Codes \cup {K!None} :
        root = [version |-> v, val |-> K!InitialVal(v), codes |-> <<c, K!None, d>>]
      BY DEF K!Init
<1>2. v \in Nat
      BY SMTT(60), VersionAssumption
<1>3. <<c, K!None, d>> \in [1 .. 3 -> Codes \cup {K!None}]
      BY SMTT(60)
<1>4. RootTypes
      BY ZenonT(60), <1>1, <1>2, <1>3, InitialTypes DEF RootTypes
<1>5. QED
      BY ZenonT(60), <1>4 DEF K!Init, CellInv, K!AddressAgrees

\* The root may change its parameters, not their types.
LEMMA RootKept == RootTypes /\ K!RootChanges => RootTypes'
<1> SUFFICES ASSUME RootTypes, K!RootChanges PROVE RootTypes'
    BY ZenonT(60)
<1>1. CASE \E f \in K!Range(K!Layout(root.version)) : root' = [root EXCEPT !.val[f] = @ + 100]
  <2>1. PICK f \in K!Range(K!Layout(root.version)) : root' = [root EXCEPT !.val[f] = @ + 100]
        BY ZenonT(60), <1>1
  <2>2. /\ root'.version = root.version
        /\ \A g \in K!Fields \ {f} : root'.val[g] = root.val[g]
        BY ZenonT(60), <2>1 DEF RootTypes
  <2>3. root' \in [version : Versions, val : [K!Fields -> Int], codes : [1 .. 3 -> Codes \cup {K!None}]]
        BY SMTT(60), <2>1 DEF RootTypes
  <2>4. QED
        BY ZenonT(60), <2>2, <2>3 DEF RootTypes
<1>2. CASE \E v \in Versions \ {root.version} :
             root' = [root EXCEPT !.version = v, !.val = K!InitialVal(v)]
  <2>1. PICK v \in Versions : root' = [root EXCEPT !.version = v, !.val = K!InitialVal(v)]
        BY ZenonT(60), <1>2
  <2>2. v \in Nat
        BY SMTT(60), VersionAssumption
  <2>3. /\ K!InitialVal(v) \in [K!Fields -> Int]
        /\ \A f \in K!Fields : f \notin K!Range(K!Layout(v)) => K!InitialVal(v)[f] = K!None
        BY ZenonT(60), <2>2, InitialTypes
  <2>4. root'.version = v /\ root'.val = K!InitialVal(v) /\ root'.codes = root.codes
        BY ZenonT(60), <2>1 DEF RootTypes
  <2>5. root' \in [version : Versions, val : [K!Fields -> Int], codes : [1 .. 3 -> Codes \cup {K!None}]]
        BY ZenonT(60), <2>1, <2>3 DEF RootTypes
  <2>6. QED
        BY ZenonT(60), <2>3, <2>4, <2>5 DEF RootTypes
<1>3. CASE \E i \in 1 .. 3, c \in Codes : root' = [root EXCEPT !.codes[i] = c]
  <2>1. PICK i \in 1 .. 3, c \in Codes : root' = [root EXCEPT !.codes[i] = c]
        BY ZenonT(60), <1>3
  <2>2. root'.version = root.version /\ root'.val = root.val
        BY ZenonT(60), <2>1 DEF RootTypes
  <2>3. root' \in [version : Versions, val : [K!Fields -> Int], codes : [1 .. 3 -> Codes \cup {K!None}]]
        BY ZenonT(60), <2>1 DEF RootTypes
  <2>4. QED
        BY ZenonT(60), <2>2, <2>3 DEF RootTypes
<1>4. QED
      BY ZenonT(60), <1>1, <1>2, <1>3 DEF K!RootChanges

\* What registerOnChain deploys, field by field.
LEMMA DerivedParts ==
  ASSUME NEW s, s.version \in Nat
  PROVE  /\ Derived(s).code = s.codes[3]
         /\ Derived(s).data = K!StorageCell(0, 0, s.val["min_client_stake"], 0, 0, K!ConstData("owner", "proxy"),
                                            K!ChainCell(s, K!NoCodes))
<1>1. Derived(s) = K!Expected(s)
      BY ZenonT(60), DerivedIsExpected
<1>2. QED
      BY SMTT(60), <1>1 DEF K!Expected

\* Every step of the proxy, of the root and of registerOnChain.
LEMMA CellNext == CellInv /\ [K!Next]_(K!vars) => CellInv'
<1> SUFFICES ASSUME CellInv, [K!Next]_(K!vars) PROVE CellInv'
    OBVIOUS
<1> USE DEF CellInv
<1>1. CASE K!Announce
  <2>1. /\ place = "announce" /\ place' = "load"
        /\ announced' = K!Expected(root) /\ UNCHANGED <<root, snap, account>>
        BY ZenonT(60), <1>1 DEF K!Announce
  <2>2. RootTypes' /\ K!AddressAgrees'
        BY ZenonT(60), <2>1 DEF RootTypes, K!AddressAgrees
  <2>3. K!Expected(root)' = K!Expected(root)
        BY ZenonT(60), <2>1
  <2>4. QED
        BY ZenonT(60), <2>1, <2>2, <2>3
<1>2. CASE K!RootChanges
  <2>1. /\ place \in {"load", "derive"} /\ ~changed
        /\ UNCHANGED <<announced, snap, place, account>>
        BY ZenonT(60), <1>2 DEF K!RootChanges
  <2>2. ~changed' => K!Expected(root)' = announced
        BY ZenonT(60), <1>2 DEF K!RootChanges
  <2>3. RootTypes'
        BY ZenonT(60), <1>2, RootKept
  <2>4. Derived(snap)' = Derived(snap)
        BY ZenonT(60), <2>1 DEF Derived
  <2>5. QED
        BY ZenonT(60), <2>1, <2>2, <2>3, <2>4 DEF K!AddressAgrees
<1>3. CASE K!LoadStateSnapshot
  <2>1. /\ place = "load" /\ UNCHANGED <<root, announced, changed, account>>
        /\ snap' = K!parseParamsCell(K!ChainCell(root, root.codes))
        /\ place' = IF snap' = K!Err THEN "refused" ELSE "derive"
        BY ZenonT(60), <1>3 DEF K!LoadStateSnapshot
  <2>2. RootTypes'
        BY ZenonT(60), <2>1 DEF RootTypes
  <2>3. CASE snap' = K!Err
        BY ZenonT(60), <2>1, <2>2, <2>3 DEF K!AddressAgrees
  <2>4. CASE snap' # K!Err
    <3>1. snap' = root /\ root.version \in 0 .. 5
          BY ZenonT(60), <2>1, <2>4, ParseIsRoot
    <3>2. Derived(snap)' = K!Expected(root)
      <4>1. Derived(root) = K!Expected(root)
            BY SMTT(60), <3>1, DerivedIsExpected
      <4>2. QED
            BY ZenonT(60), <3>1, <4>1 DEF Derived
    <3>3. snap'.version = 0 => snap'.val["min_client_stake"] = K!None
          BY ZenonT(60), <3>1, NoStakeIn0
    <3>4. QED
          BY ZenonT(60), <2>1, <2>2, <2>4, <3>1, <3>2, <3>3 DEF K!AddressAgrees
  <2>5. QED
        BY ZenonT(60), <2>3, <2>4
<1>4. CASE K!Derive
  <2> DEFINE usable == snap.codes[3] # K!None /\ snap.val["min_client_stake"] > 0
  <2>1. /\ place = "derive" /\ UNCHANGED <<root, announced, changed, snap>>
        /\ place' = IF ~usable THEN "refused" ELSE IF Derived(snap) # announced THEN "mismatch" ELSE "registered"
        /\ account' = IF place' = "registered" THEN Derived(snap).data ELSE account
        BY ZenonT(60), <1>4 DEF K!Derive, Derived
  <2>2. RootTypes'
        BY ZenonT(60), <2>1 DEF RootTypes
  <2>3. CASE place' # "registered"
        BY ZenonT(60), <2>1, <2>2, <2>3 DEF K!AddressAgrees
  <2>4. CASE place' = "registered"
    <3>1. usable /\ Derived(snap) = announced
          BY ZenonT(60), <2>1, <2>4
    <3>2. snap.version \in 0 .. 5 /\ snap.version \in Nat
          BY SMTT(60), <2>1
    <3>3. snap.version \in 1 .. 5
          BY SMTT(60), <2>1, <3>1, <3>2 DEF K!None
    <3>4. /\ announced.code = snap.codes[3]
          /\ account' = K!StorageCell(0, 0, snap.val["min_client_stake"], 0, 0, K!ConstData("owner", "proxy"),
                                      K!ChainCell(snap, K!NoCodes))
          BY ZenonT(60), <2>1, <2>4, <3>1, <3>2, DerivedParts
    <3>5. account'[8] = <<"ref", K!ChainCell(snap, K!NoCodes)>>
          BY <3>4 DEF K!StorageCell
    <3>6. K!AddressAgrees'
      <4>1. K!ChainCell(snap, K!NoCodes)' = K!ChainCell(snap, K!NoCodes)
            BY ZenonT(60), <2>1 DEF K!ChainCell, K!NoCodes, K!None, K!Refs, K!Store, K!Layout, K!When, K!Kind
      <4>2. QED
            BY ZenonT(60), <2>1, <2>4, <3>3, <3>4, <3>5, <4>1 DEF K!AddressAgrees
    <3>7. \E state, bal, stake, tokens, unlock, const, params :
            account' = K!StorageCell(state, bal, stake, tokens, unlock, const, params)
          BY ZenonT(60), <3>4
    <3>8. QED
          BY ZenonT(60), <2>2, <2>4, <3>6, <3>7
  <2>5. QED
        BY ZenonT(60), <2>3, <2>4
<1>5. CASE K!ContractRuns
  <2>1. place = "registered" /\ UNCHANGED <<root, announced, changed, snap, place>>
        BY ZenonT(60), <1>5 DEF K!ContractRuns
  <2>2. PICK st \in 1 .. 2, b \in Amounts, s \in Amounts :
          account' = K!StorageCell(st, b, s, 1, st, account[7][2], account[8][2])
        BY ZenonT(60), <1>5 DEF K!ContractRuns
  <2>3. account'[8] = <<"ref", account[8][2]>>
        BY ZenonT(60), <2>2 DEF K!StorageCell
  <2>4. account[8] = <<"ref", K!ChainCell(snap, K!NoCodes)>>
        BY ZenonT(60), <2>1 DEF K!AddressAgrees
  <2>5. account'[8] = account[8]
    <3>1. PICK c : c = K!ChainCell(snap, K!NoCodes)
          OBVIOUS
    <3>2. account[8] = <<"ref", c>>
          BY ZenonT(60), <2>4, <3>1
    <3>3. account[8][2] = c
          BY SMTT(60), <3>2
    <3>4. QED
          BY ZenonT(60), <2>3, <3>2, <3>3
  <2>6. K!AddressAgrees'
        BY ZenonT(60), <2>1, <2>5 DEF K!AddressAgrees
  <2>7. \E state, bal, stake, tokens, unlock, const, params :
          account' = K!StorageCell(state, bal, stake, tokens, unlock, const, params)
        BY ZenonT(60), <2>2
  <2>8. RootTypes'
        BY ZenonT(60), <2>1 DEF RootTypes
  <2>9. QED
        BY ZenonT(60), <2>1, <2>6, <2>7, <2>8
<1>6. CASE UNCHANGED K!vars
  <2>1. UNCHANGED <<root, announced, changed, snap, place, account>>
        BY ZenonT(60), <1>6 DEF K!vars
  <2>2. RootTypes' /\ K!AddressAgrees'
        BY ZenonT(60), <2>1 DEF RootTypes, K!AddressAgrees
  <2>3. Derived(snap)' = Derived(snap) /\ K!Expected(root)' = K!Expected(root)
        BY ZenonT(60), <2>1 DEF Derived
  <2>4. QED
        BY ZenonT(60), <2>1, <2>2, <2>3
<1>7. QED
      BY ZenonT(60), <1>1, <1>2, <1>3, <1>4, <1>5, <1>6 DEF K!Next

\* registerOnChain and the parameter cells: in every struct version the client
\* rebuilds the announced address unless the root changed, and deploys with the
\* parameters it read at the address the proxy watches.
THEOREM AddressIsExpected == K!Spec => []AddressAgrees
<1>1. CellInv => AddressAgrees
      BY ZenonT(60) DEF CellInv, AddressAgrees
<1>2. QED
      BY <1>1, CellInit, CellNext, PTL DEF K!Spec

\* ClientStateInitData and client.EncodeStorage write the same cell, and the two
\* readers of the contract's storage read the same balance, in every state of it.
THEOREM CodecsDoAgree == K!Spec => []CodecsAgree
<1>1. ASSUME CellInv PROVE CodecsAgree
  <2>1. K!clientInitData(snap, "owner", "proxy") = K!EncodeStorage(K!DeployStorage(snap))
        BY ZenonT(60) DEF K!clientInitData, K!EncodeStorage, K!DeployStorage
  <2>2. ASSUME account # <<>>
        PROVE  /\ K!parseClientSCData(account) # K!Err
               /\ K!decodeClientRequestBalance(account) = K!parseClientSCData(account).balance
               /\ K!parseClientSCData(account).balance = account[2][2]
    <3>1. PICK state, bal, stake, tokens, unlock, const, params :
            account = K!StorageCell(state, bal, stake, tokens, unlock, const, params)
          BY ZenonT(60), <1>1, <2>2 DEF CellInv
    <3>2. /\ account[1] = <<"u2", state>> /\ account[2] = <<"coins", bal>> /\ account[3] = <<"coins", stake>>
          /\ account[4] = <<"u64", tokens>> /\ account[5] = <<"u32", unlock>>
          BY ZenonT(60), <3>1 DEF K!StorageCell
    <3>3. [i \in 1 .. 5 |-> account[i][1]] = <<"u2", "coins", "coins", "u64", "u32">>
          BY SMTT(60), <3>2
    <3>4. K!parseClientSCData(account) =
            [state |-> account[1][2], balance |-> account[2][2], stake |-> account[3][2],
             tokens |-> account[4][2], unlock |-> account[5][2]]
          BY Zenon, <3>3 DEF K!parseClientSCData
    <3>5. K!parseClientSCData(account) # K!Err
      <4>1. "state" \in DOMAIN K!parseClientSCData(account) /\ "state" \notin DOMAIN K!Err
            BY ZenonT(60), <3>4 DEF K!Err
      <4>2. QED
            BY ZenonT(60), <4>1
    <3>6. K!decodeClientRequestBalance(account) = account[2][2]
          BY <3>2 DEF K!decodeClientRequestBalance
    <3>7. QED
          BY SMTT(60), <3>4, <3>5, <3>6
  <2>3. QED
        BY ZenonT(60), <2>1, <2>2 DEF CodecsAgree, K!CodecsAgree
<1>2. QED
      BY <1>1, CellInit, CellNext, PTL DEF K!Spec
=============================================================================
