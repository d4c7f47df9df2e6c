------------------------------ MODULE Channel ------------------------------
(***************************************************************************)
(* Channel operations: gocoon channel topup, withdraw and close ask the    *)
(* runner's /request/ handlers (cmd/gocoon/main.go, cmd/gocoon-runner/     *)
(* control_plane.go), which build the message and broadcast it under a     *)
(* timeout; a program that uses the library calls Session.Send             *)
(* (pkg/cocoon/payments.go).  The broadcaster is WalletService; an         *)
(* operator who reads a failure asks again.                                *)
(***************************************************************************)
EXTENDS Integers, Sequences

CONSTANTS Requests,     \* requests, in the order of their numbers
          Amounts,      \* top-up amounts that may be asked for
          DefaultTopUp, \* amount of a top-up that names none (1 TON)
          DefaultValue  \* defaultMessageValueNano of the broadcaster (0.5 TON)

VARIABLES
  log, void, reply,  \* WalletService, one call per request
  shown,       \* the first contract address of /jsonstats, or None
  ready,       \* broadcaster and wallet address are set
  req,         \* what each request asks for
  pc,          \* "idle", "asked", "sending", "done"
  msg,         \* the message of each request, or NoMsg
  answer       \* "none", "sent", "failed"

vars == <<log, void, reply, shown, ready, req, pc, msg, answer>>
walletVars == <<log, void, reply>>

Wallet == INSTANCE WalletService WITH Calls <- Requests

Contracts == {"sc1", "sc2"}
None == "none"
Absent == -1    \* no amount is given
Invalid == -2   \* an amount that is no number
NoMsg == [dest |-> None, op |-> None, amount |-> Absent, value |-> 0]
NoReq == [via |-> None, verb |-> None, amount |-> Absent, sc |-> None]

Init ==
  /\ Wallet!WalletInit
  /\ shown \in Contracts \cup {None} /\ ready = FALSE
  /\ req = [r \in Requests |-> NoReq]
  /\ pc = [r \in Requests |-> "idle"]
  /\ msg = [r \in Requests |-> NoMsg]
  /\ answer = [r \in Requests |-> "none"]

----------------------------------------------------------------------------
\* The operator gives one command after the other, each when the one before has
\* its answer.
Turn(r) == pc[r] = "idle" /\ \A q \in Requests : q < r => answer[q] # "none"

\* cmdChannelRequest: without --client-sc it takes the contract that is shown.
cmdChannelRequest(r) ==
  /\ Turn(r)
  /\ \E verb \in {"topup", "withdraw", "close"}, a \in Amounts \cup {Absent, Invalid}, sc \in Contracts \cup {None} :
       LET target == IF sc = None THEN shown ELSE sc IN
       /\ a # Absent => verb = "topup"
       /\ req' = [req EXCEPT ![r] = [via |-> "http", verb |-> verb, amount |-> a, sc |-> target]]
       /\ pc' = [pc EXCEPT ![r] = IF target = None THEN "done" ELSE "asked"]
       /\ answer' = [answer EXCEPT ![r] = IF target = None THEN "failed" ELSE @]
  /\ UNCHANGED <<walletVars, shown, ready, msg>>

\* Session.Send of a session that is ready and knows its contract.
SessionSend(r) ==
  /\ Turn(r) /\ shown # None
  /\ \E verb \in {"topup", "withdraw", "close", "stake"}, a \in Amounts \cup {Absent} :
       req' = [req EXCEPT ![r] = [via |-> "library", verb |-> verb, amount |-> a, sc |-> shown]]
  /\ pc' = [pc EXCEPT ![r] = "asked"]
  /\ UNCHANGED <<walletVars, shown, ready, msg, answer>>

\* buildRequestBody defaults the amount of a top-up, Send insists on one; the
\* builders refuse a negative amount.
Amount(q) == IF q.via = "http" /\ q.verb = "topup" /\ q.amount = Absent THEN DefaultTopUp ELSE q.amount

Buildable(q) == q.verb \in {"topup", "stake"} => Amount(q) >= 0

\* BroadcastExternal attaches the same value to every message.
Message(q) ==
  [dest |-> q.sc, op |-> q.verb, value |-> DefaultValue,
   amount |-> IF q.verb \in {"topup", "stake"} THEN Amount(q) ELSE Absent]

Refused(r) ==
  /\ pc' = [pc EXCEPT ![r] = "done"]
  /\ answer' = [answer EXCEPT ![r] = "failed"]
  /\ UNCHANGED <<walletVars, msg>>

requestHandler(r) ==
  /\ pc[r] = "asked"
  /\ IF ~ready \/ ~Buildable(req[r]) THEN Refused(r)
     ELSE /\ Wallet!Ask(r)
          /\ msg' = [msg EXCEPT ![r] = Message(req[r])]
          /\ pc' = [pc EXCEPT ![r] = "sending"]
          /\ UNCHANGED answer
  /\ UNCHANGED <<shown, ready, req>>

\* Mutant: whatever the broadcaster returned, the request was sent.
Answer_Sent(r) ==
  /\ pc[r] = "sending" /\ reply[r] \in {"ok", "error"}
  /\ pc' = [pc EXCEPT ![r] = "done"]
  /\ answer' = [answer EXCEPT ![r] = "sent"]
  /\ UNCHANGED <<walletVars, shown, ready, req, msg>>

Answer(r) ==
  /\ pc[r] = "sending" /\ reply[r] \in {"ok", "error"}
  /\ pc' = [pc EXCEPT ![r] = "done"]
  /\ answer' = [answer EXCEPT ![r] = IF reply[r] = "ok" THEN "sent" ELSE "failed"]
  /\ UNCHANGED <<walletVars, shown, ready, req, msg>>

----------------------------------------------------------------------------
(* External: the runner and the wallet.                                    *)

\* The runner comes up, and its session moves to another contract.
RunnerMoves ==
  /\ \/ ready' = TRUE /\ UNCHANGED shown
     \/ shown' \in Contracts \cup {None} /\ UNCHANGED ready
  /\ UNCHANGED <<walletVars, req, pc, msg, answer>>

WalletStep ==
  /\ \E r \in Requests :
       Wallet!Execute(r) \/ Wallet!SendNothing(r) \/ Wallet!Succeed(r) \/ Wallet!Fail(r)
  /\ UNCHANGED <<shown, ready, req, pc, msg, answer>>

Serve(r) == requestHandler(r) \/ Answer(r)

Next ==
  \/ \E r \in Requests : cmdChannelRequest(r) \/ SessionSend(r) \/ Serve(r)
  \/ RunnerMoves \/ WalletStep

Spec == Init /\ [][Next]_vars

----------------------------------------------------------------------------
(* Properties.                                                             *)

\* "Request sent" is true as far as the broadcaster looks: the wallet has a
\* transaction of that message, towards the contract and with the operation the
\* command named, also when the runner has moved to another contract since.
\* That the transaction sent the message is not promised (void).
SentMeansConfirmed ==
  \A r \in Requests : answer[r] = "sent" =>
    /\ Wallet!Confirmed(r)
    /\ msg[r].dest = req[r].sc /\ msg[r].op = req[r].verb
=============================================================================
