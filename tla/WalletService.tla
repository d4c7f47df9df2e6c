--------------------------- MODULE WalletService ---------------------------
(***************************************************************************)
(* What the broadcaster promises its callers (pkg/cocoon/broadcaster.go):  *)
(* a call's message is sent by the wallet contract at most once, a call    *)
(* that returns no error has had a transaction of the wallet, and a call   *)
(* that returns an error may be executed all the same, even later.         *)
(*                                                                         *)
(* A transaction of the wallet need not send the message: one whose action *)
(* phase fails (no funds for the message's value) sends nothing, and the   *)
(* broadcaster returns no error for it either.                             *)
(***************************************************************************)
EXTENDS Sequences

CONSTANT Calls          \* broadcasts, each the transfer of one message

VARIABLES
  log,                  \* the calls whose message left the wallet, in order
  void,                 \* calls with a wallet transaction that sent nothing
  reply                 \* what each call is to its caller: "none" before it,
                        \* "pending", then "ok" or "error"

walletVars == <<log, void, reply>>

Executed(c) == \E i \in DOMAIN log : log[i] = c

\* The wallet has a transaction of c, which is all the broadcaster looks for.
Confirmed(c) == Executed(c) \/ c \in void

WalletInit ==
  /\ log = <<>>
  /\ void = {}
  /\ reply = [c \in Calls |-> "none"]

Ask(c) ==
  /\ reply[c] = "none"
  /\ reply' = [reply EXCEPT ![c] = "pending"]
  /\ UNCHANGED <<log, void>>

Execute(c) ==
  /\ reply[c] # "none" /\ ~Executed(c)
  /\ log' = Append(log, c)
  /\ UNCHANGED <<void, reply>>

\* The action phase fails; c may be tried again as long as its seqno holds.
SendNothing(c) ==
  /\ reply[c] # "none" /\ ~Executed(c)
  /\ void' = void \cup {c}
  /\ UNCHANGED <<log, reply>>

Succeed(c) ==
  /\ reply[c] = "pending" /\ Confirmed(c)
  /\ reply' = [reply EXCEPT ![c] = "ok"]
  /\ UNCHANGED <<log, void>>

Fail(c) ==
  /\ reply[c] = "pending"
  /\ reply' = [reply EXCEPT ![c] = "error"]
  /\ UNCHANGED <<log, void>>

WalletNext ==
  \E c \in Calls : Ask(c) \/ Execute(c) \/ SendNothing(c) \/ Succeed(c) \/ Fail(c)

WalletSpec == WalletInit /\ [][WalletNext]_walletVars
=============================================================================
