--------------------------- MODULE Registration ---------------------------
(***************************************************************************)
(* Client.registerOnChain (pkg/cocoon/client.go): each attempt to connect  *)
(* reads the client contract, broadcasts the register message (with the    *)
(* contract's StateInit if it is not active yet) and, if the balance it    *)
(* read is below the minimum stake, broadcasts a top-up of the rest.       *)
(* Attempts follow one another in the runner and may overlap in a program  *)
(* that connects to several proxies.                                       *)
(*                                                                         *)
(* Broadcasts are those of WalletService, where no error means that the    *)
(* wallet has a transaction of the message, not that the message was sent. *)
(* The contract is external: what the wallet sent reaches it later, in     *)
(* order, and the proxy charges its balance meanwhile.                     *)
(***************************************************************************)
EXTENDS Naturals, Sequences

CONSTANTS
  Attempts,             \* calls of registerOnChain
  MinClientStake,       \* of the root contract's parameters
  MaxCharge             \* nanoTON the proxy may charge, a bound

VARIABLES
  log, void, reply,     \* WalletService, whose calls are the Broadcasts
  pc,                   \* where each attempt is
  topUp,                \* topUpAmount, 0 for none
  initCell,             \* attempts whose register message deploys
  arrived,              \* messages of log that reached the contract
  active, balance,      \* the client contract
  charged,              \* what the proxy has charged
  \* History, read by the properties only:
  readCharged,          \* charged when the attempt read the balance
  blind,                \* attempts that read it with a top-up outstanding,
                        \* or could not decode it
  bounced               \* messages the contract sent back

Broadcasts == Attempts \X {"register", "topup"}

Wallet == INSTANCE WalletService WITH Calls <- Broadcasts

attemptVars == <<pc, topUp, initCell>>
contractVars == <<arrived, active, balance, charged, bounced>>
history == <<readCharged, blind>>
vars == <<log, void, reply, attemptVars, contractVars, history>>

Init ==
  /\ Wallet!WalletInit
  /\ pc = [a \in Attempts |-> "start"]
  /\ topUp = [a \in Attempts |-> 0]
  /\ initCell = {}
  /\ arrived = 0
  /\ active \in BOOLEAN
  /\ balance \in IF active THEN 0 .. MinClientStake + 1 ELSE {0}
  /\ charged = 0
  /\ bounced = {}
  /\ readCharged = [a \in Attempts |-> 0]
  /\ blind = {}

----------------------------------------------------------------------------
Arrived(b) == \E i \in 1 .. arrived : log[i] = b

\* The top-up of a is decided and may yet change the balance.
Outstanding(a) ==
  /\ topUp[a] > 0 /\ ~Arrived(<<a, "topup">>)
  /\ pc[a] # "failed" \/ reply[<<a, "topup">>] = "error"

\* Mutant: the whole stake is topped up, whatever the balance.
Missing_Whole(read) == IF read < MinClientStake THEN MinClientStake ELSE 0

Missing(read) == IF read < MinClientStake THEN MinClientStake - read ELSE 0

\* The state snapshot, the address check and GetAccount succeeded.  A
\* contract that is not active, or whose data does not decode, counts as
\* empty.
ReadAccount(a, decoded) ==
  /\ pc[a] = "start" /\ (decoded \/ active)
  /\ topUp' = [topUp EXCEPT ![a] = Missing(IF decoded THEN balance ELSE 0)]
  /\ initCell' = IF active THEN initCell ELSE initCell \cup {a}
  /\ pc' = [pc EXCEPT ![a] = "register"]
  /\ readCharged' = [readCharged EXCEPT ![a] = charged]
  /\ blind' = IF decoded /\ ~\E b \in Attempts : Outstanding(b)
              THEN blind ELSE blind \cup {a}
  /\ UNCHANGED <<log, void, reply, contractVars>>

\* No broadcaster, no wallet address, a bad address, parameters without
\* code or stake, another derived address, a chain read that failed.
Refuse(a) ==
  /\ pc[a] = "start"
  /\ pc' = [pc EXCEPT ![a] = "failed"]
  /\ UNCHANGED <<log, void, reply, topUp, initCell, contractVars, history>>

\* broadcastExternalWithValue(AndInit): the call goes to the broadcaster.
Broadcast(a, kind, next) ==
  /\ Wallet!Ask(<<a, kind>>)
  /\ pc' = [pc EXCEPT ![a] = next]
  /\ UNCHANGED <<topUp, initCell, contractVars, history>>

Register(a) == pc[a] = "register" /\ Broadcast(a, "register", "registering")

Stop(a, outcome) ==
  /\ pc' = [pc EXCEPT ![a] = outcome]
  /\ UNCHANGED <<log, void, reply, topUp, initCell, contractVars, history>>

Registered(a) ==
  /\ pc[a] = "registering"
  /\ \/ reply[<<a, "register">>] = "error" /\ Stop(a, "failed")
     \/ /\ reply[<<a, "register">>] = "ok"
        /\ IF topUp[a] = 0 THEN Stop(a, "registered")
                           ELSE Broadcast(a, "topup", "topping")

\* Mutant: a failed top-up is not an error of the attempt.
ToppedUp_Ignores(a) ==
  /\ pc[a] = "topping" /\ reply[<<a, "topup">>] \in {"ok", "error"}
  /\ Stop(a, "registered")

ToppedUp(a) ==
  /\ pc[a] = "topping"
  /\ \/ reply[<<a, "topup">>] = "ok" /\ Stop(a, "registered")
     \/ reply[<<a, "topup">>] = "error" /\ Stop(a, "failed")

----------------------------------------------------------------------------
\* External: the broadcaster and the wallet contract.
WalletStep ==
  /\ \E b \in Broadcasts :
       Wallet!Execute(b) \/ Wallet!SendNothing(b) \/ Wallet!Succeed(b) \/ Wallet!Fail(b)
  /\ UNCHANGED <<attemptVars, contractVars, history>>

\* External: the next message reaches the client contract, which exists
\* from the first message that brings its StateInit on.
Arrive ==
  /\ arrived < Len(log)
  /\ arrived' = arrived + 1
  /\ LET b == log[arrived + 1]
         a == b[1]
         deploys == b[2] = "register" /\ a \in initCell
     IN  /\ active' = (active \/ deploys)
         /\ bounced' = IF active' THEN bounced ELSE bounced \cup {b}
         /\ balance' = IF active' /\ b[2] = "topup" THEN balance + topUp[a] ELSE balance
  /\ UNCHANGED <<log, void, reply, attemptVars, charged, history>>

\* External: the proxy charges the channel.
Charge ==
  /\ balance > 0 /\ charged < MaxCharge
  /\ balance' = balance - 1
  /\ charged' = charged + 1
  /\ UNCHANGED <<log, void, reply, attemptVars, arrived, active, bounced, history>>

Attempt(a) ==
  \/ \E decoded \in BOOLEAN : ReadAccount(a, decoded)
  \/ Refuse(a) \/ Register(a) \/ Registered(a) \/ ToppedUp(a)

Next == WalletStep \/ Arrive \/ Charge \/ \E a \in Attempts : Attempt(a)

Spec == Init /\ [][Next]_vars

----------------------------------------------------------------------------
\* A top-up never lifts the channel above the minimum stake, however many
\* attempts fail after the register message or the top-up and are made
\* again, as long as no attempt read the balance while another's top-up was
\* outstanding and every balance decoded (topUpAmount of registerOnChain).
NeverOverpays ==
  [][blind' = {} /\ balance' > balance => balance' <= MinClientStake]_vars

\* An attempt that returned no error leaves the minimum stake in the
\* contract, less what was charged since it read the balance, or has its
\* top-up sent by the wallet and on the way, unless a transaction of the wallet
\* sent nothing for it: then its top-up was not sent, or bounced.  A message
\* bounces only for that reason: whoever tops up has seen the contract active
\* or sent its StateInit before, also when the register message of an earlier
\* attempt timed out and is executed late.
StakeReached ==
  /\ \A a \in Attempts :
       pc[a] = "registered" =>
         \/ balance + (charged - readCharged[a]) >= MinClientStake
         \/ Wallet!Executed(<<a, "topup">>) /\ ~Arrived(<<a, "topup">>)
         \/ <<a, "topup">> \in void /\ ~Wallet!Executed(<<a, "topup">>)
         \/ <<a, "topup">> \in bounced
  /\ \A b \in bounced : b[2] = "topup" /\ <<b[1], "register">> \in void
=============================================================================
