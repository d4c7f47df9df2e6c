----------------------------- MODULE MCOnChain -----------------------------
(***************************************************************************)
(* What the client does on chain: broadcasts from its wallet               *)
(* (Broadcaster), and the callers of the broadcaster, registerOnChain      *)
(* (Registration) and the channel commands (Channel), which see it as      *)
(* WalletService, with the contract cells that registration compares       *)
(* (Contracts).  Broadcaster implements WalletService, so the callers need *)
(* not run on top of it: part says which runs, the others stay as they     *)
(* begin.                                                                  *)
(***************************************************************************)
EXTENDS Broadcaster, Integers

CONSTANTS Attempts, MinClientStake, MaxCharge,
          Requests, Amounts, DefaultTopUp, DefaultValue,
          Versions, Codes

\* A number of nanoTON, read as coins from the root's parameters.
ASSUME StakeAssumption == MinClientStake \in Nat

\* The root stores its struct version in a byte.
ASSUME VersionAssumption == Versions \subseteq 0 .. 255

VARIABLES
  part,
  rlog, rvoid, rreply, attempt, topUp, initCell, arrived, active, balance, charged, readCharged,
  blind, bounced,
  clog, cvoid, creply, shown, ready, req, serving, order, answer,
  root, announced, changed, snap, place, account

R == INSTANCE Registration WITH log <- rlog, void <- rvoid, reply <- rreply, pc <- attempt
C == INSTANCE Channel WITH log <- clog, void <- cvoid, reply <- creply, pc <- serving, msg <- order
K == INSTANCE Contracts WITH pc <- place

registrationVars == <<rlog, rvoid, rreply, attempt, topUp, initCell, arrived, active, balance, charged,
                      readCharged, blind, bounced>>
channelVars == <<clog, cvoid, creply, shown, ready, req, serving, order, answer>>
contractVars == <<root, announced, changed, snap, place, account>>

MCRequests == 1 .. 2

----------------------------------------------------------------------------
Parts == {"broadcaster", "registration", "channel", "contracts"}

MCInit ==
  /\ part \in Parts
  /\ Init /\ R!Init /\ C!Init /\ K!Init
  /\ part # "broadcaster" => deployed
  /\ part # "registration" => ~active
  /\ part # "channel" => shown = "sc1"
  /\ part # "contracts" => root.version = 1 /\ root.codes = <<1, -1, 1>>

Broadcasts ==
  part = "broadcaster" /\ Next /\ UNCHANGED <<part, registrationVars, channelVars, contractVars>>

Registers ==
  part = "registration" /\ R!Next /\ UNCHANGED <<part, vars, channelVars, contractVars>>

Operates ==
  part = "channel" /\ C!Next /\ UNCHANGED <<part, vars, registrationVars, contractVars>>

Compares ==
  part = "contracts" /\ K!Next /\ UNCHANGED <<part, vars, registrationVars, channelVars>>

MCNext == Broadcasts \/ Registers \/ Operates \/ Compares

MCSpec == MCInit /\ [][MCNext]_<<part, vars, registrationVars, channelVars, contractVars>>

----------------------------------------------------------------------------
(* The properties of the callers and of the cells; that of Broadcaster is  *)
(* there.                                                                  *)

\* registerOnChain returns no error only when the minimum stake is in the
\* contract, less what was charged since, or on the way, and none of its messages
\* bounces, also when an earlier one is late; unless a wallet transaction, which
\* the broadcaster takes for success, sent nothing.
StakeReached == R!StakeReached

\* A top-up of registerOnChain never lifts the channel above the minimum stake,
\* unless the balance it was computed from could not be known.
NeverOverpays == R!NeverOverpays

\* A channel command answered "Request sent" has a transaction of the wallet, for
\* the message that was asked for.
SentMeansConfirmed == C!SentMeansConfirmed

\* registerOnChain refuses the announced address only if the root's parameters
\* changed since the proxy computed it, and deploys only at that address.
AddressAgrees == K!AddressAgrees

\* The two encoders of the client contract's data agree (ClientStateInitData,
\* client.EncodeStorage), and so do the two readers of its balance.
CodecsAgree == K!CodecsAgree
=============================================================================
