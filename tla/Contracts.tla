----------------------------- MODULE Contracts -----------------------------
(***************************************************************************)
(* The cells of the root and client contracts (pkg/contracts) as           *)
(* registerOnChain and gocoon channel info use them.  The proxy announces  *)
(* the address of the client contract it expects; the client reads the     *)
(* root's parameters, rebuilds the contract's initial data from them, and  *)
(* goes on only if the address comes out the same.  The root's parameters  *)
(* may change in between.                                                  *)
(*                                                                         *)
(* A cell is the sequence of its fields, each with its kind and value: a   *)
(* reader that asks for another kind fails, one that asks for the same     *)
(* kind in another order reads a wrong value.  An address is what it is    *)
(* the hash of.                                                            *)
(***************************************************************************)
EXTENDS Integers, Sequences, Functions

CONSTANTS Versions,   \* struct versions the root may come to have
          Codes,      \* contract codes
          Amounts     \* balances of the client contract

VARIABLES
  root,      \* external: the root's parameters
  announced, \* external: the proxy's client_sc_address
  changed,   \* the parameters changed since it was announced
  snap,      \* what LoadStateSnapshot returned
  pc,        \* "announce", "load", "derive", "registered", "mismatch", "refused"
  account    \* external: the storage of the deployed contract

vars == <<root, announced, changed, snap, pc, account>>

None == -1
Err == [error |-> TRUE]

\* The parameters, in the order of StateSnapshot, with their kinds.
Kind ==
  [params_version |-> "u32", unique_id |-> "u32", is_test |-> "bool",
   price |-> "coins", fee |-> "coins", prompt |-> "u32", cached |-> "u32",
   completion |-> "u32", reasoning |-> "u32", proxy_delay |-> "u32",
   client_delay |-> "u32", min_proxy_stake |-> "coins", min_client_stake |-> "coins"]
Fields == DOMAIN Kind

When(b, fields) == IF b THEN fields ELSE <<>>

\* External: the layout of the root contract, by struct version.
Layout(v) ==
  <<"params_version", "unique_id", "is_test", "price", "fee">>
  \o (IF v >= 3 THEN <<"prompt", "cached", "completion", "reasoning">>
      ELSE When(v = 2, <<"cached", "reasoning">>))
  \o <<"proxy_delay", "client_delay">>
  \o When(v >= 1, <<"min_proxy_stake", "min_client_stake">>)

Store(val, fields) == [i \in DOMAIN fields |-> <<Kind[fields[i]], val[fields[i]]>>]

Refs(codes) == [i \in 1 .. 3 |-> <<"ref", codes[i]>>]
NoCodes == <<None, None, None>>

ChainCell(r, codes) == <<<<"u8", r.version>>>> \o Store(r.val, Layout(r.version)) \o Refs(codes)

\* External: what the upstream client contract starts with, and so its address.
ConstData(owner, proxy) == <<<<"addr", owner>>, <<"addr", proxy>>, <<"u256", "proxy key">>>>
StorageCell(state, balance, stake, tokens, unlock, const, params) ==
  << <<"u2", state>>, <<"coins", balance>>, <<"coins", stake>>, <<"u64", tokens>>,
     <<"u32", unlock>>, <<"u256", 0>>, <<"ref", const>>, <<"ref", params>> >>
Expected(r) ==
  [code |-> r.codes[3],
   data |-> StorageCell(0, 0, r.val["min_client_stake"], 0, 0, ConstData("owner", "proxy"), ChainCell(r, NoCodes))]

\* Every field its own value, so that no two are taken for one another.
InitialVal(v) ==
  [f \in Fields |-> IF f \in Range(Layout(v)) THEN CHOOSE i \in DOMAIN Layout(v) : Layout(v)[i] = f ELSE None]

Init ==
  /\ \E v \in Versions, c, d \in Codes \cup {None} :
       root = [version |-> v, val |-> InitialVal(v), codes |-> <<c, None, d>>]
  /\ announced = Err /\ changed = FALSE /\ snap = Err
  /\ pc = "announce" /\ account = <<>>

----------------------------------------------------------------------------
\* Reads the fields one after the other.  What is left of the cell is the rest.
Load(cell, fields) ==
  IF Len(cell) < Len(fields) \/ \E i \in DOMAIN fields : cell[i][1] # Kind[fields[i]] THEN Err
  ELSE [f \in Fields |-> IF f \in Range(fields) THEN cell[CHOOSE i \in DOMAIN fields : fields[i] = f][2] ELSE None]

\* Mutant: the multipliers of version 3 are read as a block after those of 2.
ParseOrder_Block(v) ==
  <<"params_version", "unique_id", "is_test", "price", "fee">>
  \o When(v >= 2, <<"cached", "reasoning">>) \o When(v >= 3, <<"prompt", "completion">>)
  \o <<"proxy_delay", "client_delay">>
  \o When(v >= 1, <<"min_proxy_stake", "min_client_stake">>)

ParseOrder(v) ==
  <<"params_version", "unique_id", "is_test", "price", "fee">>
  \o When(v >= 3, <<"prompt">>) \o When(v >= 2, <<"cached">>)
  \o When(v >= 3, <<"completion">>) \o When(v >= 2, <<"reasoning">>)
  \o <<"proxy_delay", "client_delay">>
  \o When(v >= 1, <<"min_proxy_stake", "min_client_stake">>)

parseParamsCell(cell) ==
  LET v == cell[1][2]
      val == Load(Tail(cell), ParseOrder(v))
      rest == Len(ParseOrder(v)) + 1
  IN  IF v > 5 \/ val = Err \/ Len(cell) < rest + 3 THEN Err
      ELSE [version |-> v, val |-> val, codes |-> [i \in 1 .. 3 |-> cell[rest + i][2]]]

encodeParamsCell(s, includeCodes) ==
  LET v == s.version
      order == <<"params_version", "unique_id", "is_test", "price", "fee">>
               \o When(v >= 3, <<"prompt">>) \o When(v >= 2, <<"cached">>)
               \o When(v >= 3, <<"completion">>) \o When(v >= 2, <<"reasoning">>)
               \o <<"proxy_delay", "client_delay">>
               \o When(v >= 1, <<"min_proxy_stake", "min_client_stake">>)
  IN  <<<<"u8", v>>>> \o Store(s.val, order) \o Refs(IF includeCodes THEN s.codes ELSE NoCodes)

\* client.EncodeStorage.
EncodeStorage(st) ==
  << <<"u2", st.state>>, <<"coins", st.balance>>, <<"coins", st.stake>>, <<"u64", st.tokens>>,
     <<"u32", st.unlock>>, <<"u256", 0>>, <<"ref", ConstData(st.owner, st.proxy)>>, <<"ref", st.params>> >>

BuildStateInit(st, code) == [code |-> code, data |-> EncodeStorage(st)]

\* Mutant: the stake the proxy must have is put in.
clientInitData_ProxyStake(s, owner, proxy) ==
  << <<"u2", 0>>, <<"coins", 0>>, <<"coins", s.val["min_proxy_stake"]>>, <<"u64", 0>>, <<"u32", 0>>,
     <<"u256", 0>>, <<"ref", ConstData(owner, proxy)>>, <<"ref", encodeParamsCell(s, FALSE)>> >>

\* root.StateSnapshot.ClientStateInitData, a second encoder of the same cell.
clientInitData(s, owner, proxy) ==
  << <<"u2", 0>>, <<"coins", 0>>, <<"coins", s.val["min_client_stake"]>>, <<"u64", 0>>, <<"u32", 0>>,
     <<"u256", 0>>, <<"ref", ConstData(owner, proxy)>>, <<"ref", encodeParamsCell(s, FALSE)>> >>

\* The storage registerOnChain deploys.
DeployStorage(s) ==
  [state |-> 0, balance |-> 0, stake |-> s.val["min_client_stake"], tokens |-> 0, unlock |-> 0,
   owner |-> "owner", proxy |-> "proxy", params |-> encodeParamsCell(s, FALSE)]

----------------------------------------------------------------------------
\* External: the proxy derives the address from the parameters of the moment.
Announce ==
  /\ pc = "announce"
  /\ announced' = Expected(root) /\ changed' = FALSE /\ pc' = "load"
  /\ UNCHANGED <<root, snap, account>>

\* External: one parameter, the version or a code of the root changes.
RootChanges ==
  /\ pc \in {"load", "derive"} /\ ~changed
  /\ \/ \E f \in Range(Layout(root.version)) : root' = [root EXCEPT !.val[f] = @ + 100]
     \/ \E v \in Versions \ {root.version} : root' = [root EXCEPT !.version = v, !.val = InitialVal(v)]
     \/ \E i \in 1 .. 3, c \in Codes : c # root.codes[i] /\ root' = [root EXCEPT !.codes[i] = c]
  /\ changed' = (Expected(root') # announced)
  /\ UNCHANGED <<announced, snap, pc, account>>

LoadStateSnapshot ==
  /\ pc = "load"
  /\ snap' = parseParamsCell(ChainCell(root, root.codes))
  /\ pc' = IF snap' = Err THEN "refused" ELSE "derive"
  /\ UNCHANGED <<root, announced, changed, account>>

\* The address check of registerOnChain; the message it sends deploys.
Derive ==
  /\ pc = "derive"
  /\ LET derived == BuildStateInit(DeployStorage(snap), snap.codes[3])
         usable == snap.codes[3] # None /\ snap.val["min_client_stake"] > 0
     IN  /\ pc' = IF ~usable THEN "refused" ELSE IF derived # announced THEN "mismatch" ELSE "registered"
         /\ account' = IF pc' = "registered" THEN derived.data ELSE account
  /\ UNCHANGED <<root, announced, changed, snap>>

\* External: the contract's storage moves on, and is closing or closed.
ContractRuns ==
  /\ pc = "registered"
  /\ account[1][2] = 0
  /\ \E st \in 1 .. 2, b, s \in Amounts :
       account' = StorageCell(st, b, s, 1, st, account[7][2], account[8][2])
  /\ UNCHANGED <<root, announced, changed, snap, pc>>

Next == Announce \/ RootChanges \/ LoadStateSnapshot \/ Derive \/ ContractRuns

Spec == Init /\ [][Next]_vars

----------------------------------------------------------------------------
decodeClientRequestBalance(data) ==
  IF data[1][1] = "u2" /\ data[2][1] = "coins" THEN data[2][2] ELSE Err

parseClientSCData(data) ==
  IF [i \in 1 .. 5 |-> data[i][1]] # <<"u2", "coins", "coins", "u64", "u32">> THEN Err
  ELSE [state |-> data[1][2], balance |-> data[2][2], stake |-> data[3][2], tokens |-> data[4][2], unlock |-> data[5][2]]

----------------------------------------------------------------------------
(* Properties.                                                             *)

\* registerOnChain refuses an announced address only if the root's parameters
\* changed since the proxy computed it: for every struct version the client
\* reads the parameters and rebuilds the contract's data bit for bit, and a
\* change of another contract's code does not matter.  It deploys a contract
\* only with the parameters it has read, at the address the proxy watches.
AddressAgrees ==
  /\ pc = "mismatch" => changed
  /\ pc = "registered" =>
       /\ snap.version \in 1 .. 5
       /\ announced.code = snap.codes[3]
       /\ account[8] = <<"ref", ChainCell(snap, NoCodes)>>

\* The two encoders of the client contract's initial data, ClientStateInitData
\* and client.EncodeStorage, agree on every snapshot with a stake, and so do its
\* two readers on the balance that registerOnChain tops up from and channel info
\* shows, in whatever state the contract is.
CodecsAgree ==
  /\ snap # Err /\ snap.val["min_client_stake"] # None =>
       clientInitData(snap, "owner", "proxy") = EncodeStorage(DeployStorage(snap))
  /\ account # <<>> =>
       /\ parseClientSCData(account) # Err
       /\ decodeClientRequestBalance(account) = parseClientSCData(account).balance
       /\ parseClientSCData(account).balance = account[2][2]
=============================================================================
