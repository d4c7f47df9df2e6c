------------------------------ MODULE MCStores ------------------------------
(***************************************************************************)
(* The two implementations of store.Store.  A program uses one of them:    *)
(* impl says which, and the other stays empty.                             *)
(***************************************************************************)
EXTENDS BoltStore

VARIABLES
  impl,
  root, clients, payments, mine, aliases, memAnswer

M == INSTANCE MemStore WITH answer <- memAnswer

memVars == <<root, clients, payments, mine, aliases, memAnswer>>

\* Times at and around a threshold.
MCTimes == 1 .. 2

----------------------------------------------------------------------------
MCInit == impl \in {"memory", "bbolt"} /\ M!Init /\ Init

MCNext ==
  \/ impl = "memory" /\ M!Next /\ UNCHANGED <<impl, vars>>
  \/ impl = "bbolt" /\ Next /\ UNCHANGED <<impl, memVars>>

MCSpec == MCInit /\ [][MCNext]_<<impl, memVars, vars>>

----------------------------------------------------------------------------
(* The property of MemStore; that of BoltStore is there.                   *)

\* Every method of the in-memory store is the method the interface promises,
\* although the caller goes on writing to the objects it passed in or got.
MemoryImplementsStore == M!ImplementsStore
=============================================================================
