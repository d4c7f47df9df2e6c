------------------------------ MODULE MemStore ------------------------------
(***************************************************************************)
(* The in-memory store (pkg/store/memory/memory.go).  Every method runs    *)
(* under mu and is one action.  The objects a caller passes in and gets    *)
(* back are its own: the model keeps the caller's last object and the      *)
(* entries of the store that are that same object, which there must never  *)
(* be, since the caller may write to it at any time.                       *)
(***************************************************************************)
EXTENDS Integers, FiniteSets

CONSTANTS Proxies, Requests, Data, Times, None

VARIABLES root, clients, payments,   \* as in the code; a map is a function on its keys
          mine,                      \* the caller's object
          aliases,                   \* keys whose entry is that object
          answer

vars == <<root, clients, payments, mine, aliases, answer>>

\* What PaymentKey is stored under.
Payment(p, r) ==
  IF p \in DOMAIN payments /\ r \in DOMAIN payments[p] THEN payments[p][r] ELSE None

Table ==
  [k \in {<<"root">>} \cup {<<"client", p>> : p \in Proxies}
         \cup {<<"payment", p, r>> : p \in Proxies, r \in Requests} |->
     CASE k[1] = "root" -> root
       [] k[1] = "client" -> IF k[2] \in DOMAIN clients THEN clients[k[2]] ELSE None
       [] k[1] = "payment" -> Payment(k[2], k[3])]

Service == INSTANCE StoreService WITH rows <- Table

Values == Service!Values

With(f, x, v) == [y \in DOMAIN f \cup {x} |-> IF y = x THEN v ELSE f[y]]
Without(f, gone) == [y \in DOMAIN f \ gone |-> f[y]]
EmptyMap == [x \in {} |-> None]

\* Mutant: the slice of the object is kept, not copied.
Shared_Slice(k) == {k}

\* cp := *snap and a copy of its slice: nothing is shared with the caller.
Shared(k) == {}

Init ==
  /\ root = None
  /\ clients = EmptyMap
  /\ payments = EmptyMap
  /\ mine = None
  /\ aliases = {}
  /\ answer = Service!Done("new")

----------------------------------------------------------------------------
\* The caller keeps the object of a Put and the one a Get returned.
Gives(v, k) == mine' = v /\ aliases' = Shared(k) /\ answer' = Service!Done("put")

Takes(v, k) ==
  /\ mine' = v /\ aliases' = IF v = None THEN {} ELSE Shared(k)
  /\ answer' = Service!Value("get", v)
  /\ UNCHANGED <<root, clients, payments>>

GetRoot == Takes(root, Service!RootKey)

PutRoot(v) ==
  /\ root' = v
  /\ Gives(v, Service!RootKey)
  /\ UNCHANGED <<clients, payments>>

GetClientSC(p) ==
  Takes(IF p \in DOMAIN clients THEN clients[p] ELSE None, Service!ClientKey(p))

PutClientSC(p, v) ==
  /\ clients' = With(clients, p, v)
  /\ Gives(v, Service!ClientKey(p))
  /\ UNCHANGED <<root, payments>>

DeleteClientSC(p) ==
  /\ clients' = Without(clients, {p})
  /\ answer' = Service!Done("delete")
  /\ UNCHANGED <<root, payments, mine, aliases>>

PutSignedPayment(p, r, v) ==
  /\ LET bucket == IF p \in DOMAIN payments THEN payments[p] ELSE EmptyMap
     IN  payments' = With(payments, p, With(bucket, r, v))
  /\ Gives(v, Service!PaymentKey(p, r))
  /\ UNCHANGED <<root, clients>>

GetSignedPayment(p, r) == Takes(Payment(p, r), Service!PaymentKey(p, r))

\* The payments without those in gone, a function from proxies to requests,
\* and without the buckets that this empties.
Remove(gone) ==
  LET left(p) == DOMAIN payments[p] \ gone[p]
  IN  [p \in {q \in DOMAIN payments : left(q) # {}} |-> [r \in left(p) |-> payments[p][r]]]

DeleteSignedPayment(p, r) ==
  /\ payments' = Remove([q \in Proxies |-> IF q = p THEN {r} ELSE {}])
  /\ answer' = Service!Done("delete")
  /\ UNCHANGED <<root, clients, mine, aliases>>

ListSignedPayments(p) ==
  /\ answer' = Service!Value("list",
                  IF p \in DOMAIN payments
                  THEN {<<r, payments[p][r]>> : r \in DOMAIN payments[p]} ELSE {})
  /\ aliases' = aliases \cup UNION {Shared(Service!PaymentKey(p, r)) : r \in Requests}
  /\ UNCHANGED <<root, clients, payments, mine>>

\* StoredAt.Before(olderThan)
Old(p, r, t) == payments[p][r].at < t

GCSignedPayments(t) ==
  LET old == [p \in Proxies |->
                IF p \in DOMAIN payments THEN {r \in DOMAIN payments[p] : Old(p, r, t)} ELSE {}]
  IN  /\ payments' = Remove(old)
      /\ answer' = Service!Value("gc", Cardinality({pr \in Proxies \X Requests : pr[2] \in old[pr[1]]}))
      /\ UNCHANGED <<root, clients, mine, aliases>>

\* The caller writes to its object.
CallerWrites(v) ==
  /\ mine # None
  /\ mine' = v
  /\ root' = IF Service!RootKey \in aliases THEN v ELSE root
  /\ clients' = [p \in DOMAIN clients |->
                   IF Service!ClientKey(p) \in aliases THEN v ELSE clients[p]]
  /\ payments' = [p \in DOMAIN payments |-> [r \in DOMAIN payments[p] |->
                    IF Service!PaymentKey(p, r) \in aliases THEN v ELSE payments[p][r]]]
  /\ UNCHANGED <<aliases, answer>>

Next ==
  \/ GetRoot
  \/ \E v \in Values : PutRoot(v) \/ CallerWrites(v)
  \/ \E p \in Proxies :
       \/ GetClientSC(p) \/ DeleteClientSC(p) \/ ListSignedPayments(p)
       \/ \E v \in Values : PutClientSC(p, v)
       \/ \E r \in Requests :
            \/ GetSignedPayment(p, r) \/ DeleteSignedPayment(p, r)
            \/ \E v \in Values : PutSignedPayment(p, r, v)
  \/ \E t \in Times : GCSignedPayments(t)

Spec == Init /\ [][Next]_vars

----------------------------------------------------------------------------
\* Every method is the method the interface promises, and nothing a caller
\* does to the objects it passed in or got back changes what is stored.
ImplementsStore == Service!StoreSpec
=============================================================================
